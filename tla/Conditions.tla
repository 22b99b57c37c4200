------------------------------ MODULE Conditions ------------------------------
(***************************************************************************)
(* What each kind of condition answers in a context: the simulation time, the *)
(* named values, the date, the signals, their controllers' phases, the states  *)
(* of storyboard elements, what is known of each entity that is in the         *)
(* simulation, and the network.  A text is a spelling and the number it spells, *)
(* or None.  Whatever is missing makes a condition false, whichever its rule.   *)
(***************************************************************************)
EXTENDS Measure

Rules == {"equalTo", "greaterThan", "lessThan", "greaterOrEqual", "lessOrEqual", "notEqualTo"}
compare(lhs, rule, rhs) ==
  CASE rule = "equalTo" -> lhs = rhs
    [] rule = "greaterThan" -> lhs > rhs
    [] rule = "lessThan" -> lhs < rhs
    [] rule = "greaterOrEqual" -> lhs >= rhs
    [] rule = "lessOrEqual" -> lhs <= rhs
    [] rule = "notEqualTo" -> lhs # rhs
\* A root against a number: no root is negative.
CompareRoot(square, rule, rhs) ==
  IF rhs < 0 THEN compare(0, rule, rhs) ELSE compare(square, rule, Square(rhs))
\* By number where both are numbers; other texts are equal or they are not.
compare_values(lhs, rule, rhs) ==
  IF None \notin {lhs.scalar, rhs.scalar} THEN compare(lhs.scalar, rule, rhs.scalar)
  ELSE rule \in {"equalTo", "notEqualTo"} /\ compare(lhs.spelling, rule, rhs.spelling)
Known(name, values) == name \in DOMAIN values

---------------------------------------------------------------------------
(* Conditions by value.                                                        *)

SimulationTimeHolds(context, c) == compare(context.time, c.rule, c.value)
NamedValueHolds(values, c) == Known(c.name, values) /\ compare_values(values[c.name], c.rule, c.value)
ParameterHolds(context, c) == NamedValueHolds(context.parameters, c)
VariableHolds(context, c) == NamedValueHolds(context.variables, c)
UserDefinedValueHolds(context, c) == NamedValueHolds(context.user, c)
TrafficSignalHolds(context, c) == Known(c.name, context.signals) /\ context.signals[c.name] = c.value
TrafficSignalControllerHolds(context, c) ==
  Known(c.name, context.phases) /\ context.phases[c.name] = c.value
StoryboardElementStateHolds(context, c) ==
  Known(c.name, context.elements) /\ c.value \in context.elements[c.name]

\* Dates in the proleptic Gregorian calendar; days and seconds since 1970.
LeapYear(year) == (year % 4 = 0 /\ year % 100 # 0) \/ year % 400 = 0
DaysIn(year, month) ==
  IF month = 2 THEN IF LeapYear(year) THEN 29 ELSE 28
  ELSE IF month \in {4, 6, 9, 11} THEN 30 ELSE 31
valid(d) ==
  /\ d.month \in 1 .. 12 /\ d.day \in 1 .. DaysIn(d.year, d.month)
  /\ d.hour \in 0 .. 23 /\ d.minute \in 0 .. 59 /\ d.second \in 0 .. 59
  /\ d.utc_offset_minutes \in -840 .. 840
DaysBefore(year) == year * 365 + year \div 4 - year \div 100 + year \div 400
DaysOfMonths(d) == FoldLeft(LAMBDA sum, month : sum + month, 0, [m \in 1 .. d.month - 1 |-> DaysIn(d.year, m)])
to_epoch_seconds(d) ==
  LET days == DaysBefore(d.year - 1) - DaysBefore(1969) + DaysOfMonths(d) + d.day - 1
  IN days * 86400 + d.hour * 3600 + d.minute * 60 + d.second - d.utc_offset_minutes * 60
TimeOfDayHolds(context, c) ==
  context.date # None /\ compare(context.date, c.rule, to_epoch_seconds(c.value))

---------------------------------------------------------------------------
(* Conditions on one entity.                                                   *)

\* No direction asks for the magnitude; nothing moves sideways or up.
project_longitudinal(value, direction) ==
  IF direction = None THEN Magnitude(value) ELSE IF direction = "longitudinal" THEN value ELSE 0

SpeedHolds(e, c) == compare(project_longitudinal(e.state.speed, c.direction), c.rule, c.value)
AccelerationHolds(e, c) ==
  e.acceleration # None /\ compare(project_longitudinal(e.acceleration, c.direction), c.rule, c.value)
StandStillHolds(e, c) == e.standstill >= c.value
TraveledDistanceHolds(e, c) == e.traveled >= c.value
ReachPositionHolds(e, c) == CompareRoot(Dist2(e.state, c.position.state), "lessOrEqual", c.value)
\* Zero seconds still take one.
EndOfRoadHolds(e, c) == e.end_of_road > 0 /\ e.end_of_road >= c.value
OffroadHolds(e, c) == e.offroad > 0 /\ e.offroad >= c.value
RelativeClearanceHolds == FALSE

---------------------------------------------------------------------------
(* Conditions on an entity and a target.                                       *)

\* How a condition is measured where it does not say.
effective_relative_distance_type(c) == IF c.type = None THEN "euclidian" ELSE c.type
effective_coordinate_system(c) ==
  IF c.cs # None THEN c.cs ELSE IF c.type = None /\ c.along_route THEN "road" ELSE "entity"
Measurement(context, c) ==
  [cs |-> effective_coordinate_system(c), type |-> effective_relative_distance_type(c),
   freespace |-> c.freespace, net |-> context.net]

RelativeSpeedHolds(e, target, c) ==
  LET a == Velocity(e, e.state.heading) b == Velocity(target, target.state.heading)
      along == e.state.heading + (IF c.direction = "lateral" THEN 1 ELSE 0)
  IN compare(IF c.direction = None THEN Magnitude(e.state.speed) - Magnitude(target.state.speed)
             ELSE IF c.direction = "vertical" THEN 0
             ELSE (a.x - b.x) * Cos(along) + (a.y - b.y) * Sin(along), c.rule, c.value)
DistanceHolds(measured, c) == measured # None /\ CompareRoot(measured, c.rule, c.value)
RelativeDistanceHolds(measured, c) == DistanceHolds(measured, c)
\* Mutant: an entity that moves backwards gets there too.
TimeHeadwayBackwards(measured, e, c) ==
  measured # None /\ CompareRoot(measured, c.rule, c.value * e.state.speed)
\* An entity that does not move forward never gets there.
TimeHeadwayHolds(measured, e, c) ==
  /\ measured # None /\ e.state.speed > 0
  /\ CompareRoot(measured, c.rule, c.value * e.state.speed)
\* Nor does one that does not come closer.
TimeToCollisionHolds(measured, closing, c) ==
  /\ measured # None /\ closing # None
  /\ closing.rate > 0
  /\ CompareRoot(measured * closing.root, c.rule, c.value * closing.rate)
CollisionHolds(e, target) ==
  /\ None \notin {e.box, target.box}
  /\ obb_intersects(make_obb(e.state, e.box), make_obb(target.state, target.box))

---------------------------------------------------------------------------
(* Triggering entities.                                                        *)

OverDistance == {"distance", "relativeDistance", "timeHeadway", "timeToCollision"}
AtTarget == OverDistance \cup {"relativeSpeed", "collision"}
OfDistance(measured, e, target, c, measurement) ==
  CASE c.kind = "distance" -> DistanceHolds(measured, c)
    [] c.kind = "relativeDistance" -> RelativeDistanceHolds(measured, c)
    [] c.kind = "timeHeadway" -> TimeHeadwayHolds(measured, e, c)
    [] c.kind = "timeToCollision" ->
         TimeToCollisionHolds(measured, closing_speed(e, target, measurement), c)
OfTarget(e, target, c, measurement) ==
  CASE c.kind = "relativeSpeed" -> RelativeSpeedHolds(e, target, c)
    [] c.kind = "collision" -> CollisionHolds(e, target)
    [] OTHER -> OfDistance(measure_distance(e, target, measurement), e, target, c, measurement)
OfEntity(e, c) ==
  CASE c.kind = "speed" -> SpeedHolds(e, c)
    [] c.kind = "acceleration" -> AccelerationHolds(e, c)
    [] c.kind = "standStill" -> StandStillHolds(e, c)
    [] c.kind = "traveledDistance" -> TraveledDistanceHolds(e, c)
    [] c.kind = "reachPosition" -> ReachPositionHolds(e, c)
    [] c.kind = "endOfRoad" -> EndOfRoadHolds(e, c)
    [] c.kind = "offroad" -> OffroadHolds(e, c)
    [] c.kind = "relativeClearance" -> RelativeClearanceHolds
Target(context, c) == IF c.ref = None THEN c.position ELSE context.entities[c.ref]
evaluate_for_entity(context, id, c) ==
  /\ Known(id, context.entities)
  /\ IF c.kind \notin AtTarget THEN OfEntity(context.entities[id], c)
     ELSE /\ c.ref = None \/ Known(c.ref, context.entities)
          /\ OfTarget(context.entities[id], Target(context, c), c, Measurement(context, c))

\* Of no entities nothing holds, not even for all of them.
Enough(holding, c) == holding # {} /\ (c.all => holding = Range(c.triggering))
ByEntityHolds(context, c) ==
  Enough({id \in Range(c.triggering) : evaluate_for_entity(context, id, c)}, c)
evaluate(context, c) ==
  CASE c.kind = "simulationTime" -> SimulationTimeHolds(context, c)
    [] c.kind = "parameter" -> ParameterHolds(context, c)
    [] c.kind = "variable" -> VariableHolds(context, c)
    [] c.kind = "userDefinedValue" -> UserDefinedValueHolds(context, c)
    [] c.kind = "timeOfDay" -> TimeOfDayHolds(context, c)
    [] c.kind = "trafficSignal" -> TrafficSignalHolds(context, c)
    [] c.kind = "trafficSignalController" -> TrafficSignalControllerHolds(context, c)
    [] c.kind = "elementState" -> StoryboardElementStateHolds(context, c)
    [] OTHER -> ByEntityHolds(context, c)
=============================================================================
