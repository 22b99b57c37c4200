------------------------------ MODULE Positions ------------------------------
(***************************************************************************)
(* From a position of any of the ten kinds to a pose of the world, or to the  *)
(* status that says why there is none.  The lookup gives the entities of the  *)
(* scenario their poses; the network is None where the gateway has none.      *)
(* Pitch and roll compose as the heading does and are left out.               *)
(***************************************************************************)
EXTENDS Curves

ok(pose) == [status |-> "Ok", pose |-> pose]
Refused(status) == [status |-> status, pose |-> None]
unresolved_reference == Refused("SemanticError")
semantic == Refused("SemanticError")
unsupported == Refused("UnsupportedFeature")
no_road_network == unsupported
Malformed == Refused("ValidationError")

\* No orientation: that of the reference; an absolute one replaces it, a
\* relative one turns it.
compose_orientation(base, orientation) ==
  IF orientation = None THEN base % 4
  ELSE IF orientation.type = "absolute" THEN orientation.h % 4
  ELSE (base + orientation.h) % 4
Posed(x, y, base, orientation) ==
  ok([x |-> x, y |-> y, heading |-> compose_orientation(base, orientation)])

PosedAt(point, heading, orientation) ==
  IF point = None \/ heading = None THEN semantic ELSE Posed(point.x, point.y, heading, orientation)
Turned(heading, extra) == IF heading = None THEN None ELSE heading + extra
resolve_on_road(net, at, extra, orientation) ==
  PosedAt(to_world_position(net, at), Turned(road_heading(net, at.road, at.s), extra), orientation)
At(road, lane, s, t) == [road |-> road, lane |-> lane, s |-> s, t |-> t]

---------------------------------------------------------------------------
(* Positions relative to entities.                                             *)

WorldPose(p) == ok([x |-> p.x, y |-> p.y, heading |-> p.heading])
RelativeWorldPose(lookup, p) ==
  LET ref == lookup[p.ref]
  IN IF p.ref \notin DOMAIN lookup THEN unresolved_reference
     ELSE Posed(ref.x + p.dx, ref.y + p.dy, ref.heading, p.orientation)
RelativeObjectPose(lookup, p) ==
  LET ref == lookup[p.ref] c == Cos(ref.heading) s == Sin(ref.heading)
  IN IF p.ref \notin DOMAIN lookup THEN unresolved_reference
     ELSE Posed(ref.x + p.dx * c - p.dy * s, ref.y + p.dx * s + p.dy * c, ref.heading, p.orientation)

---------------------------------------------------------------------------
(* Positions on a road.                                                        *)

RoadPose(net, p) == resolve_on_road(net, At(p.road, 0, p.s, p.t), 0, p.orientation)

\* A position relative to an entity stays on the road the entity is on.
Leaves(net, road, s) == s < 0 \/ s > road_length(net, road)
RoadFrom(net, here, p) ==
  IF here = None THEN semantic
  ELSE IF Leaves(net, here.road, here.s + p.ds) THEN unsupported
  ELSE resolve_on_road(net, At(here.road, 0, here.s + p.ds, here.t + p.dt), 0, p.orientation)
RelativeRoadPose(net, lookup, p) ==
  IF p.ref \notin DOMAIN lookup THEN unresolved_reference
  ELSE RoadFrom(net, to_lane_position(net, lookup[p.ref]), p)

BesideCentre(net, road, lane, s, centre, extra, p) ==
  IF centre = None THEN semantic
  ELSE resolve_on_road(net, At(road, lane, s, centre + p.offset), extra, p.orientation)
InLane(net, road, lane, s, extra, p) ==
  BesideCentre(net, road, lane, s, lane_center_offset(net, road, lane, s), extra, p)
LanePose(net, p) ==
  IF p.lane = None THEN Malformed ELSE InLane(net, p.road, p.lane, p.s, 0, p)

InLaneFrom(net, here, lane, s, p) ==
  IF lane = None THEN semantic
  ELSE IF Leaves(net, here.road, s) THEN unsupported
  ELSE InLane(net, here.road, lane, s, 0, p)
LaneFrom(net, here, p) ==
  IF here = None THEN semantic
  ELSE InLaneFrom(net, here, relative_lane(net, here.road, here.lane, p.d_lane),
                  here.s + (IF p.ds = None THEN 0 ELSE p.ds), p)
RelativeLanePose(net, lookup, p) ==
  IF p.ds_lane # None THEN unsupported
  ELSE IF p.ref \notin DOMAIN lookup THEN unresolved_reference
  ELSE LaneFrom(net, to_lane_position(net, lookup[p.ref]), p)

---------------------------------------------------------------------------
(* Positions on a route.                                                       *)

SpanLength(span) == Magnitude(span.end - span.begin)
travelled(spans, i) == FoldLeft(LAMBDA sum, span : sum + SpanLength(span), 0, SubSeq(spans, 1, i))

\* The first span the path reaches, and the place on its road.
Backwards(span) == span.end < span.begin
PlaceIn(spans, i, path_s) ==
  LET remaining == path_s - travelled(spans, i - 1)
  IN [span |-> spans[i],
      s |-> IF Backwards(spans[i]) THEN spans[i].begin - remaining ELSE spans[i].begin + remaining]
RoutePlace(spans, path_s) ==
  PlaceIn(spans, Least({j \in DOMAIN spans : j = Len(spans) \/ path_s <= travelled(spans, j)}), path_s)

\* The path to where the entity is, or the path given.
Along(spans, here) == IF here = None THEN None ELSE position_along_route(spans, here)
PathOf(net, lookup, p, spans) ==
  IF p.from = None THEN p.path_s ELSE Along(spans, to_lane_position(net, lookup[p.from]))
OnSpan(net, p, span, s) ==
  LET extra == IF Backwards(span) THEN 2 ELSE 0
  IN IF p.form = "road"
     THEN resolve_on_road(net, At(span.road, span.lane, s, IF p.t = None THEN 0 ELSE p.t),
                          extra, p.orientation)
     ELSE IF p.lane = None THEN Malformed ELSE InLane(net, span.road, p.lane, s, extra, p)
OnRoute(net, p, place) == OnSpan(net, p, place.span, place.s)
OnPath(net, p, spans, path_s) ==
  IF path_s = None THEN semantic
  ELSE IF path_s < 0 \/ path_s > travelled(spans, Len(spans)) THEN semantic
  ELSE OnRoute(net, p, RoutePlace(spans, path_s))
OnSpans(net, lookup, p, spans) ==
  IF spans = None THEN semantic
  ELSE IF p.from # None /\ p.from \notin DOMAIN lookup THEN unresolved_reference
  ELSE OnPath(net, p, spans, PathOf(net, lookup, p, spans))
OnWaypoints(net, lookup, p, waypoints) ==
  IF None \in Range(waypoints) THEN semantic
  ELSE OnSpans(net, lookup, p, build_route(net, waypoints))
RoutePose(net, lookup, p) ==
  IF Len(p.route) < 2 \/ (p.from = None) = (p.path_s = None) THEN Malformed
  ELSE OnWaypoints(net, lookup, p, [i \in DOMAIN p.route |-> to_lane_position(net, p.route[i])])

---------------------------------------------------------------------------
(* Positions on a trajectory, on the globe.                                    *)

GeoPose == unsupported
BesideTrajectory(p, foot) ==
  Posed(foot.x - p.t * Sin(foot.heading), foot.y + p.t * Cos(foot.heading), foot.heading, p.orientation)
AlongTrajectory(p, status) ==
  IF status # "Ok" THEN Refused(status)
  ELSE BesideTrajectory(p, pose_at_arclength(p.trajectory, p.s))
TrajectoryPose(p) ==
  IF p.trajectory = None THEN Malformed ELSE AlongTrajectory(p, TrajectoryEvaluator(p.trajectory))

RoadFamily == {"road", "relativeRoad", "lane", "relativeLane", "route"}
resolve(net, lookup, p) ==
  IF p.kind \in RoadFamily /\ net = None THEN no_road_network
  ELSE CASE p.kind = "world" -> WorldPose(p)
         [] p.kind = "relativeWorld" -> RelativeWorldPose(lookup, p)
         [] p.kind = "relativeObject" -> RelativeObjectPose(lookup, p)
         [] p.kind = "road" -> RoadPose(net, p)
         [] p.kind = "relativeRoad" -> RelativeRoadPose(net, lookup, p)
         [] p.kind = "lane" -> LanePose(net, p)
         [] p.kind = "relativeLane" -> RelativeLanePose(net, lookup, p)
         [] p.kind = "route" -> RoutePose(net, lookup, p)
         [] p.kind = "geo" -> GeoPose
         [] p.kind = "trajectory" -> TrajectoryPose(p)
=============================================================================
