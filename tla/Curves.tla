-------------------------------- MODULE Curves --------------------------------
(***************************************************************************)
(* Trajectories as curves by arc length.  Polylines have sides along the axes, *)
(* so that lengths are whole; of the clothoids the straight ones have a pose   *)
(* here, all of them are checked; of a NURBS only what makes it valid is kept.  *)
(* None is a number that is not finite.                                        *)
(***************************************************************************)
EXTENDS Roads

Rejects(condition, status) == IF condition THEN status ELSE "Ok"
FirstOf(statuses) ==
  LET bad == {i \in DOMAIN statuses : statuses[i] # "Ok"}
  IN IF bad = {} THEN "Ok" ELSE statuses[Least(bad)]

---------------------------------------------------------------------------
(* Polylines.                                                                  *)

build_polyline(curve) ==
  Rejects(Len(curve.vertices) < 2 \/ None \in Range(curve.vertices), "ValidationError")
Side(a, b) == Magnitude(b.x - a.x) + Magnitude(b.y - a.y)
seg_heading(a, b) == IF b.x > a.x THEN 0 ELSE IF b.y > a.y THEN 1
                     ELSE IF b.x < a.x THEN 2 ELSE IF b.y < a.y THEN 3 ELSE 0
arc(curve, i) ==
  FoldLeft(LAMBDA sum, j : sum + Side(curve.vertices[j], curve.vertices[j + 1]), 0,
           [j \in 1 .. i - 1 |-> j])
total_length(curve) ==
  IF curve.shape = "polyline" THEN arc(curve, Len(curve.vertices)) ELSE curve.length

\* The first segment that reaches the value, the last one at the end.
segment_index(curve, value) ==
  LET last == Len(curve.vertices) - 1
  IN IF value >= arc(curve, last + 1) THEN last
     ELSE Least({i \in 1 .. last : value <= arc(curve, i + 1)})
SidePose(a, heading, along) ==
  [x |-> a.x + along * Cos(heading), y |-> a.y + along * Sin(heading), heading |-> heading]
OnSide(curve, i, at) ==
  SidePose(curve.vertices[i], seg_heading(curve.vertices[i], curve.vertices[i + 1]), at - arc(curve, i))
OnPolyline(curve, at) == OnSide(curve, segment_index(curve, at), at)
polyline_pose(curve, s) == OnPolyline(curve, Clamped(s, 0, total_length(curve)))

---------------------------------------------------------------------------
(* Clothoids.                                                                  *)

build_clothoid(curve) ==
  Rejects(\/ None \in {curve.start, curve.curvature, curve.curvature_prime, curve.length}
          \/ curve.length < 0, "ValidationError")
clothoid_pose(curve, s) ==
  LET at == Clamped(s, 0, curve.length) heading == curve.start.heading
  IN [x |-> curve.start.x + at * Cos(heading), y |-> curve.start.y + at * Sin(heading),
      heading |-> heading]

---------------------------------------------------------------------------
(* NURBS.                                                                      *)

build_nurbs(curve) ==
  LET points == curve.control_points knots == curve.knots
      shape == curve.order < 2 \/ Len(points) < curve.order
               \/ Len(knots) # Len(points) + curve.order
      descending == \E i \in 2 .. Len(knots) : knots[i] < knots[i - 1]
      weightless == \E i \in DOMAIN points : points[i] = None \/ points[i].w <= 0
  IN FirstOf(<<Rejects(shape, "ValidationError"),
               Rejects(curve.order > 64, "UnsupportedFeature"),
               Rejects(~shape /\ (None \in Range(knots) \/ descending), "ValidationError"),
               Rejects(weightless, "ValidationError"),
               Rejects(~shape /\ None \notin Range(knots) /\ knots[curve.order] >= knots[Len(points) + 1],
                       "ValidationError")>>)

---------------------------------------------------------------------------
(* The evaluator.                                                              *)

TrajectoryEvaluator(curve) ==
  CASE curve.shape = "polyline" -> build_polyline(curve)
    [] curve.shape = "clothoid" -> build_clothoid(curve)
    [] curve.shape = "nurbs" -> build_nurbs(curve)
pose_at_arclength(curve, s) ==
  IF curve.shape = "polyline" THEN polyline_pose(curve, s) ELSE clothoid_pose(curve, s)
=============================================================================
