------------------------------- MODULE Measure -------------------------------
(***************************************************************************)
(* Distances between entities, their rate of change, and the gaps they keep.  *)
(* Boxes have half sizes, headings are quarter turns, so every  *)
(* projection is whole; a distance is kept as its square, because the straight *)
(* one is a root.  What an entity is known by has its state [x, y, z, heading, *)
(* speed], its box or None, and the values the engine derives from step to     *)
(* step; a target is either such an entity or a point.                          *)
(***************************************************************************)
EXTENDS Roads

Square(x) == x * x

---------------------------------------------------------------------------
(* Boxes.                                                                      *)

make_obb(state, box) ==
  LET c == Cos(state.heading) s == Sin(state.heading)
  IN [x |-> state.x + box.cx * c - box.cy * s, y |-> state.y + box.cx * s + box.cy * c,
      c |-> c, s |-> s, hx |-> box.hx, hy |-> box.hy]
projected_radius(box, u) ==
  box.hx * Magnitude(box.c * u.x + box.s * u.y) + box.hy * Magnitude(box.c * u.y - box.s * u.x)
obb_project(box, u) ==
  LET centre == box.x * u.x + box.y * u.y radius == projected_radius(box, u)
  IN [lo |-> centre - radius, hi |-> centre + radius]
separated_on_axis(a, b, u) ==
  Magnitude((b.x - a.x) * u.x + (b.y - a.y) * u.y) > projected_radius(a, u) + projected_radius(b, u)
Axes(box) == {[x |-> box.c, y |-> box.s], [x |-> -box.s, y |-> box.c]}
\* Touching is no separation.
obb_intersects(a, b) == \A u \in Axes(a) \cup Axes(b) : ~separated_on_axis(a, b, u)

world_corners(box) ==
  {[x |-> box.x + k.x * box.c - k.y * box.s, y |-> box.y + k.x * box.s + k.y * box.c] :
     k \in [x : {box.hx, -box.hx}, y : {box.hy, -box.hy}]}
point_obb_distance(p, box) ==
  LET rx == p.x - box.x ry == p.y - box.y
      lx == rx * box.c + ry * box.s ly == ry * box.c - rx * box.s
  IN Square(lx - Clamped(lx, -box.hx, box.hx)) + Square(ly - Clamped(ly, -box.hy, box.hy))
\* Mutant: only the corners of the first box are tried.
obb_distance_one_way(a, b) ==
  IF obb_intersects(a, b) THEN 0 ELSE Least({point_obb_distance(p, b) : p \in world_corners(a)})
obb_distance(a, b) ==
  IF obb_intersects(a, b) THEN 0
  ELSE Least({point_obb_distance(p, b) : p \in world_corners(a)}
             \cup {point_obb_distance(p, a) : p \in world_corners(b)})

---------------------------------------------------------------------------
(* Distances.                                                                  *)

\* Every measurement is made in a coordinate system, by a type of distance, over
\* a network or None, between reference points or in free space.
projection_axis(spec, heading) ==
  LET along == IF spec.cs = "world" THEN 0 ELSE heading
      quarters == IF spec.type = "lateral" THEN along + 1 ELSE along
  IN [x |-> Cos(quarters), y |-> Sin(quarters)]
euclidean(spec) == spec.type \in {"euclidian", "cartesian"}
by_road(spec) == spec.cs \in {"lane", "road"}
Boxless(spec, e) == spec.freespace /\ e.entity /\ e.box = None

\* What an entity covers of its road, along it and across; a point covers itself.
Reach(at, u, v) == [at |-> at, along |-> [lo |-> at.s + u.lo, hi |-> at.s + u.hi], across |-> v]
FromFoot(span, foot, u) ==
  LET at == foot.x * u.x + foot.y * u.y IN [lo |-> span.lo - at, hi |-> span.hi - at]
BoxReach(at, obb, foot, along, across) ==
  Reach(at, FromFoot(obb_project(obb, along), foot, along), FromFoot(obb_project(obb, across), foot, across))
BoxOnRoad(at, obb, foot, heading) ==
  IF foot = None THEN None
  ELSE BoxReach(at, obb, foot, [x |-> Cos(heading), y |-> Sin(heading)],
                [x |-> -Sin(heading), y |-> Cos(heading)])
CentreLine(at) == [road |-> at.road, lane |-> 0, s |-> at.s, t |-> 0]
ExtentAt(net, at, state, box) ==
  IF at = None THEN None
  ELSE IF box = None THEN Reach(at, [lo |-> 0, hi |-> 0], [lo |-> at.t, hi |-> at.t])
  ELSE BoxOnRoad(at, make_obb(state, box), to_world_position(net, CentreLine(at)),
                 road_heading(net, at.road, at.s))
road_extent(net, e, box) == ExtentAt(net, to_lane_position(net, e.state), e.state, box)

Between(a, b) == Square(Larger(0, Larger(b.lo - a.hi, a.lo - b.hi)))
Apart(a, b, spec) ==
  IF None \in {a, b} THEN None
  ELSE IF a.at.road # b.at.road THEN None
  ELSE IF ~spec.freespace
       THEN Square(IF spec.type = "lateral" THEN b.at.t - a.at.t ELSE b.at.s - a.at.s)
  ELSE IF spec.type = "lateral" THEN Between(a.across, b.across) ELSE Between(a.along, b.along)
BoxOf(spec, e) == IF spec.freespace /\ e.entity THEN e.box ELSE None
Extents(pair, spec) == [i \in DOMAIN pair |-> road_extent(spec.net, pair[i], BoxOf(spec, pair[i]))]
ApartOf(extents, spec) == Apart(extents[1], extents[2], spec)
measure_on_road(trigger, target, spec) ==
  IF spec.net = None \/ Boxless(spec, trigger) \/ Boxless(spec, target) THEN None
  ELSE ApartOf(Extents(<<trigger, target>>, spec), spec)

\* The square of the distance, None where a prerequisite is missing.
measure_distance(trigger, target, spec) ==
  LET a == trigger.state b == target.state
      u == projection_axis(spec, a.heading)
      obb(e) == make_obb(e.state, e.box)
      at == b.x * u.x + b.y * u.y
      covered == IF target.entity THEN obb_project(obb(target), u) ELSE [lo |-> at, hi |-> at]
  IN IF spec.cs = "trajectory" THEN None
     ELSE IF ~euclidean(spec) /\ by_road(spec) THEN measure_on_road(trigger, target, spec)
     ELSE IF ~spec.freespace
          THEN IF euclidean(spec) THEN Dist2(a, b) + Square(b.z - a.z)
               ELSE Square((b.x - a.x) * u.x + (b.y - a.y) * u.y)
     ELSE IF Boxless(spec, trigger) \/ Boxless(spec, target) THEN None
     ELSE IF ~euclidean(spec) THEN Between(obb_project(obb(trigger), u), covered)
     ELSE IF target.entity THEN obb_distance(obb(trigger), obb(target))
     ELSE point_obb_distance(b, obb(trigger))

---------------------------------------------------------------------------
(* Closing speeds: how fast a distance becomes shorter, over a root.           *)

\* Mutant: the separation may be behind as well.
ClosingAhead(separation, change) ==
  IF separation = 0 THEN None ELSE [rate |-> -change, root |-> 1]
Velocity(e, heading) ==
  IF e.entity THEN [x |-> e.state.speed * Cos(heading), y |-> e.state.speed * Sin(heading)]
  ELSE [x |-> 0, y |-> 0]
\* The separation along an axis and its change: towards nothing, when they agree.
Closing(separation, change) ==
  IF separation = 0 THEN None
  ELSE [rate |-> IF separation > 0 THEN -change ELSE change, root |-> 1]

OnRoadVelocity(net, e, at) == Velocity(e, e.state.heading - road_heading(net, at.road, at.s))
ClosingAt(a, b, va, vb, spec) ==
  IF None \in {a, b} THEN None
  ELSE IF a.road # b.road THEN None
  ELSE IF spec.type = "lateral" THEN Closing(b.t - a.t, vb.y - va.y) ELSE Closing(b.s - a.s, vb.x - va.x)
ClosingBetween(trigger, target, a, b, spec) ==
  ClosingAt(a, b, OnRoadVelocity(spec.net, trigger, a), OnRoadVelocity(spec.net, target, b), spec)
closing_on_road(trigger, target, spec) ==
  IF spec.net = None THEN None
  ELSE ClosingBetween(trigger, target, to_lane_position(spec.net, trigger.state),
                      to_lane_position(spec.net, target.state), spec)
closing_speed(trigger, target, spec) ==
  LET a == trigger.state b == target.state
      va == Velocity(trigger, a.heading)
      vb == IF target.entity THEN Velocity(target, b.heading) ELSE [x |-> 0, y |-> 0]
      u == projection_axis(spec, a.heading)
      d2 == Dist2(a, b) + Square(b.z - a.z)
  IN IF euclidean(spec)
     THEN IF d2 = 0 THEN None
          ELSE [rate |-> (b.x - a.x) * (va.x - vb.x) + (b.y - a.y) * (va.y - vb.y), root |-> d2]
     ELSE IF spec.cs = "trajectory" THEN None
     ELSE IF by_road(spec) THEN closing_on_road(trigger, target, spec)
     ELSE Closing((b.x - a.x) * u.x + (b.y - a.y) * u.y,
                  (vb.x - va.x) * u.x + (vb.y - va.y) * u.y)

---------------------------------------------------------------------------
(* Gaps, what distance keeping holds on to.                                    *)

Overlap(reference_point_gap, a, b) ==
  IF reference_point_gap >= 0 THEN b.lo - a.hi ELSE b.hi - a.lo
Flank(reference_point_gap, a, b) ==
  IF reference_point_gap >= 0 THEN Larger(0, a.lo - b.hi) ELSE -Larger(0, b.lo - a.hi)

\* Positive when the reference is ahead.
signed_longitudinal_gap(actor, reference, spec) ==
  LET a == actor.state b == reference.state
      u == projection_axis([spec EXCEPT !.type = "longitudinal"], a.heading)
      gap == (b.x - a.x) * u.x + (b.y - a.y) * u.y
      covered(e) == obb_project(make_obb(e.state, e.box), u)
  IN IF ~spec.freespace THEN gap
     ELSE IF None \in {actor.box, reference.box} THEN None
     ELSE Overlap(gap, covered(actor), covered(reference))
\* Positive when the actor is to the left.
signed_lateral_gap(actor, reference, spec, axis_heading) ==
  LET a == actor.state b == reference.state
      u == projection_axis([spec EXCEPT !.type = "lateral"], axis_heading)
      gap == (a.x - b.x) * u.x + (a.y - b.y) * u.y
      covered(e) == obb_project(make_obb(e.state, e.box), u)
  IN IF ~spec.freespace THEN gap
     ELSE IF None \in {actor.box, reference.box} THEN None
     ELSE Flank(gap, covered(actor), covered(reference))

\* The same along and across the road both are on.
Together(extents) ==
  /\ \A i \in DOMAIN extents : extents[i] # None
  /\ extents[1].at.road = extents[2].at.road
NotOnRoads(actor, reference, spec) ==
  spec.net = None \/ (spec.freespace /\ None \in {actor.box, reference.box})
GapAlong(a, b, spec) ==
  IF spec.freespace THEN Overlap(b.at.s - a.at.s, a.along, b.along) ELSE b.at.s - a.at.s
AlongRoad(extents, spec) == IF Together(extents) THEN GapAlong(extents[1], extents[2], spec) ELSE None
road_signed_longitudinal_gap(actor, reference, spec) ==
  IF NotOnRoads(actor, reference, spec) THEN None
  ELSE AlongRoad(Extents(<<actor, reference>>, spec), spec)
GapAcross(a, b, spec) ==
  IF spec.freespace THEN Flank(a.at.t - b.at.t, a.across, b.across) ELSE a.at.t - b.at.t
AcrossRoad(extents, spec) == IF Together(extents) THEN GapAcross(extents[1], extents[2], spec) ELSE None
road_signed_lateral_gap(actor, reference, spec) ==
  IF NotOnRoads(actor, reference, spec) THEN None
  ELSE AcrossRoad(Extents(<<actor, reference>>, spec), spec)
=============================================================================
