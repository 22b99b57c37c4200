-------------------------------- MODULE Roads --------------------------------
(***************************************************************************)
(* The OpenDRIVE backend of the road queries.  Lengths are whole numbers and *)
(* headings quarter turns, so that every query has an exact answer; None is  *)
(* "no answer".  A network is a function of roads and one of junctions, each  *)
(* by its id; the lanes of a section are a function of their ids, negative    *)
(* to the right of the reference line.                                        *)
(***************************************************************************)
EXTENDS Diagnostics, TLC

Cos(quarters) == <<1, 0, -1, 0>>[(quarters % 4) + 1]
Sin(quarters) == <<0, 1, 0, -1>>[(quarters % 4) + 1]
Dist2(p, q) == (p.x - q.x) * (p.x - q.x) + (p.y - q.y) * (p.y - q.y)
Least(S) == CHOOSE x \in S : \A y \in S : x <= y
Greatest(S) == CHOOSE x \in S : \A y \in S : x >= y
Clamped(x, low, high) == IF x < low THEN low ELSE IF x > high THEN high ELSE x
Magnitude(x) == IF x < 0 THEN -x ELSE x
Larger(x, y) == IF x >= y THEN x ELSE y

---------------------------------------------------------------------------
(* Reference lines: pieces of a curve, one after the other.                    *)

\* A piece of no length, or one that no evaluator takes, leaves no line at all.
line_ok(road) ==
  road.plan_view # <<>>
  /\ \A i \in DOMAIN road.plan_view :
       road.plan_view[i].length > 0 /\ ~road.plan_view[i].degenerate
start_s(road, i) ==
  FoldLeft(LAMBDA sum, piece : sum + piece.length, 0, SubSeq(road.plan_view, 1, i - 1))
length(road) == start_s(road, Len(road.plan_view) + 1)

\* The first piece that ends beyond the place, the last one at the end of the line.
PieceAt(road, at) ==
  Least({i \in DOMAIN road.plan_view : i = Len(road.plan_view) \/ at < start_s(road, i + 1)})
PoseOn(piece, along) ==
  [x |-> piece.x + along * Cos(piece.hdg), y |-> piece.y + along * Sin(piece.hdg),
   heading |-> piece.hdg % 4]
PoseOf(road, i, at) == PoseOn(road.plan_view[i], at - start_s(road, i))
PoseWithin(road, at) == PoseOf(road, PieceAt(road, at), at)
pose_at(road, s) == PoseWithin(road, Clamped(s, 0, length(road)))

\* The nearest point of the line, the first of several; t points to the left.
Nearest(far) == Least({s \in DOMAIN far : \A r \in DOMAIN far : far[s] <= far[r]})
Beside(s, foot, p) ==
  [s |-> s, foot |-> foot, t |-> (p.y - foot.y) * Cos(foot.heading) - (p.x - foot.x) * Sin(foot.heading)]
BesideAt(road, s, p) == Beside(s, pose_at(road, s), p)
project(road, p) ==
  BesideAt(road, Nearest([s \in 0 .. length(road) |-> Dist2(pose_at(road, s), p)]), p)

---------------------------------------------------------------------------
(* Cross-sections.                                                             *)

\* The last record that has begun holds; no lane is narrower than nothing.
Polynomial(record, x) == record.a + x * (record.b + x * (record.c + x * record.d))
WidthAt(record, ds) == Larger(0, Polynomial(record, ds - record.s_offset))
Begun(lane, ds) == {i \in DOMAIN lane.widths : \A j \in 1 .. i : lane.widths[j].s_offset <= ds}
width_at(lane, ds) ==
  IF Begun(lane, ds) = {} THEN 0 ELSE WidthAt(lane.widths[Greatest(Begun(lane, ds))], ds)

\* Mutant: the edge of a lane is the one towards the centre.
outer_edge_inner(section, lane, ds) ==
  LET within == {i \in DOMAIN section.lanes : i * lane > 0 /\ Magnitude(i) < Magnitude(lane)}
      width(i) == width_at(section.lanes[i], ds)
  IN (IF lane < 0 THEN -1 ELSE 1) * MapThenSumSet(width, within)
outer_edge(section, lane, ds) ==
  LET within == {i \in DOMAIN section.lanes : i * lane > 0 /\ Magnitude(i) <= Magnitude(lane)}
      width(i) == width_at(section.lanes[i], ds)
  IN (IF lane < 0 THEN -1 ELSE 1) * MapThenSumSet(width, within)

\* The road's edges, the outermost lanes' or the reference line.
left_edge(section, ds) == outer_edge(section, Greatest(DOMAIN section.lanes \cup {0}), ds)
right_edge(section, ds) == outer_edge(section, Least(DOMAIN section.lanes \cup {0}), ds)
within_edges(section, t, ds) == right_edge(section, ds) <= t /\ t <= left_edge(section, ds)

section_at(road, s) ==
  LET begun == {i \in DOMAIN road.sections : \A j \in 1 .. i : road.sections[j].s <= s}
  IN IF begun = {} THEN None ELSE Greatest(begun)
LaneOf(road, i, lane) ==
  IF i = None THEN None
  ELSE IF lane \in DOMAIN road.sections[i].lanes THEN road.sections[i].lanes[lane] ELSE None
lane_at(road, lane, s) == LaneOf(road, section_at(road, s), lane)

\* Lane 0 is not counted.
skip_center(lane, count) ==
  LET target == lane + count
  IN IF lane > 0 /\ target <= 0 THEN target - 1
     ELSE IF lane < 0 /\ target >= 0 THEN target + 1 ELSE target

---------------------------------------------------------------------------
(* Queries.                                                                    *)

OpenDriveRoadQuery(map) ==
  LET lines == {id \in DOMAIN map.roads : line_ok(map.roads[id])}
  IN [map EXCEPT !.roads = [id \in lines |-> map.roads[id]]]

On(net, road, s) == road \in DOMAIN net.roads /\ 0 <= s /\ s <= length(net.roads[road])

\* Lanes are counted outwards for as long as their ids are without a gap.
Innermost(lanes) ==
  IF lanes = {} THEN 0 ELSE CHOOSE i \in lanes : \A j \in lanes : Magnitude(i) <= Magnitude(j)
lane_under(section, t, ds) ==
  LET side == IF t > 0 THEN 1 ELSE -1
  IN IF t = 0 THEN 0
     ELSE Innermost({i \in DOMAIN section.lanes :
                       /\ i * side > 0
                       /\ \A j \in 1 .. Magnitude(i) : side * j \in DOMAIN section.lanes
                       /\ side * t <= side * outer_edge(section, i, ds)})

\* Where a point is on one road: the foot of the perpendicular has to be on it.
InSection(section, track, p) ==
  IF \/ DOMAIN section.lanes = {}
     \/ ~within_edges(section, track.t, track.s - section.s)
     \/ Dist2(track.foot, p) > track.t * track.t
  THEN None
  ELSE [s |-> track.s, t |-> track.t, lane |-> lane_under(section, track.t, track.s - section.s)]
OnTrack(road, i, track, p) == IF i = None THEN None ELSE InSection(road.sections[i], track, p)
AtTrack(road, track, p) == OnTrack(road, section_at(road, track.s), track, p)
on_road(road, p) == IF road.sections = <<>> THEN None ELSE AtTrack(road, project(road, p), p)
Closest(places, found) ==
  LET best == Least({id \in found : \A other \in found :
                                      Magnitude(places[id].t) <= Magnitude(places[other].t)})
      at == places[best]
  IN IF found = {} THEN None ELSE [road |-> best, s |-> at.s, t |-> at.t, lane |-> at.lane]
Found(places) == Closest(places, {id \in DOMAIN places : places[id] # None})
to_lane_position(net, p) == Found([id \in DOMAIN net.roads |-> on_road(net.roads[id], p)])

Offset(foot, t) ==
  [x |-> foot.x - t * Sin(foot.heading), y |-> foot.y + t * Cos(foot.heading)]
PointIn(road, i, at) ==
  IF i = None THEN None
  ELSE IF at.lane \notin DOMAIN road.sections[i].lanes
          \/ ~within_edges(road.sections[i], at.t, at.s - road.sections[i].s) THEN None
  ELSE Offset(pose_at(road, at.s), at.t)
to_world_position(net, at) ==
  IF ~On(net, at.road, at.s) THEN None
  ELSE PointIn(net.roads[at.road], section_at(net.roads[at.road], at.s), at)

road_heading(net, road, s) ==
  IF On(net, road, s) THEN pose_at(net.roads[road], s).heading ELSE None
road_length(net, road) == IF road \in DOMAIN net.roads THEN length(net.roads[road]) ELSE None

lane_exists(net, road, lane, s) ==
  On(net, road, s) /\ lane_at(net.roads[road], lane, s) # None
WidthIn(section, lane, s) ==
  IF section.lanes[lane].widths = <<>> THEN None ELSE width_at(section.lanes[lane], s - section.s)
lane_width(net, road, lane, s) ==
  IF ~lane_exists(net, road, lane, s) THEN None
  ELSE WidthIn(net.roads[road].sections[section_at(net.roads[road], s)], lane, s)
CentreIn(section, lane, ds) ==
  IF lane = 0 THEN 0
  ELSE (outer_edge(section, lane, ds)
        + outer_edge(section, IF lane > 0 THEN lane - 1 ELSE lane + 1, ds)) \div 2
lane_center_offset(net, road, lane, s) ==
  LET section == net.roads[road].sections[section_at(net.roads[road], s)]
  IN IF ~lane_exists(net, road, lane, s) THEN None ELSE CentreIn(section, lane, s - section.s)
lane_type(net, road, lane, s) ==
  IF lane_exists(net, road, lane, s) THEN lane_at(net.roads[road], lane, s).type ELSE None

\* Both lanes have to exist somewhere on the road.
relative_lane(net, road, lane, count) ==
  LET target == skip_center(lane, count)
      known == UNION {DOMAIN section.lanes : section \in Range(net.roads[road].sections)}
  IN IF road \notin DOMAIN net.roads THEN None
     ELSE IF {lane, target} \subseteq known THEN target ELSE None

\* The sections before and after that one, for as long as they have the lane.
SectionsWith(road, lane, here) ==
  LET has(a, b) == \A i \in a .. b : lane \in DOMAIN road.sections[i].lanes
  IN [first |-> Least({i \in 1 .. here : has(i, here)}),
      last |-> Greatest({i \in here .. Len(road.sections) : has(here, i)})]
RangeOf(road, with) ==
  [begin |-> road.sections[with.first].s,
   end |-> IF with.last < Len(road.sections) THEN road.sections[with.last + 1].s ELSE length(road)]
lane_s_range(net, road, lane, s) ==
  LET r == net.roads[road]
  IN IF ~lane_exists(net, road, lane, s) THEN None
     ELSE RangeOf(r, SectionsWith(r, lane, section_at(r, s)))

---------------------------------------------------------------------------
(* Routes.                                                                     *)

drives_forward(lane) == lane < 0

\* The lanes a lane leads to at the end it is driven towards: the lane it is
\* linked to, or what the junction connects it to.
neighbors_of(net, node) ==
  LET forward == drives_forward(node.lane)
      road == net.roads[node.road]
      boundary == road.sections[IF forward THEN Len(road.sections) ELSE 1].lanes
      lane == boundary[node.lane]
      linked == IF forward THEN lane.successor ELSE lane.predecessor
      link == IF forward THEN road.successor ELSE road.predecessor
      connections == {c \in net.junctions[link.element] : c.incoming = node.road}
  IN IF node.road \notin DOMAIN net.roads THEN {}
     ELSE IF road.sections = <<>> THEN {}
     ELSE IF node.lane \notin DOMAIN boundary \/ link = None THEN {}
     ELSE IF link.kind = "road" THEN
       (IF linked = None THEN {} ELSE {[road |-> link.element, lane |-> linked]})
     ELSE IF link.element \notin DOMAIN net.junctions THEN {}
     ELSE UNION {{[road |-> c.connecting, lane |-> l.to] :
                    l \in {l \in c.links : l.from = node.lane}} : c \in connections}

\* What is left of a lane after s, what there is of it before s, the way it is driven.
ahead(net, node, s) == IF drives_forward(node.lane) THEN length(net.roads[node.road]) - s ELSE s
behind(net, node, s) == IF drives_forward(node.lane) THEN s ELSE length(net.roads[node.road]) - s
enters(net, node) ==
  /\ node.road \in DOMAIN net.roads
  /\ lane_at(net.roads[node.road], node.lane,
             IF drives_forward(node.lane) THEN 0 ELSE length(net.roads[node.road])) # None

\* The goal's lane counts up to the goal.
leg(net, node, goal, s) == IF node = goal THEN behind(net, node, s) ELSE length(net.roads[node.road])

\* Mutant: the frontier is in the order of the lanes, not of the distances.
BeforeByName(search, a, b) ==
  a.road < b.road \/ (a.road = b.road /\ a.lane <= b.lane)
\* One round of Dijkstra's algorithm: the nearest lane of the frontier, the
\* first of several by road and lane, is settled and its neighbours relaxed.
Before(search, a, b) ==
  LET x == search.distance[a] y == search.distance[b]
  IN x < y \/ (x = y /\ (a.road < b.road \/ (a.road = b.road /\ a.lane <= b.lane)))
Improved(search, node, better, along) ==
  [distance |-> along @@ search.distance,
   parent |-> [n \in better |-> node] @@ search.parent,
   frontier |-> (search.frontier \ {node}) \cup better, found |-> FALSE]
Shorter(search, node, along) ==
  LET better == {n \in DOMAIN along : n \in DOMAIN search.distance => along[n] < search.distance[n]}
  IN Improved(search, node, better, [n \in better |-> along[n]])
Relaxed(net, goal, s, search, node) ==
  Shorter(search, node,
          [n \in {n \in neighbors_of(net, node) : enters(net, n)} |->
             search.distance[node] + leg(net, n, goal, s)])
SettledAt(net, goal, s, search, node) ==
  IF node = goal THEN [search EXCEPT !.found = TRUE] ELSE Relaxed(net, goal, s, search, node)
Settled(net, goal, s, search) ==
  IF search.found \/ search.frontier = {} THEN search
  ELSE SettledAt(net, goal, s, search,
                 CHOOSE n \in search.frontier : \A m \in search.frontier : Before(search, n, m))

\* The spans from one lane position to another, None where there is no way.  On
\* one lane there is only the way ahead, never one round.
Rounds(net) ==
  [i \in 1 .. 1 + Cardinality(UNION {DOMAIN section.lanes :
                   section \in UNION {Range(net.roads[r].sections) : r \in DOMAIN net.roads}})
                * Cardinality(DOMAIN net.roads) |-> i]
Searched(net, start, goal, from_s, to_s, rounds) ==
  FoldLeft(LAMBDA at, i : Settled(net, goal, to_s, at),
           [distance |-> start :> ahead(net, start, from_s), parent |-> <<>>,
            frontier |-> {start}, found |-> FALSE], rounds)
PathTo(search, start, goal, rounds) ==
  FoldLeft(LAMBDA path, i : IF path[1] = start THEN path ELSE <<search.parent[path[1]]>> \o path,
           <<goal>>, rounds)
SpanOf(net, node, first, last) ==
  LET end == length(net.roads[node.road]) forward == drives_forward(node.lane)
  IN node @@ [begin |-> IF first # None THEN first ELSE IF forward THEN 0 ELSE end,
              end |-> IF last # None THEN last ELSE IF forward THEN end ELSE 0]
Spans(net, path, from_s, to_s) ==
  [i \in DOMAIN path |-> SpanOf(net, path[i], IF i = 1 THEN from_s ELSE None,
                                IF i = Len(path) THEN to_s ELSE None)]
Routed(net, search, start, goal, from_s, to_s, rounds) ==
  IF search.found THEN Spans(net, PathTo(search, start, goal, rounds), from_s, to_s) ELSE None
RouteBetween(net, start, goal, from_s, to_s, rounds) ==
  IF start = goal THEN
    (IF ahead(net, start, from_s) >= ahead(net, start, to_s)
     THEN <<start @@ [begin |-> from_s, end |-> to_s]>> ELSE None)
  ELSE Routed(net, Searched(net, start, goal, from_s, to_s, rounds), start, goal, from_s, to_s, rounds)
Locates(net, at) ==
  /\ at.road \in DOMAIN net.roads /\ at.lane # 0
  /\ lane_at(net.roads[at.road], at.lane, at.s) # None
route_pair(net, from, to) ==
  LET node(at) == [road |-> at.road, lane |-> at.lane]
  IN IF Locates(net, from) /\ Locates(net, to)
     THEN RouteBetween(net, node(from), node(to), from.s, to.s, Rounds(net)) ELSE None

Joined(pairs) == IF None \in Range(pairs) THEN None ELSE FlattenSeq(pairs)
build_route(net, waypoints) ==
  IF Len(waypoints) < 2 THEN None
  ELSE Joined([i \in 1 .. Len(waypoints) - 1 |-> route_pair(net, waypoints[i], waypoints[i + 1])])

\* The first span that has the position on it.
Covers(span, at) ==
  /\ span.road = at.road /\ span.lane = at.lane
  /\ Least({span.begin, span.end}) <= at.s /\ at.s <= Greatest({span.begin, span.end})
TravelledTo(route, i, s) ==
  FoldLeft(LAMBDA sum, span : sum + Magnitude(span.end - span.begin), 0, SubSeq(route, 1, i - 1))
  + Magnitude(s - route[i].begin)
position_along_route(route, at) ==
  LET on == {i \in DOMAIN route : Covers(route[i], at)}
  IN IF on = {} THEN None ELSE TravelledTo(route, Least(on), at.s)
=============================================================================
