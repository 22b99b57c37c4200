----------------------------- MODULE QuestionsMC -----------------------------
(***************************************************************************)
(* The questions put: scenarios and documents with one thing to find,         *)
(* positions on a network of three roads that meet in a junction and on one     *)
(* with a bend, all routes between their lanes, entities of a few sizes and     *)
(* speeds around another, profiles of one and two entries.                      *)
(***************************************************************************)
EXTENDS ProgramQuestions

Sc == INSTANCE Scenarios
Xd == INSTANCE XmlDocuments
Pg == INSTANCE Programs

---------------------------------------------------------------------------
(* Documents.                                                                  *)

W(s_offset, a) == [s_offset |-> s_offset, a |-> a, b |-> 0, c |-> 0, d |-> 0]
L(id, widths) ==
  [id |-> id, type |-> "driving", unknown |-> 0, predecessor |-> <<>>, successor |-> <<>>,
   widths |-> widths]
Line(s, x, length_) ==
  [s |-> s, x |-> x, y |-> 0, hdg |-> 0, length |-> length_, primitives |-> <<[name |-> "line"]>>]
Sections ==
  <<[s |-> 0, unknown |-> 0, groups |-> <<<<L(1, <<W(0, 2)>>)>>, <<L(0, <<>>)>>, <<L(-1, <<W(0, 4)>>)>>>>],
    [s |-> 3, unknown |-> 0, groups |-> <<<<>>, <<L(0, <<>>)>>, <<L(-1, <<W(0, 2)>>)>>>>]>>
RoadNode(id) ==
  [id |-> id, length |-> 5, unknown |-> 0, link |-> [predecessor |-> None, successor |-> None],
   lanes |-> [unknown |-> 0, sections |-> Sections], plan_view |-> <<Line(0, 0, 4), Line(4, 4, 1)>>]
Connection == [incoming |-> 1, connecting |-> 2, links |-> <<[from |-> -1, to |-> -1]>>]
JunctionNode(id) == [id |-> id, type |-> "default", unknown |-> 0, connections |-> <<Connection>>]
Document ==
  [well_formed |-> TRUE,
   root |-> [unknown |-> 0, header |-> [revMajor |-> 1, geoReference |-> FALSE],
             roads |-> <<RoadNode(1), RoadNode(2)>>, junctions |-> <<JunctionNode(7)>>]]

Numbers == {None, 0, 3, 4}
Curves_ ==
  {<<>>, <<[name |-> "line"], [name |-> "line"]>>, <<[name |-> "arc", curvature |-> None]>>,
   <<[name |-> "poly3", a |-> 0, b |-> 0, c |-> 0, d |-> 0]>>, <<[name |-> "helix"]>>}
  \cup {<<[name |-> "paramPoly3", aU |-> 0, bU |-> b, cU |-> 0, dU |-> 0, aV |-> 0, bV |-> 0,
           cV |-> 0, dV |-> 0, pRange |-> range]>> : b \in {0, 1}, range \in {None, "normalized"}}
PlanViews ==
  {None, <<>>} \cup {<<Line(0, 0, n)>> : n \in Numbers}
  \cup {<<[Line(a, 0, 4) EXCEPT !.x = x], Line(b, 4, n)>> : a, b \in Numbers, x \in {0, None}, n \in {0, 1}}
  \cup {<<[Line(0, 0, 4) EXCEPT !.primitives = p], Line(4, 4, 1)>> : p \in Curves_}
Widths == {<<>>} \cup {<<W(a, 2)>> : a \in Numbers} \cup {<<W(a, 2), W(b, 4)>> : a, b \in Numbers}
References == {<<>>, <<-1>>, <<None>>, <<-1, -2>>, <<None, -1>>}
LaneNodes ==
  {L(id, w) : id \in {None, 0, 1, -1, -2}, w \in Widths}
  \cup {[L(-2, <<W(0, 2)>>) EXCEPT !.predecessor = r, !.unknown = u] : r \in References, u \in {0, 1}}
Lanes_ ==
  {None} \cup {[unknown |-> u, sections |-> <<>>] : u \in {0, 1}}
  \cup {[unknown |-> 0, sections |-> [Sections EXCEPT ![1].s = a, ![2].s = b]] : a, b \in Numbers \cup {-1}}
  \cup {[unknown |-> 0, sections |-> [Sections EXCEPT ![i].groups = Append(@, <<lane>>)]] :
          lane \in LaneNodes, i \in {1, 2}}
  \cup {[unknown |-> 0, sections |-> [Sections EXCEPT ![1].groups[g] = @ \o <<L(a, w), L(b, <<W(0, 3)>>)>>]] :
          g \in {1, 3}, a, b \in {-1, -2}, w \in {<<W(0, 2)>>, <<W(3, 2)>>}}
Sides == {None} \cup {[kind |-> k, element |-> e, contact |-> c] :
                        k \in {"road", "junction", "ferry"}, e \in {None, 2}, c \in {None, "start"}}
RoadNodes ==
  {[RoadNode(1) EXCEPT !.plan_view = p] : p \in PlanViews}
  \cup {[RoadNode(1) EXCEPT !.lanes = l] : l \in Lanes_}
  \cup {[RoadNode(1) EXCEPT !.link.predecessor = s] : s \in Sides}
  \cup {[RoadNode(id) EXCEPT !.length = n] : id \in {None, 1, 2}, n \in {None, 4, 5}}
JunctionNodes ==
  {[JunctionNode(id) EXCEPT !.type = t] : id \in {None, 7, 8}, t \in {"default", "virtual"}}
  \cup {[JunctionNode(8) EXCEPT !.connections =
           <<[incoming |-> i, connecting |-> c, links |-> <<[from |-> f, to |-> t]>>]>>] :
          i, c \in {None, 1}, f, t \in {None, -1}}
  \cup {[JunctionNode(8) EXCEPT !.connections = <<Connection, [Connection EXCEPT !.links = @ \o @]>>]}
Documents ==
  {[Document EXCEPT !.root.roads[1] = r] : r \in RoadNodes}
  \cup {[Document EXCEPT !.root.junctions = Append(@, j)] : j \in JunctionNodes}
  \cup {[Document EXCEPT !.root.roads = <<>>], [Document EXCEPT !.root = None],
        [Document EXCEPT !.well_formed = FALSE], [Document EXCEPT !.root.unknown = 1]}
  \cup {[Document EXCEPT !.root.header = h] :
          h \in {None} \cup [revMajor : {1, 2}, geoReference : BOOLEAN]}

---------------------------------------------------------------------------
(* Networks: one road with a bend and two sections, and around a junction a    *)
(* road that leads in, two that lead out and a ring that leads there as well.   *)

ALane(predecessor, successor, width) ==
  [type |-> "driving", widths |-> <<W(0, width)>>, predecessor |-> predecessor, successor |-> successor]
Centre == [type |-> "none", widths |-> <<>>, predecessor |-> None, successor |-> None]
Piece(x, y, hdg, length_) == [x |-> x, y |-> y, hdg |-> hdg, length |-> length_, degenerate |-> FALSE]
Both(width) == 1 :> ALane(1, 1, 2) @@ 0 :> Centre @@ -1 :> ALane(-1, -1, width)
Bend ==
  [roads |->
     1 :> [plan_view |-> <<Piece(0, 0, 0, 6), Piece(6, 0, 1, 4)>>, predecessor |-> None, successor |-> None,
           sections |-> <<[s |-> 0, lanes |-> Both(4) @@ -2 :> ALane(None, None, 2)],
                          [s |-> 4, lanes |-> Both(2)]>>],
   junctions |-> <<>>]
Straight(x, y, hdg, length_, before, after) ==
  [plan_view |-> <<Piece(x, y, hdg, length_)>>, predecessor |-> before, successor |-> after,
   sections |-> <<[s |-> 0, lanes |-> Both(2)]>>]
To(kind, element) == [kind |-> kind, element |-> element]
Links == {[from |-> 1, to |-> 1], [from |-> -1, to |-> -1]}
Ring ==
  [roads |->
     1 :> Straight(0, 0, 0, 4, None, To("junction", 9))
     @@ 2 :> Straight(4, 0, 0, 3, To("road", 1), To("road", 4))
     @@ 3 :> Straight(0, 20, 0, 8, To("road", 1), To("road", 4))
     @@ 4 :> Straight(7, 0, 0, 2, To("junction", 8), None)
     @@ 5 :> Straight(0, 40, 0, 1, To("road", 2), To("road", 4)),
   junctions |->
     9 :> {[incoming |-> 1, connecting |-> r, links |-> Links] : r \in {2, 3}}
     @@ 8 :> {[incoming |-> 4, connecting |-> 3, links |-> {[from |-> 1, to |-> 1]}],
              [incoming |-> 4, connecting |-> 5, links |-> {[from |-> 1, to |-> 1]}]}]
LaneAt(net) == UNION {[road : {r}, lane : {-2, -1, 1}, s : {0, 1, length(net.roads[r])}, t : {0}] :
                        r \in DOMAIN net.roads}
RouteQuestions ==
  {[net |-> "ring", waypoints |-> <<from, to>>] : from, to \in LaneAt(Ring)}
  \cup {[net |-> "ring", waypoints |-> SubSeq(<<at, at, at>>, 1, n)] :
          at \in {[road |-> 1, lane |-> -1, s |-> 1, t |-> 0]}, n \in {0, 1, 3}}

Orientations == {None, [type |-> "absolute", h |-> 1], [type |-> "relative", h |-> -1]}
Here == [id |-> 1, x |-> 3, y |-> -2, z |-> 0, heading |-> 3]
Off == [id |-> 2, x |-> 90, y |-> 90, z |-> 0, heading |-> 0]
Polyline == [shape |-> "polyline", vertices |-> <<[x |-> 0, y |-> 0], [x |-> 2, y |-> 0], [x |-> 2, y |-> 2]>>]
Clothoid == [shape |-> "clothoid", start |-> [x |-> 0, y |-> 0, heading |-> 1], curvature |-> 0,
             curvature_prime |-> 0, length |-> 3]
Points(n) == [i \in 1 .. n |-> [x |-> i, y |-> 0, w |-> 1]]
Nurbs == {[shape |-> "nurbs", order |-> o, control_points |-> Points(3), knots |-> k] :
            o \in {1, 2, 65}, k \in {<<0, 0, 1, 2, 2>>, <<0, 0, 2, 1, 2>>, <<0>>, <<0, 0, 0, 0, 0>>}}
Trajectories ==
  {None, Polyline, [Polyline EXCEPT !.vertices = <<>>], Clothoid, [Clothoid EXCEPT !.length = -1]}
Way == <<[x |-> 1, y |-> -1], [x |-> 6, y |-> -1]>>
Positions_ ==
  <<[kind : {"world"}, x : {0, 3}, y : {0, 1}, heading : {0, 1}],
  [kind : {"relativeWorld", "relativeObject"}, ref : {1, 2, 3}, dx : {0, 1}, dy : {0, 2},
        orientation : Orientations],
  [kind : {"road"}, road : {1, 2}, s : {-1, 0, 2, 4, 5, 6, 8, 10, 11}, t : -7 .. 3, orientation : Orientations],
  [kind : {"lane"}, road : {1, 2}, lane : {None, -2, -1, 0, 1}, s : {0, 3, 4, 6, 10}, offset : -2 .. 2,
        orientation : {None}],
  [kind : {"relativeRoad"}, ref : {1, 2, 3}, ds : {-4, 0, 1, 9}, dt : {-1, 0, 3}, orientation : {None}],
  [kind : {"relativeLane"}, ref : {1, 2}, d_lane : -2 .. 3, ds : {None, 0, 2, 9}, ds_lane : {None, 1},
        offset : {0, 1}, orientation : {None}],
  [kind : {"route"}, route : {<<>>, Way, Reverse(Way), Append(Way, Off)}, from : {None, 1, 2, 3},
        path_s : {None, -1, 2, 6}, form : {"road", "lane"}, lane : {None, -1, 1}, t : {None, 1},
        offset : {0, 1}, orientation : {None}],
  [kind : {"trajectory"}, trajectory : Trajectories \cup Nurbs, s : {-1, 1, 2, 4}, t : {0, 1},
        orientation : {None}],
  {[kind |-> "geo"]}>>
WithPose(p) == ~(p.kind = "trajectory" /\ p.trajectory \in {n \in Nurbs : TrajectoryEvaluator(n) = "Ok"})
PositionQuestions ==
  [i \in DOMAIN Positions_ |->
     {[net |-> net, lookup |-> <<Here, Off>>, position |-> p] :
        net \in {"nowhere", "bend", "ring"}, p \in {p \in Positions_[i] : WithPose(p)}}]

---------------------------------------------------------------------------
(* Distances.                                                                  *)

AnEntity(x, y, heading, speed_, box) ==
  [entity |-> TRUE, box |-> box, state |-> [x |-> x, y |-> y, z |-> 0, heading |-> heading, speed |-> speed_]]
APoint(x, y, z) == [entity |-> FALSE, box |-> None, state |-> [x |-> x, y |-> y, z |-> z, heading |-> 0, speed |-> 0]]
Boxes == {[cx |-> 1, cy |-> 0, hx |-> 2, hy |-> 1], [cx |-> 0, cy |-> 0, hx |-> 0, hy |-> 3]}
Firsts == {AnEntity(12, 1, h, v, b) : h \in {0, 3}, v \in {0, 2}, b \in Boxes \cup {None}}
Seconds == {AnEntity(x, y, h, v, b) : x \in {7, 12, 17}, y \in {0, 5}, h \in {0, 1}, v \in {0, 1},
                                      b \in Boxes \cup {None}}
           \cup {APoint(x, y, z) : x \in {9, 12, 15}, y \in {1, 3}, z \in {0, 2}}
Flat == [roads |-> 1 :> [Straight(0, 0, 0, 24, None, None) EXCEPT
                          !.sections = <<[s |-> 0, lanes |-> 0 :> Centre @@ 1 :> ALane(None, None, 30)
                                                             @@ -1 :> ALane(None, None, 30)]>>],
         junctions |-> <<>>]
Networks == [nowhere |-> None, bend |-> Bend, ring |-> Ring, flat |-> Flat]
Specs == [cs : {"entity", "world", "road", "trajectory"}, type : {"longitudinal", "lateral", "euclidian"},
          freespace : BOOLEAN, net : {"flat"}]
         \cup [cs : {"lane"}, type : {"longitudinal"}, freespace : {FALSE}, net : {"nowhere", "ring"}]
DistanceQuestions ==
  [a : Firsts, b : Seconds, spec : Specs]

---------------------------------------------------------------------------
(* Conditions.                                                                 *)

Numeral(n) == [spelling |-> <<n>>, scalar |-> n]
Worded(w) == [spelling |-> <<w, w>>, scalar |-> None]
Date(y, mo, d, h, offset) ==
  [year |-> y, month |-> mo, day |-> d, hour |-> h, minute |-> 0, second |-> 0,
   utc_offset_minutes |-> offset]
\* Around the ends of February and of the year of a leap year and of one that is none.
Dates ==
  <<Date(2000, 2, 28, 23, 0), Date(2000, 2, 29, 23, 0), Date(2000, 3, 1, 0, 30),
    Date(2000, 3, 1, 0, 0), Date(2001, 1, 1, 0, 0), Date(2014, 12, 31, 23, 0),
    Date(2015, 1, 1, 1, 60), Date(2015, 2, 28, 23, -120), Date(2015, 3, 1, 2, 0)>>
Ascent == <<-3, -1, 0, 1, 2, 3, 5>>
Spelt == <<Numeral(-1), Numeral(2), [Numeral(3) EXCEPT !.spelling = <<3, 0>>], Worded(1), Worded(2)>>
Known_(e, a, n) ==
  [entity |-> TRUE, box |-> e.box, state |-> e.state, acceleration |-> a, standstill |-> n,
   traveled |-> n, end_of_road |-> n, offroad |-> n]
Alone == [kind |-> "speed", rule |-> "equalTo", value |-> 0, name |-> 1, triggering |-> <<1>>, all |-> TRUE,
          ref |-> None, position |-> APoint(12, 1, 0), direction |-> None, cs |-> None, type |-> None,
          along_route |-> FALSE, freespace |-> FALSE]
Plain == [time |-> 2, parameters |-> <<>>, variables |-> <<>>, user |-> <<>>, date |-> None,
          signals |-> <<>>, phases |-> <<>>, elements |-> <<>>, entities |-> <<>>, net |-> None]
Ask(context, condition, values) ==
  [context |-> context, condition |-> [condition EXCEPT !.value = values[1]], values |-> values]
ByValue ==
  {Ask(Plain, [Alone EXCEPT !.kind = "simulationTime"], Ascent)}
  \cup {Ask([Plain EXCEPT !.date = d], [Alone EXCEPT !.kind = "timeOfDay"], Dates) :
          d \in {None} \cup {to_epoch_seconds(Dates[i]) + n : i \in DOMAIN Dates, n \in {-1, 0}}}
  \cup {Ask([Plain EXCEPT !.parameters = v, !.variables = v, !.user = v], [Alone EXCEPT !.kind = k], Spelt) :
          v \in {<<>>, <<Numeral(2)>>, <<Numeral(3)>>, <<Worded(2)>>}, k \in Texts}
Movers == {Known_(AnEntity(x, y, h, v, None), a, 1) :
             x \in {7, 12}, y \in {1, 2}, h \in {0, 2}, v \in {-1, 0, 2}, a \in {None, -1}}
Pair(e) == [Plain EXCEPT !.entities = <<e, Known_(AnEntity(12, 3, 1, 1, None), 0, 0)>>]
OfOne ==
  {Ask(Pair(e), [Alone EXCEPT !.kind = k, !.direction = d], Ascent) :
     e \in Movers, k \in {"speed", "acceleration", "relativeSpeed"},
     d \in {None, "longitudinal", "lateral", "vertical"}}
  \cup {Ask(Pair(e), [Alone EXCEPT !.kind = k, !.triggering = t], Ascent) :
          e \in Movers, k \in Lasting, t \in {<<1>>, <<3>>, <<1, 2>>}}
OfTwo ==
  {Ask(Pair(e), [Alone EXCEPT !.kind = k, !.ref = r, !.cs = m[1], !.type = m[2]], Ascent) :
     e \in Movers, k \in {"distance", "timeHeadway", "timeToCollision"}, r \in {None, 2, 3},
     m \in {<<None, None>>, <<"entity", "longitudinal">>, <<"entity", "euclidian">>,
            <<"world", "lateral">>}}
\* Some kinds refer to an entity, some have another name when they do.
Directed(q) ==
  IF q.condition.kind = "relativeSpeed" THEN [q EXCEPT !.condition.ref = 2]
  ELSE IF q.condition.kind = "distance" /\ q.condition.ref # None
       THEN [q EXCEPT !.condition.kind = "relativeDistance"] ELSE q
ConditionQuestions == <<ByValue, {Directed(q) : q \in OfOne}, {Directed(q) : q \in OfTwo}>>

---------------------------------------------------------------------------
(* Profiles.                                                                   *)

LimitsOf(a, d, j, v) ==
  [acceleration |-> a, deceleration |-> d, acceleration_rate |-> j, deceleration_rate |-> None, speed |-> v]
Unlimited == LimitsOf(None, None, None, None)
Entry == [speed : {0, 3, 8}, time : {None, 0, 3}]
ProfileQuestions ==
  [speeds : {<<2>>},
   action : [ref : {None, 1, 5}, follow : BOOLEAN,
             entries : [1 .. 1 -> Entry] \cup [1 .. 2 -> Entry],
             constraints : {Unlimited, LimitsOf(1, 2, 1, 5), LimitsOf(2, 0, None, None)}],
   record : [speed : {0, 4}, performance : {LimitsOf(3, 1, None, 7)}]]

\* Documents that leave the mark of a catalog entry behind, and all other questions.
Marks == [reading |-> <<Xd!Marked>>]
AllQuestions ==
  [scenario |-> Sc!AnyOneThing, loading |-> Xd!Loadings, reading |-> Xd!Readings,
   program |-> Pg!AnyProgram, document |-> <<Documents \cup {None}>>, position |-> PositionQuestions, route |-> <<RouteQuestions>>,
   distance |-> <<DistanceQuestions>>, condition |-> ConditionQuestions, profile |-> <<ProfileQuestions>>]

Lower(program, options) == Dsl!lower(program, options)
=============================================================================
