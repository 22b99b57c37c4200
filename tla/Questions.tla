------------------------------ MODULE Questions ------------------------------
(***************************************************************************)
(* The parts of the library that answer one question at a time: what is wrong *)
(* with a scenario, what a scenario document or a road document says, where a  *)
(* position is, which way a route goes, how far apart two entities are, whether *)
(* a condition holds, what becomes of a speed profile.  A run puts one question *)
(* and takes the answer.                                                         *)
(***************************************************************************)
EXTENDS Validation, RoadReader, Positions, Conditions, Motion

CONSTANTS
  Asked,        \* the questions that may be put to each part, in a sequence of sets
  Net,          \* the networks they are put about, by name
  lowered(_, _) \* what a program of the domain-specific language lowers to

VARIABLES
  part,      \* of the library that is asked
  asked,     \* the question
  answered,  \* has it been answered
  answer     \* None where there is no answer, and before
questionVars == <<part, asked, answered, answer>>

\* What is not there is no number and no fraction.
ASSUME NoneAssumption == None \notin Int /\ None \notin [n : Int, d : Int]

\* The scenarios asked about are ones that the representation has.
ASSUME ScenariosAssumption ==
  "scenario" \in DOMAIN Asked =>
    \A i \in DOMAIN Asked["scenario"] : \A scn \in Asked["scenario"][i] : Formed(scn)

\* The networks are ones that the reader of road documents leaves and a road query
\* takes: roads by number, each with a line of pieces that have some length.
Mapped(net) ==
  /\ DOMAIN net.roads \subseteq Nat
  /\ \A id \in DOMAIN net.roads :
       LET line == net.roads[id].plan_view
       IN /\ line # <<>> /\ Listed(line)
          /\ \A i \in DOMAIN line : /\ {line[i].x, line[i].y, line[i].hdg} \subseteq Int
                                   /\ line[i].length \in Nat \ {0}
ASSUME NetworksAssumption == \A name \in DOMAIN Net : Net[name] = None \/ Mapped(Net[name])

\* A document is a tree of elements, those of a name in the order they have there;
\* a link is not the absence of one.
WrittenLane(node) ==
  /\ node.unknown \in Nat
  /\ Listed(node.predecessor) /\ Listed(node.successor) /\ Listed(node.widths)
  /\ \A width \in Range(node.widths) : width.s_offset \in Optional(Int)
WrittenSection(node) ==
  /\ node.unknown \in Nat /\ node.s \in Optional(Int) /\ Listed(node.groups)
  /\ \A group \in Range(node.groups) : Listed(group)
  /\ \A lane \in UNION {Range(group) : group \in Range(node.groups)} : WrittenLane(lane)
WrittenLanes(node) ==
  /\ node.unknown \in Nat /\ Listed(node.sections)
  /\ \A section \in Range(node.sections) : WrittenSection(section)
WrittenRoad(node) ==
  /\ node.unknown \in Nat
  /\ \A side \in {node.link.predecessor, node.link.successor} :
       side # None => [kind |-> side.kind, element |-> side.element] # None
  /\ node.plan_view # None =>
       /\ Listed(node.plan_view)
       /\ \A piece \in Range(node.plan_view) : {piece.s, piece.length} \subseteq Optional(Int)
  /\ node.lanes # None => WrittenLanes(node.lanes)
WrittenJunction(node) ==
  /\ node.unknown \in Nat /\ Listed(node.connections)
  /\ \A c \in Range(node.connections) : Listed(c.links)
WrittenMap(root) ==
  /\ root.unknown \in Nat /\ Listed(root.roads) /\ Listed(root.junctions)
  /\ \A node \in Range(root.roads) : WrittenRoad(node)
  /\ \A node \in Range(root.junctions) : WrittenJunction(node)
ASSUME DocumentsAssumption ==
  "document" \in DOMAIN Asked =>
    \A i \in DOMAIN Asked["document"] : \A file \in Asked["document"][i] :
      file # None /\ file.well_formed /\ file.root # None => WrittenMap(file.root)

\* Where something is, and the box around it.
Placed(e) ==
  /\ e.entity \in BOOLEAN
  /\ \A c \in {"x", "y", "z", "heading", "speed"} : e.state[c] \in Int
  /\ e.box # None => {e.box.cx, e.box.cy} \subseteq Int /\ {e.box.hx, e.box.hy} \subseteq Nat
  /\ e.entity \/ e.box = None
\* The box reaches from one side of the reference point to the other.
Straddles(box) == Magnitude(box.cx) <= box.hx /\ Magnitude(box.cy) <= box.hy
ASSUME DistancesAssumption ==
  "distance" \in DOMAIN Asked =>
    \A i \in DOMAIN Asked["distance"] : \A q \in Asked["distance"][i] :
      /\ Placed(q.a) /\ q.a.entity /\ Placed(q.b) /\ q.spec.freespace \in BOOLEAN
      /\ {"cs", "type", "freespace", "net"} \subseteq DOMAIN q.spec /\ q.spec.net \in DOMAIN Net
      /\ None \notin {q.spec.cs, q.spec.type}
      /\ \A e \in {q.a, q.b} : "state" \in DOMAIN e /\ {"x", "y"} \subseteq DOMAIN e.state
      /\ \A e \in {q.a, q.b} : e.box # None => Straddles(e.box)

\* Kinds that compare a number by a rule, those that compare a text, and those that
\* hold from a length of time or way on.
Ruled == {"simulationTime", "timeOfDay", "speed", "acceleration", "relativeSpeed", "distance",
          "relativeDistance", "timeHeadway", "timeToCollision"}
Texts == {"parameter", "variable", "userDefinedValue"}
Lasting == {"standStill", "traveledDistance", "endOfRoad", "offroad"}
\* A condition is put in a context that has the values it may go by, with values to
\* compare with that ascend: whole numbers, dates, or texts as far as they are numbers.
ConditionFields == {"kind", "rule", "value", "name", "triggering", "all", "ref", "position", "direction", "cs",
           "type", "along_route", "freespace"}
Named(values) == \A name \in DOMAIN values : values[name].scalar \in Optional(Int)
Observed(e) ==
  /\ Placed(e) /\ e.entity /\ e.acceleration \in Optional(Int)
  /\ {e.standstill, e.traveled, e.end_of_road, e.offroad} \subseteq Int
InContext(context) ==
  /\ context.time \in Int /\ context.date \in Optional(Int)
  /\ Named(context.parameters) /\ Named(context.variables) /\ Named(context.user)
  /\ \A id \in DOMAIN context.entities : Observed(context.entities[id])
  /\ context.net = None \/ Mapped(context.net)
Ascends(kind, v, w) ==
  IF kind \in Texts THEN None \in {v.scalar, w.scalar} \/ v.scalar < w.scalar
  ELSE IF kind = "timeOfDay" THEN to_epoch_seconds(v) < to_epoch_seconds(w)
  ELSE v < w
Comparable(kind, v) ==
  IF kind \in Texts THEN v.scalar \in Optional(Int)
  ELSE IF kind = "timeOfDay" THEN v.year \in Int /\ valid(v)
  ELSE v \in Int
Sensible(q) ==
  /\ InContext(q.context)
  /\ ConditionFields \subseteq DOMAIN q.condition
  /\ Placed(q.condition.position) /\ ~q.condition.position.entity
  /\ {q.condition.freespace, q.condition.all} \subseteq BOOLEAN
  /\ q.condition.kind \in Ruled \cup Texts \cup Lasting =>
       /\ \A i \in DOMAIN q.values : Comparable(q.condition.kind, q.values[i])
       /\ \A i, j \in DOMAIN q.values : i < j => Ascends(q.condition.kind, q.values[i], q.values[j])
ASSUME ConditionsAssumption ==
  "condition" \in DOMAIN Asked =>
    \A i \in DOMAIN Asked["condition"] : \A q \in Asked["condition"][i] : Sensible(q)

\* A profile that is asked for goes through some entries, each to a number; the
\* times, the constraints and the limits are numbers where they are there.
Profiled(q) ==
  /\ q.action.follow \in BOOLEAN /\ q.record.speed \in Int
  /\ q.action.entries # <<>> /\ Listed(q.action.entries)
  /\ \A i \in DOMAIN q.action.entries :
       q.action.entries[i].speed \in Int /\ q.action.entries[i].time \in Optional(Int)
  /\ \A l \in Limits : {q.action.constraints[l], q.record.performance[l]} \subseteq Optional(Int)
  /\ \A id \in DOMAIN q.speeds : q.speeds[id] \in Int
ASSUME ProfilesAssumption ==
  "profile" \in DOMAIN Asked =>
    \A i \in DOMAIN Asked["profile"] : \A q \in Asked["profile"][i] : Profiled(q)

Xml == INSTANCE Written

Over(spec) == [spec EXCEPT !.net = Net[@]]
Answer(q) ==
  CASE part = "scenario" -> findings(q)
    [] part \in {"loading", "reading"} -> Xml!load_file(q)
    [] part = "program" -> lowered(q.program, q.options)
    [] part = "document" -> load_file(q)
    [] part = "position" -> resolve(Net[q.net], q.lookup, q.position)
    [] part = "route" -> build_route(Net[q.net], q.waypoints)
    [] part = "distance" -> measure_distance(q.a, q.b, Over(q.spec))
    [] part = "condition" -> evaluate(q.context, q.condition)
    [] part = "profile" -> build_profile_controller(q.action, q.record, q.speeds)
Answered(as) == answered /\ part = as

Init ==
  /\ part \in DOMAIN Asked
  /\ \E i \in DOMAIN Asked[part] : asked \in Asked[part][i]
  /\ answered = FALSE /\ answer = None
Reply == ~answered /\ answered' = TRUE /\ answer' = Answer(asked) /\ UNCHANGED <<part, asked>>
Spec == Init /\ [][Reply]_questionVars

---------------------------------------------------------------------------
(* Scenarios.                                                                  *)

\* What init accepts can be run: every look-up of the run, from an action, a
\* condition or the signal clocks, finds what it looks for, and the walk up
\* the references of a controller ends.
AcceptedIsRunnable ==
  Answered("scenario") /\ ~has_errors(answer) => Runnable(asked)

\* "Scenario content references something that does not exist" (status.h:39):
\* that code is reported when a reference does not resolve, and only then.
DanglingIsSemantic ==
  Answered("scenario") =>
    (\E i \in DOMAIN answer : answer[i].code = "SemanticError") = ~Resolves(asked)

---------------------------------------------------------------------------
(* Scenario documents: any to load, and to read those that have their form.      *)
\* "Only the parameter with the smallest scope that subsumes the location is
\* accessible" (parameters.h:33-40): a document whose form is in order is read
\* without an error exactly when each text of it means something where it stands;
\* and what any document that loads says is what is written in it, each text with
\* the parameters in scope there, whatever was read before it.
ReadsAsWritten ==
  Answered("reading") \/ Answered("loading") =>
    Xml!SaysWhatIsWritten(answer, Xml!WrittenIn(asked), part = "reading")

---------------------------------------------------------------------------
(* Road documents.                                                             *)

Ascending(seq) == \A i, j \in DOMAIN seq : i < j => seq[i] < seq[j]
\* What the queries rely on: the pieces of a line are laid end to end, sections
\* follow each other from the start of the road or before, and every lane but the centre
\* has a width from the start of its section.
Queryable(road) ==
  /\ road.plan_view # <<>>
  /\ \A i \in DOMAIN road.plan_view :
       road.plan_view[i].length > 0 /\ road.plan_view[i].s = start_s(road, i)
  /\ Ascending([i \in DOMAIN road.sections |-> road.sections[i].s])
  /\ \A i \in DOMAIN road.sections :
       /\ road.sections[1].s <= 0
       /\ \A l \in DOMAIN road.sections[i].lanes :
            LET widths == road.sections[i].lanes[l].widths
            IN /\ Ascending([k \in DOMAIN widths |-> widths[k].s_offset])
               /\ IF l = 0 THEN widths = <<>> ELSE widths # <<>> /\ widths[1].s_offset = 0
Authored(nodes) == {node.id : node \in Range(nodes)}
Connected(node) ==
  {[incoming |-> c.incoming, connecting |-> c.connecting, links |-> Range(c.links)] :
     c \in Range(node.connections)}
\* A lane is kept as it is written: its type, every width and its references.
WholeLane(lane, node) ==
  /\ lane.type = node.type /\ lane.widths = node.widths
  /\ {lane.predecessor} \ {None} = Range(node.predecessor)
  /\ {lane.successor} \ {None} = Range(node.successor)
\* The lanes of a section by the place of their group and their own in it, and
\* those after which the section writes no lane of the same id.
LanePlaces(groups) == UNION {{<<g, i>> : i \in DOMAIN groups[g]} : g \in DOMAIN groups}
LaneNode(groups, p) == groups[p[1]][p[2]]
Precedes(p, q) == p[1] < q[1] \/ (p[1] = q[1] /\ p[2] < q[2])
Replaced(groups, p) ==
  \E q \in LanePlaces(groups) : Precedes(p, q) /\ LaneNode(groups, q).id = LaneNode(groups, p).id
WholeSection(section, node) ==
  /\ section.s = node.s
  /\ DOMAIN section.lanes = {LaneNode(node.groups, p).id : p \in LanePlaces(node.groups)}
  /\ \A p \in LanePlaces(node.groups) :
       Replaced(node.groups, p)
         \/ WholeLane(section.lanes[LaneNode(node.groups, p).id], LaneNode(node.groups, p))
Whole(road, node) ==
  /\ Len(road.plan_view) = Len(node.plan_view)
  /\ (road.predecessor = None) = (node.link.predecessor = None)
  /\ (road.successor = None) = (node.link.successor = None)
  /\ IF node.lanes = None THEN road.sections = <<>>
     ELSE /\ Len(road.sections) = Len(node.lanes.sections)
          /\ \A i \in DOMAIN road.sections : WholeSection(road.sections[i], node.lanes.sections[i])
\* A document may be taken in part, whatever is wrong with the rest of it: what
\* was taken can be queried (reader.cpp:515-583 goes on after each), and one thing
\* only is left out without a finding: a lane with the id of a later one of its
\* section, which takes its place (reader.cpp:282).  Everything else that is
\* written is there, each lane with all that is written of it.
DroppedOnlyIfReplaced ==
  LET root == asked.root
  IN Answered("document") =>
       /\ \A id \in DOMAIN answer.roads : Queryable(answer.roads[id])
       /\ answer.found = <<>> =>
            /\ DOMAIN answer.roads = Authored(root.roads)
            /\ DOMAIN answer.junctions = Authored(root.junctions)
            /\ \A node \in Range(root.roads) : Whole(answer.roads[node.id], node)
            /\ \A node \in Range(root.junctions) : answer.junctions[node.id] = Connected(node)

---------------------------------------------------------------------------
(* Positions.                                                                  *)

\* A position on the road network is where the network says it is: the way back
\* from the point leads to a lane that exists and covers it, and from there to
\* the point again (road_query.cpp:142-251).
Returns(net, pose, back) ==
  /\ back # None
  /\ lane_exists(net, back.road, back.lane, back.s)
  /\ back.lane # 0 =>
       Magnitude(back.t - lane_center_offset(net, back.road, back.lane, back.s)) * 2
         <= lane_width(net, back.road, back.lane, back.s)
  /\ to_world_position(net, back) = [x |-> pose.x, y |-> pose.y]
RoundTrip ==
  /\ Answered("position")
  /\ asked.position.kind \in RoadFamily
  /\ answer.status = "Ok"
  => Returns(Net[asked.net], answer.pose, to_lane_position(Net[asked.net], answer.pose))

---------------------------------------------------------------------------
(* Routes.                                                                     *)

Node(at) == [road |-> at.road, lane |-> at.lane]
\* All the ways from one lane to another that pass no lane twice.
Ways(net, from, to, longest) ==
  LET extended(ways) ==
        ways \cup UNION {{Append(way, n) : n \in {n \in neighbors_of(net, way[Len(way)]) :
                                                    enters(net, n) /\ n \notin Range(way)}} :
                           way \in {way \in ways : way[Len(way)] # to}}
      all == FoldLeft(LAMBDA ways, i : extended(ways), {<<from>>}, [i \in 1 .. longest |-> i])
  IN {way \in all : way[Len(way)] = to}
Metres(net, way, from_s, to_s) ==
  ahead(net, way[1], from_s) + behind(net, way[Len(way)], to_s)
  + FoldLeft(LAMBDA sum, n : sum + length(net.roads[n.road]), 0, SubSeq(way, 2, Len(way) - 1))
\* A route of two waypoints on different lanes is there when there is a way, goes
\* along lanes that are connected, the way each is driven, and no way is shorter;
\* a place a number of metres along it is that number of metres along it.
RouteIsShortest ==
  LET net == Net[asked.net] from == asked.waypoints[1] to == asked.waypoints[2]
      ways == Ways(net, Node(from), Node(to), 2 * Cardinality(DOMAIN net.roads))
      way == [i \in DOMAIN answer |-> Node(answer[i])]
      total == travelled(answer, Len(answer))
  IN Answered("route") /\ Len(asked.waypoints) = 2 /\ Node(from) # Node(to) =>
       /\ (answer = None) = (ways = {})
        /\ answer # None =>
             /\ way \in ways
             /\ total = Metres(net, way, from.s, to.s)
             /\ \A other \in ways : total <= Metres(net, other, from.s, to.s)
             /\ \A i \in DOMAIN answer :
                  drives_forward(answer[i].lane) => answer[i].begin <= answer[i].end
             /\ \A s \in 0 .. total :
                  LET place == RoutePlace(answer, s)
                  IN position_along_route(answer, [road |-> place.span.road, lane |-> place.span.lane,
                                                   s |-> place.s]) = s

---------------------------------------------------------------------------
(* Distances.                                                                  *)

\* Where boxes lie along an axis of the world, and the room between two of them.
Span(e, u) == IF e.entity THEN obb_project(make_obb(e.state, e.box), u)
              ELSE LET at == e.state.x * u.x + e.state.y * u.y IN [lo |-> at, hi |-> at]
Room(a, b, quarters) ==
  LET u == [x |-> Cos(quarters), y |-> Sin(quarters)]
  IN Larger(0, Larger(Span(b, u).lo - Span(a, u).hi, Span(a, u).lo - Span(b, u).hi))
\* The gap that distance keeping measures for itself (engine.cpp:1643-1739).
GapTo(a, b, spec) ==
  IF spec.cs = "trajectory" THEN None
  ELSE IF by_road(spec)
       THEN IF spec.type = "lateral" THEN road_signed_lateral_gap(a, b, spec)
            ELSE road_signed_longitudinal_gap(a, b, spec)
  ELSE IF spec.type = "lateral" THEN signed_lateral_gap(a, b, spec, a.state.heading)
       ELSE signed_longitudinal_gap(a, b, spec)
KeepsDistance(gap, distance, spec) ==
  /\ (gap = None) = (distance = None)
  /\ gap # None /\ (distance # 0 \/ ~spec.freespace \/ spec.type = "lateral")
     => Square(gap) = distance
\* In free space the distance of two boxes is the room between them along the
\* length and the breadth of the world together, the same from either side, and
\* nothing exactly when they touch (obb2.cpp:83-122).
\* Between reference points, or boxes that are apart, the gap a distance action
\* keeps is the distance a condition measures (distance_measure.cpp:343-401).
DistanceIsTheRoom ==
  LET a == asked.a b == asked.b spec == Over(asked.spec)
  IN Answered("distance") =>
       IF euclidean(spec)
       THEN spec.freespace /\ answer # None =>
              /\ answer = Square(Room(a, b, 0)) + Square(Room(a, b, 1))
              /\ b.entity => /\ answer = measure_distance(b, a, spec)
                             /\ (answer = 0) = CollisionHolds(a, b)
       ELSE b.entity => KeepsDistance(GapTo(a, b, spec), answer, spec)

\* Both go on as they are for a number of seconds.
Later(e, seconds) ==
  IF e.entity THEN [e EXCEPT !.state.x = @ + seconds * e.state.speed * Cos(e.state.heading),
                             !.state.y = @ + seconds * e.state.speed * Sin(e.state.heading)]
  ELSE e
\* A time to collision is kept: when it is a whole number of seconds, entities
\* that go on as they are have no distance left after that time, and had some
\* before (interaction_condition.cpp:266-303 divides a distance by a speed that
\* other code measures).
Left(a, b, spec) == [seconds \in 0 .. 3 |-> measure_distance(Later(a, seconds), Later(b, seconds), spec)]
CollideAfter(seconds, left) == left[seconds] = 0 /\ \A before \in 0 .. seconds - 1 : left[before] > 0
Kept(context, condition, left) ==
  \A seconds \in DOMAIN left :
    evaluate(context, [condition EXCEPT !.value = seconds]) => CollideAfter(seconds, left)
TimeToCollisionIsKept ==
  LET a == asked.a b == asked.b
  IN Answered("distance") /\ ~euclidean(asked.spec) =>
       Kept([entities |-> <<a, b>>, net |-> Net[asked.spec.net]],
            [kind |-> "timeToCollision", ref |-> IF b.entity THEN 2 ELSE None, position |-> b,
             cs |-> asked.spec.cs, type |-> asked.spec.type, along_route |-> FALSE,
             freespace |-> asked.spec.freespace, rule |-> "equalTo", value |-> 0,
             triggering |-> <<1>>, all |-> TRUE],
            Left(a, b, Over(asked.spec)))

---------------------------------------------------------------------------
(* Conditions, each asked about with a rule and one of a few ascending values.  *)

\* The answers to a question that is put by each rule and value, as a condition of
\* each of some kinds.
Table(kinds) ==
  [kind \in kinds |-> [rule \in Rules |-> [i \in DOMAIN asked.values |->
     evaluate(asked.context,
              [asked.condition EXCEPT !.kind = kind, !.rule = rule, !.value = asked.values[i]])]]]
Nothing(table) == \A rule \in Rules, i \in DOMAIN asked.values : ~table[rule][i]
\* The answers to the six rules and to values that ascend are those of a number.
OneNumber(table, among) ==
  \A i \in among :
    /\ Cardinality({rule \in {"lessThan", "equalTo", "greaterThan"} : table[rule][i]}) = 1
    /\ table["lessOrEqual"][i] = ~table["greaterThan"][i]
    /\ table["greaterOrEqual"][i] = ~table["lessThan"][i]
    /\ table["notEqualTo"][i] = ~table["equalTo"][i]
    /\ \A j \in among : i < j /\ table["lessOrEqual"][i] => table["lessThan"][j]
\* A text that is no number is the same or another, and never more or less.
OneText(table, among) ==
  \A i \in among :
    /\ table["notEqualTo"][i] = ~table["equalTo"][i]
    /\ \A rule \in Rules \ {"equalTo", "notEqualTo"} : ~table[rule][i]
Numerals == {i \in DOMAIN asked.values : asked.values[i].scalar # None}
\* Of several entities each has a number of its own.
Single(c) == c.kind \in {"simulationTime", "timeOfDay"} \/ \A a, b \in Range(c.triggering) : a = b
Coherent(kind, table) ==
  /\ kind \in Ruled /\ Single(asked.condition) => Nothing(table) \/ OneNumber(table, DOMAIN asked.values)
  /\ kind \in Texts => \/ Nothing(table)
                       \/ OneText(table, DOMAIN asked.values)
                       \/ OneNumber(table, Numerals) /\ OneText(table, DOMAIN asked.values \ Numerals)
  /\ kind \in Lasting =>
       \A i, j \in DOMAIN asked.values : i < j /\ table["equalTo"][j] => table["equalTo"][i]
\* Other kinds that go by the same measurement: on the flat, and for who moves ahead.
Triggers(context, c) == {context.entities[id] : id \in Range(c.triggering) \cap DOMAIN context.entities}
Level(context, c) ==
  /\ euclidean(Measurement(context, c)) /\ ~c.freespace /\ c.cs # "trajectory"
  /\ \A e \in Triggers(context, c) : e.state.z = c.position.state.z
Ahead(context, c) ==
  /\ Measurement(context, c).cs = "entity"
  /\ \A e \in Triggers(context, c) : e.state.speed > 0
Alike(context, c) ==
  IF c.kind = "distance" /\ c.ref = None /\ Level(context, c) THEN {"reachPosition"}
  ELSE IF c.kind = "timeToCollision" /\ c.ref = None /\ Ahead(context, c) THEN {"timeHeadway"}
  ELSE {}
AtMost(tables, kind) == tables[kind]["lessOrEqual"]
Agree(tables) ==
  /\ {"reachPosition", "distance"} \subseteq DOMAIN tables
     => AtMost(tables, "reachPosition") = AtMost(tables, "distance")
  /\ {"timeHeadway", "timeToCollision"} \subseteq DOMAIN tables
     => \A i \in DOMAIN asked.values :
          AtMost(tables, "timeToCollision")[i] => AtMost(tables, "timeHeadway")[i]
AreCoherent(tables, kind) == Coherent(kind, tables[kind]) /\ Agree(tables)
\* One number stands behind the answers to a condition whatever rule and value it
\* is asked with, or nothing does and none holds; who reaches a position is at no
\* more than the tolerance from it; and the headway to what stands still is
\* never longer than the time to collide with it (rule.cpp:26-111,
\* entity_condition.cpp:87-265, interaction_condition.cpp:90-303: each kind
\* measures by itself).
AnswersAreCoherent ==
  Answered("condition") =>
    AreCoherent(Table({asked.condition.kind} \cup Alike(asked.context, asked.condition)),
                asked.condition.kind)

---------------------------------------------------------------------------
(* Speed profiles.                                                             *)

\* The speeds a profile goes through, second by second, as fractions of one size.
Speeds(controller) ==
  LET spans == FoldLeft(LAMBDA sum, s : sum + s.span, 0, controller.segments)
  IN [t \in 0 .. spans + 1 |-> speed(advance(controller, t, 0))]
Rises(from, to, limit) == limit = None \/ (to.n * from.d - from.n * to.d) <= limit * from.d * to.d
\* An entity that follows a speed profile gains and loses no more speed in any
\* second than its limits allow, whatever the entries ask for, and ends no faster
\* than its limit (engine.cpp:4570-4662 stretches each entry for that).
WithinDynamics ==
  LET limits == ProfileLimits(asked.action, asked.record)
      v == Speeds(answer)
      end == answer.segments[Len(answer.segments)].to
  IN Answered("profile") /\ asked.action.follow =>
       /\ \A t \in DOMAIN v \ {0} :
            Rises(v[t - 1], v[t], limits.acceleration) /\ Rises(v[t], v[t - 1], limits.deceleration)
       /\ limits.speed = None \/ end <= limits.speed
       /\ v[Greatest(DOMAIN v)] = Q(end, 1)
=============================================================================
