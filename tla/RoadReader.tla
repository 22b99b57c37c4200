------------------------------ MODULE RoadReader ------------------------------
(***************************************************************************)
(* Reading an OpenDRIVE document: a tree of elements becomes a map, or part   *)
(* of one, and findings.  An attribute is its number, or None where it is      *)
(* missing or no number; an element keeps its children of each name in a      *)
(* sequence and counts those of other names in unknown.                        *)
(***************************************************************************)
EXTENDS Roads

Required(node, names) == EachOf(names, LAMBDA name : When(node[name] = None, Error("ParseError")))
unconsumed(node) == [i \in 1 .. node.unknown |-> Warning("UnsupportedFeature")]
Invalid(condition) == When(condition, Error("ValidationError"))

\* One entry more, or another under the same key.
Stored(entries, key, entry) ==
  [k \in DOMAIN entries \cup {key} |-> IF k = key THEN entry ELSE entries[k]]

---------------------------------------------------------------------------
(* Reference lines.                                                            *)

Coordinates == <<"s", "x", "y", "hdg", "length">>
Parameters == [line |-> <<>>, arc |-> <<"curvature">>, spiral |-> <<"curvStart", "curvEnd">>,
               poly3 |-> <<"a", "b", "c", "d">>,
               paramPoly3 |-> <<"aU", "bU", "cU", "dU", "aV", "bV", "cV", "dV">>]

\* The findings on a piece; it is taken when none of them is an error.
read_curve(curve) ==
  IF curve.name \notin DOMAIN Parameters THEN Invalid(TRUE)
  ELSE When(curve.name = "poly3", Warning("DeprecatedFeature"))
       \o Required(curve, Parameters[curve.name])
       \o When(curve.name = "paramPoly3" /\ curve.pRange = None, Error("ParseError"))
read_primitives(primitives) ==
  IF Len(primitives) # 1 THEN Invalid(TRUE) ELSE read_curve(primitives[1])
read_geometry(node) ==
  Required(node, Coordinates)
  \o Invalid(None \notin {node[c] : c \in Range(Coordinates)} /\ node.length <= 0)
  \o read_primitives(node.primitives)

\* A parametric curve that stays where it begins has no length to share out.
Geometry(node) ==
  LET curve == node.primitives[1]
  IN [s |-> node.s, x |-> node.x, y |-> node.y, hdg |-> node.hdg, length |-> node.length,
      degenerate |-> curve.name = "paramPoly3"
                     /\ \A p \in {"bU", "cU", "dU", "bV", "cV", "dV"} : curve[p] = 0]

\* One piece after the other: each begins where the ones before it end.
OutOfOrder(line, node) ==
  Invalid(line.pieces # <<>> /\ node.s < line.pieces[Len(line.pieces)].s)
  \o Invalid(node.s # line.expected_s)
AddPiece(line, node, order, findings) ==
  IF has_errors(findings)
  THEN [line EXCEPT !.ok = FALSE, !.found = @ \o findings]
  ELSE [pieces |-> Append(line.pieces, Geometry(node)),
        expected_s |-> line.expected_s + node.length,
        ok |-> line.ok /\ order = <<>>, found |-> line.found \o findings \o order]
AddGeometry(line, node) == AddPiece(line, node, OutOfOrder(line, node), read_geometry(node))
read_plan_view(pieces) ==
  FoldLeft(AddGeometry, [pieces |-> <<>>, expected_s |-> 0, ok |-> TRUE, found |-> <<>>], pieces)

---------------------------------------------------------------------------
(* Lanes.                                                                      *)

\* The first numeric reference is kept, the others are reported.
FirstOfRefs(refs, first) ==
  [id |-> IF first = 0 THEN None ELSE refs[first],
   found |-> FlattenSeq([i \in DOMAIN refs |->
               IF refs[i] = None THEN <<Error("ParseError")>>
               ELSE When(i # first, Warning("UnsupportedFeature"))])]
parse_lane_ref(refs) ==
  FirstOfRefs(refs, SelectInSeq(refs, LAMBDA ref : ref # None))

WidthParameters == <<"s_offset", "a", "b", "c", "d">>
LastOffset(kept) == IF kept = <<>> THEN -1 ELSE kept[Len(kept)].s_offset
WidthFindings(widths, node) ==
  IF \E name \in Range(WidthParameters) : node[name] = None THEN Required(node, WidthParameters)
  ELSE Invalid(node.s_offset <= LastOffset(widths.kept))
TakeWidth(widths, node, findings) ==
  IF findings # <<>> THEN [widths EXCEPT !.found = @ \o findings]
  ELSE [widths EXCEPT !.kept = Append(@, node)]
AddWidth(widths, node) == TakeWidth(widths, node, WidthFindings(widths, node))

\* The centre lane has no width, every other lane has one from the start.
MisfitWidths(id, kept) ==
  IF id = 0 THEN kept # <<>> ELSE kept = <<>> \/ kept[1].s_offset > 0

\* Mutant: the first lane of an id stays, as with emplace().
TakeLaneFirst(lanes, node, before, after, widths, misfit) ==
  [lanes |-> IF misfit \/ node.id \in DOMAIN lanes.lanes THEN lanes.lanes
             ELSE Stored(lanes.lanes, node.id,
                         [type |-> node.type, widths |-> widths.kept,
                          predecessor |-> before.id, successor |-> after.id]),
   found |-> lanes.found \o unconsumed(node) \o before.found \o after.found
             \o widths.found \o Invalid(misfit)]
\* section.lanes[id] = lane: one written before under the same id is gone.
TakeLane(lanes, node, before, after, widths, misfit) ==
  [lanes |-> IF misfit THEN lanes.lanes
             ELSE Stored(lanes.lanes, node.id,
                         [type |-> node.type, widths |-> widths.kept,
                          predecessor |-> before.id, successor |-> after.id]),
   found |-> lanes.found \o unconsumed(node) \o before.found \o after.found
             \o widths.found \o Invalid(misfit)]
LaneWithWidths(lanes, node, widths) ==
  TakeLane(lanes, node, parse_lane_ref(node.predecessor), parse_lane_ref(node.successor), widths,
           MisfitWidths(node.id, widths.kept))
read_lane(lanes, node) ==
  IF node.id = None THEN [lanes EXCEPT !.found = Append(@, Error("ParseError"))]
  ELSE LaneWithWidths(lanes, node, FoldLeft(AddWidth, [kept |-> <<>>, found |-> <<>>], node.widths))
\* The lanes of the left, the centre and the right group, in that order.
read_lane_group(lanes, group) == FoldLeft(read_lane, lanes, group)

TakeSection(road, node, read) ==
  [sections |-> Append(road.sections, [s |-> node.s, lanes |-> read.lanes]),
   found |-> road.found \o unconsumed(node) \o read.found]
AddSection(road, node) ==
  IF node.s = None THEN [road EXCEPT !.found = Append(@, Error("ParseError"))]
  ELSE IF road.sections # <<>> /\ node.s <= road.sections[Len(road.sections)].s
       THEN [road EXCEPT !.found = @ \o Invalid(TRUE)]
  ELSE TakeSection(road, node, FoldLeft(read_lane_group, [lanes |-> <<>>, found |-> <<>>], node.groups))
\* Sections that begin late leave none.
FromTheStart(read) ==
  IF read.sections # <<>> /\ read.sections[1].s <= 0 THEN read
  ELSE [sections |-> <<>>, found |-> read.found \o Invalid(TRUE)]
read_lanes(node) ==
  FromTheStart(FoldLeft(AddSection, [sections |-> <<>>, found |-> unconsumed(node)], node.sections))

---------------------------------------------------------------------------
(* Roads, junctions, the document.                                             *)

\* A link to a road says at which of its ends.
read_road_link_side(side) ==
  LET misfit == side # None /\ (\/ side.kind \notin {"road", "junction"} \/ side.element = None
                                \/ (side.kind = "road" /\ side.contact = None))
  IN [link |-> IF side = None \/ misfit THEN None ELSE [kind |-> side.kind, element |-> side.element],
      found |-> Invalid(misfit)]

\* The whole of a road is left out when its reference line is not there, when a
\* piece of it is not taken, and when its id is taken.
With(map, findings) == [map EXCEPT !.found = @ \o findings]
TakeRoad(map, node, line, before, after, lanes) ==
  [map EXCEPT !.roads = Stored(@, node.id, [plan_view |-> line.pieces, sections |-> lanes.sections,
                                            predecessor |-> before.link, successor |-> after.link])]
DrawnRoad(map, node, line, before, after, lanes) ==
  IF node.id \in DOMAIN map.roads THEN With(map, Invalid(TRUE))
  ELSE TakeRoad(map, node, line, before, after, lanes)
RoadOn(map, node, line, before, after, lanes) ==
  IF line.pieces = <<>> \/ ~line.ok THEN With(map, line.found \o Invalid(line.pieces = <<>>))
  ELSE DrawnRoad(With(map, line.found \o When(line.expected_s # node.length, Warning("ValidationError"))),
                 node, line, before, after, lanes)
RoadOf(map, node, before, after, lanes) ==
  LET found == unconsumed(node) \o before.found \o after.found \o lanes.found
  IN IF node.plan_view = None THEN With(map, found \o Invalid(TRUE))
     ELSE RoadOn(With(map, found), node, read_plan_view(node.plan_view), before, after, lanes)
read_road(map, node) ==
  IF node.id = None \/ node.length = None THEN With(map, <<Error("ParseError")>>)
  ELSE RoadOf(map, node, read_road_link_side(node.link.predecessor), read_road_link_side(node.link.successor),
              IF node.lanes = None THEN [sections |-> <<>>, found |-> <<>>] ELSE read_lanes(node.lanes))

Connections(node) ==
  LET named(c) == None \notin {c.incoming, c.connecting}
      numeric(l) == None \notin {l.from, l.to}
      read(c) == [incoming |-> c.incoming, connecting |-> c.connecting,
                  links |-> {l \in Range(c.links) : numeric(l)}]
  IN [kept |-> {read(c) : c \in {c \in Range(node.connections) : named(c)}},
      found |-> EachOf(node.connections, LAMBDA c :
                  IF ~named(c) THEN Invalid(TRUE)
                  ELSE EachOf(c.links, LAMBDA l : When(~numeric(l), Error("ParseError"))))]
TakeJunction(map, node, read) ==
  IF node.id \in DOMAIN map.junctions THEN With(map, unconsumed(node) \o read.found \o Invalid(TRUE))
  ELSE [With(map, unconsumed(node) \o read.found) EXCEPT !.junctions = Stored(@, node.id, read.kept)]
read_junction(map, node) ==
  IF node.id = None THEN With(map, <<Error("ParseError")>>)
  ELSE IF node.type # "default" THEN With(map, <<Warning("UnsupportedFeature")>>)
  ELSE TakeJunction(map, node, Connections(node))

read_header(header) ==
  IF header = None THEN <<Warning("UnsupportedFeature")>>
  ELSE When(header.revMajor # 1, Warning("UnsupportedFeature"))
       \o When(header.geoReference, Warning("UnsupportedFeature"))

NoMap(findings) == [roads |-> <<>>, junctions |-> <<>>, found |-> findings]
read_root(root) ==
  LET begun == NoMap(read_header(root.header) \o unconsumed(root))
  IN FoldLeft(read_junction,
              With(FoldLeft(read_road, begun, root.roads), Invalid(root.roads = <<>>)), root.junctions)
load_string(document) ==
  IF ~document.well_formed \/ document.root = None THEN NoMap(<<Error("ParseError")>>)
  ELSE read_root(document.root)

load_file(file) == IF file = None THEN NoMap(<<Error("InvalidArgument")>>) ELSE load_string(file)
=============================================================================
