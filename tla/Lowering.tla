------------------------------ MODULE Lowering ------------------------------
(***************************************************************************)
(* From a checked program of the domain-specific language to a scenario.     *)
(* Composition only decides when a phase starts: each invocation becomes a     *)
(* group with one event, whose trigger says what is known, at load time, of    *)
(* the moment its predecessors end.                                            *)
(*                                                                             *)
(* An expression is what lowering can make of it: a number, an enumerator or   *)
(* a text when it is constant, else the path of the field it names, else       *)
(* nothing at all (a range).  A name is a sequence, so that a generated one    *)
(* ends with a number.                                                          *)
(***************************************************************************)
EXTENDS Ir

Unfixed == [number |-> None, enum |-> None, text |-> None, path |-> <<>>]
folded(v) == v.number # None \/ v.enum # None \/ v.text # None

---------------------------------------------------------------------------
(* The library: its actors, and what can be invoked on them with which          *)
(* parameters in order.                                                         *)

Actors ==
  [osc_actor |-> None, physical_object |-> "osc_actor",
   stationary_object |-> "physical_object", movable_object |-> "physical_object",
   traffic_participant |-> "movable_object", vehicle |-> "traffic_participant",
   trailer |-> "vehicle", person |-> "traffic_participant", animal |-> "traffic_participant",
   map |-> "osc_actor"]
Rate == <<"rate_profile", "rate_peak">>
Gap == <<"target", "direction", "reference">>
NoCounterpart(names) == [name \in names |-> <<>>]
Movements ==
  [movable_object |->
     [move |-> <<>>, assign_position |-> <<"position", "route_point", "odr_point">>,
      assign_speed |-> <<"speed">>, remain_stationary |-> <<>>,
      change_speed |-> <<"target">> \o Rate]
     @@ NoCounterpart({"assign_orientation", "assign_acceleration", "replay_path",
                       "replay_trajectory", "change_position", "keep_speed",
                       "change_acceleration", "keep_acceleration", "follow_path",
                       "follow_trajectory"}),
   vehicle |->
     [drive |-> <<>>, change_time_gap |-> Gap, change_space_gap |-> Gap,
      change_lane |-> <<"num_of_lanes", "side", "reference", "offset">> \o Rate \o <<"target">>]
     @@ NoCounterpart({"follow_lane", "keep_time_gap", "keep_space_gap", "change_time_headway",
                       "keep_time_headway", "change_space_headway", "keep_space_headway",
                       "connect_trailer", "disconnect_trailer"}),
   person |-> [walk |-> <<>>]]
Standard == <<"at", "movement_mode", "track", "shape">>
Modifiers ==
  [movable_object |->
     [position |-> <<"distance", "time", "distance_range", "time_range", "ahead_of", "behind",
                     "ahead_of_point", "behind_point", "at_point", "project_on_route">> \o Standard,
      keep_position |-> Standard,
      speed |-> <<"speed", "speed_range", "faster_than", "slower_than", "same_as", "factor",
                  "direction">> \o Standard,
      acceleration |-> <<"acceleration", "acceleration_range">> \o Standard,
      lateral |-> <<"distance", "distance_range", "side_of", "side", "measure_by">> \o Standard,
      distance |-> <<"distance">> \o Standard]
     @@ NoCounterpart({"yaw", "orientation", "along", "along_trajectory", "physical_movement",
                       "avoid_collisions"}),
   vehicle |->
     [lane |-> <<"lane", "side_of", "side", "same_as", "from">> \o Standard,
      keep_lane |-> Standard, tow_trailer |-> <<"trailer">>],
   stationary_object |-> [location |-> <<"pose">>]]
PlainModifiers ==
  [change_speed |-> <<"speed", "speed_range">> \o Standard, keep_speed |-> Standard,
   change_lane |-> <<"lane", "side">> \o Standard]

\* A type and those it inherits from, inmost first.
lineage(types, type) ==
  FoldLeft(LAMBDA line, i : IF types[Last(line)] = None THEN line
                            ELSE Append(line, types[Last(line)]),
           <<type>>, [i \in 1 .. Cardinality(DOMAIN types) |-> i])
is_derived_from(types, type, base) == base \in Range(lineage(types, type))

\* The parameters of what a name stands for on a receiver, by its lineage.
lookup_behavior_on(types, receiver, name) ==
  LET declared == SelectSeq(lineage(types, receiver),
                            LAMBDA t : t \in DOMAIN Movements /\ name \in DOMAIN Movements[t])
  IN IF declared = <<>> THEN None ELSE Movements[declared[1]][name]
lookup_modifier(types, receiver, name) ==
  LET declared == SelectSeq(lineage(types, receiver),
                            LAMBDA t : t \in DOMAIN Modifiers /\ name \in DOMAIN Modifiers[t])
  IN IF declared # <<>> THEN Modifiers[declared[1]][name]
     ELSE IF name \in DOMAIN PlainModifiers THEN PlainModifiers[name] ELSE None

---------------------------------------------------------------------------
(* Arguments and bindings.                                                      *)

\* An argument binds by its name, or in the order of the parameters; the last
\* one of a name counts, and those beyond the parameters are left out.
bind_arguments(order, arguments) ==
  LET positional(i) == Len(SelectSeq(SubSeq(arguments, 1, i), LAMBDA a : a.name = None))
      name(i) == IF arguments[i].name # None THEN arguments[i].name
                 ELSE IF positional(i) <= Len(order) THEN order[positional(i)] ELSE None
      names == {name(i) : i \in DOMAIN arguments} \ {None}
  IN [n \in names |->
        arguments[Max({i \in DOMAIN arguments : name(i) = n})].value]
argument(arguments, name) == IF name \in DOMAIN arguments THEN arguments[name] ELSE Unfixed
argument_number(arguments, name) == argument(arguments, name).number
argument_enum(arguments, name) == argument(arguments, name).enum
argument_reference(arguments, name) ==
  LET v == argument(arguments, name)
  IN IF ~folded(v) /\ Len(v.path) = 1 THEN v.path[1] ELSE None

\* An equation of a path and a constant, either way round, fixes the field.
binding_of(keep) ==
  LET fixes(i) == keep.sides[i].path # <<>> /\ folded(keep.sides[3 - i])
  IN IF ~keep.equality \/ \A i \in 1 .. 2 : ~fixes(i) THEN <<>>
     ELSE LET i == Min({i \in 1 .. 2 : fixes(i)})
          IN <<[path |-> keep.sides[i].path, value |-> keep.sides[3 - i]]>>
collect_bindings(members) ==
  FlattenSeq([i \in DOMAIN members |->
                IF members[i].kind = "keep" THEN binding_of(members[i]) ELSE <<>>])
binding_for(bindings, path) ==
  LET found == SelectSeq(bindings, LAMBDA b : b.path = path)
  IN IF found = <<>> THEN None ELSE found[1].value

lower_bounding_box(bindings, id) ==
  LET negative(side) ==
        LET v == binding_for(bindings, <<id, "bounding_box", side>>)
        IN v # None /\ v.number # None /\ v.number < 0
  IN IF \E side \in {"length", "width", "height"} : negative(side) THEN "ill" ELSE "ok"

---------------------------------------------------------------------------
(* What an invocation or a modifier yields: actions, and findings.              *)

Yield(actions, found) == [actions |-> actions, found |-> found]
Nothing == Yield(<<>>, <<>>)
Warned == Yield(<<>>, <<Warning("UnsupportedFeature")>>)
Refused == Yield(<<>>, <<Error("SemanticError")>>)
Only(action) == Yield(<<action>>, <<>>)

\* A change at a rate needs one that is positive; else it is made at once.
rate_dynamics(profile, peak) ==
  IF profile = "asap" \/ peak = None THEN "none" ELSE IF peak <= 0 THEN "none" ELSE "ok"
Setting(actor, ref, dynamics) ==
  [kind |-> "setSpeed", who |-> actor, ref |-> ref, ill |-> FALSE, dynamics |-> dynamics,
   continuous |-> FALSE, follow |-> FALSE, above |-> FALSE]
ChangingLane(actor, ref, lane, dynamics) ==
  [kind |-> "laneChange", who |-> actor, ref |-> ref, ill |-> FALSE, lane |-> lane,
   dynamics |-> dynamics, step |-> dynamics = "none"]
Keeping(actor, ref, number, space) ==
  [kind |-> "keepGap", who |-> actor, ref |-> ref, ill |-> number < 0, distance |-> space,
   timeGap |-> ~space, frame |-> "entity"]
Teleporting(actor, position) == [kind |-> "teleport", who |-> actor, position |-> position]
Offsetting(actor) == [kind |-> "laneOffset", who |-> actor, ref |-> None, ill |-> FALSE]

\* A position is a declaration, its coordinates what is kept of it.
world_position(bindings, field) ==
  When(\A axis \in {"x", "y", "z"} : binding_for(bindings, <<field, axis>>) = None,
       Warning("UnsupportedFeature"))

lower_assign_position(b, actor, arguments) ==
  LET field == argument_reference(arguments, "position")
  IN IF {"route_point", "odr_point"} \cap DOMAIN arguments # {} THEN Warned
     ELSE IF field = None THEN Refused
     ELSE Yield(<<Teleporting(actor, [frame |-> "world", ill |-> FALSE])>>,
                world_position(b.bindings, field))
lower_change_lane(b, actor, arguments) ==
  LET reference == argument_reference(arguments, "reference")
  IN IF argument_enum(arguments, "side") \notin {"left", "right"} THEN Refused
     ELSE Only(ChangingLane(actor, IF reference \in b.entities THEN reference ELSE actor, None,
                            rate_dynamics(argument_enum(arguments, "rate_profile"),
                                          argument_number(arguments, "rate_peak"))))
lower_change_gap(b, actor, arguments, space) ==
  LET target == argument_number(arguments, "target")
      reference == argument_reference(arguments, "reference")
  IN IF target = None \/ reference \notin b.entities THEN Refused
     ELSE Yield(<<Keeping(actor, reference, target, space)>>,
                When(argument_enum(arguments, "direction") \notin {None, "ahead", "behind"},
                     Warning("UnsupportedFeature")))

\* The movements that have a counterpart in the scenario.
lower_movement(b, actor, name, arguments) ==
  CASE name = "assign_speed" ->
         IF argument_number(arguments, "speed") = None THEN Refused
         ELSE Only(Setting(actor, None, "none"))
    [] name = "change_speed" ->
         IF argument_number(arguments, "target") = None THEN Refused
         ELSE Only(Setting(actor, None, rate_dynamics(argument_enum(arguments, "rate_profile"),
                                                      argument_number(arguments, "rate_peak"))))
    [] name = "remain_stationary" -> Only(Setting(actor, None, "none"))
    [] name = "assign_position" -> lower_assign_position(b, actor, arguments)
    [] name = "change_lane" -> lower_change_lane(b, actor, arguments)
    [] name = "change_space_gap" -> lower_change_gap(b, actor, arguments, TRUE)
    [] name = "change_time_gap" -> lower_change_gap(b, actor, arguments, FALSE)
    [] name \in {"move", "drive", "walk"} -> Nothing
    [] OTHER -> Warned
actions_of(b, member, actor) ==
  LET order == lookup_behavior_on(b.types, b.fields[actor], member.name)
  IN IF order = None THEN Warned
     ELSE lower_movement(b, actor, member.name, bind_arguments(order, member.arguments))

---------------------------------------------------------------------------
(* Modifiers tune what is invoked.                                              *)

\* A value holds from the start of the phase, unless it is to be reached at its
\* end, for which the phase needs a length.
anchored_dynamics(at, span) ==
  IF at = "end" /\ span # None
  THEN IF span > 0 THEN [dynamics |-> "timed", found |-> <<>>]
       ELSE [dynamics |-> "none", found |-> <<Warning("UnsupportedFeature")>>]
  ELSE [dynamics |-> "none", found |-> When(at = "end", Warning("UnsupportedFeature"))]

lower_speed_modifier(b, actor, arguments, reached) ==
  LET relations == SelectSeq(<<"faster_than", "slower_than", "same_as">>,
                             LAMBDA r : argument_reference(arguments, r) # None)
      reference == argument_reference(arguments, relations[1])
  IN IF relations # <<>>
     THEN IF reference \in b.entities THEN Only(Setting(actor, reference, reached)) ELSE Refused
     ELSE IF argument_number(arguments, "speed") = None THEN Warned
     ELSE Only(Setting(actor, None, reached))

lower_position_modifier(b, actor, arguments, at) ==
  LET ahead == argument_reference(arguments, "ahead_of")
      reference == IF ahead # None THEN ahead ELSE argument_reference(arguments, "behind")
      distance == argument_number(arguments, "distance")
  IN IF reference \notin b.entities \/ distance = None THEN Warned
     ELSE IF at = "start"
          THEN Only(Teleporting(actor, [frame |-> "object", ref |-> reference, ill |-> FALSE]))
     ELSE Only(Keeping(actor, reference, distance, TRUE))

lower_lateral_modifier(b, actor, arguments) ==
  LET distance == argument_number(arguments, "distance")
      reference == argument_reference(arguments, "side_of")
  IN IF distance = None THEN Warned
     ELSE IF reference \in b.entities
          THEN Only([kind |-> "keepLateral", who |-> actor, ref |-> reference,
                     ill |-> distance < 0, frame |-> "entity"])
     ELSE Only(Offsetting(actor))

lower_lane_modifier(b, actor, arguments, reached) ==
  LET reference == argument_reference(arguments, "side_of")
  IN IF reference \in b.entities
     THEN IF argument_enum(arguments, "side") \in {"left", "right"}
          THEN Only(ChangingLane(actor, reference, None, reached)) ELSE Refused
     ELSE IF argument_number(arguments, "lane") = None THEN Warned
     ELSE Only(ChangingLane(actor, None, 1, reached))

\* What the branch yields comes with the warning about its anchor, where it has one.
Anchored(yield, anchored, uses) ==
  [yield EXCEPT !.found = (IF uses THEN anchored.found ELSE <<>>) \o @]
lower_modifier(b, actor, name, arguments, span) ==
  LET at == argument_enum(arguments, "at")
      anchored == anchored_dynamics(at, span)
      to == anchored.dynamics
  IN CASE name = "speed" ->
            Anchored(lower_speed_modifier(b, actor, arguments, to), anchored, TRUE)
       [] name = "change_speed" ->
            IF argument_number(arguments, "speed") = None THEN Warned
            ELSE Anchored(Only(Setting(actor, actor, to)), anchored, TRUE)
       [] name \in {"keep_speed", "keep_position"} -> Nothing
       [] name = "keep_lane" -> Only(Offsetting(actor))
       [] name = "position" -> lower_position_modifier(b, actor, arguments, at)
       [] name = "lateral" -> lower_lateral_modifier(b, actor, arguments)
       [] name = "lane" ->
            LET yield == lower_lane_modifier(b, actor, arguments, to)
            IN Anchored(yield, anchored, yield.actions # <<>>)
       [] name = "change_lane" ->
            IF argument_enum(arguments, "side") \notin {"left", "right"} THEN Refused
            ELSE Anchored(Only(ChangingLane(actor, actor, None, to)), anchored, TRUE)
       [] OTHER -> Warned
Applied(b, m, actor, span, order) ==
  IF order = None THEN Nothing
  ELSE lower_modifier(b, actor, m.name, bind_arguments(order, m.arguments), span)
Together(yield, next) == Yield(yield.actions \o next.actions, yield.found \o next.found)
modifier_actions(b, member, actor, span) ==
  FoldLeft(LAMBDA yield, m :
             Together(yield, Applied(b, m, actor, span,
                                     lookup_modifier(b.types, b.fields[actor], m.name))),
           Nothing, member.modifiers)

---------------------------------------------------------------------------
(* When a phase begins or ends: at a time, after groups that complete, or both.  *)

At(time) == [at |-> time, after |-> <<>>]
After(group) == [at |-> None, after |-> <<group>>]
\* An element that starts with its parent has no trigger.
trigger_for(point) ==
  LET timed == [by |-> "value", kind |-> "simulationTime", ill |-> FALSE, value |-> point.at]
      completed(name) == [by |-> "value", kind |-> "element", type |-> "group",
                          segments |-> <<name>>, state |-> "complete"]
      expressions == (IF point.at = None THEN <<>> ELSE <<timed>>)
                     \o [i \in DOMAIN point.after |-> completed(point.after[i])]
  IN IF point.after = <<>> /\ (point.at = None \/ point.at <= 0) THEN <<>>
     ELSE <<<<[i \in DOMAIN expressions |-> [expression |-> expressions[i], delay |-> 0]]>>>>
\* Mutant: the join of a parallel composition is where its last member ends.
both_last(left, right) == right
both(left, right) ==
  [at |-> IF left.at = None THEN right.at
          ELSE IF right.at = None THEN left.at ELSE Max({left.at, right.at}),
   after |-> left.after \o right.after]

says(b, found) == [b EXCEPT !.found = @ \o found]
Ends(b, point) == [b |-> b, end |-> point]

\* The first duration among the arguments; one that is no constant is not lowered.
duration_of(arguments) ==
  LET given == SelectSeq(arguments, LAMBDA a : a.name = "duration")
  IN IF given = <<>> THEN [span |-> None, found |-> <<>>]
     ELSE [span |-> given[1].value.number,
           found |-> When(given[1].value.number = None, Warning("UnsupportedFeature"))]
report_composition_arguments(arguments) ==
  FlattenSeq([i \in DOMAIN arguments |->
    LET a == arguments[i]
        realised == \/ a.name = "duration"
                    \/ a.name = "overlap" /\ a.value.enum = "start"
    IN When(~realised, Warning("UnsupportedFeature"))])

\* The alternative that is asked for by its label, or the first.
chosen_alternative(b, members) ==
  LET labelled == SelectSeq(members, LAMBDA m : m.label = b.alternative)
  IN IF b.alternative = None THEN IF members = <<>> THEN None ELSE members[1]
     ELSE IF labelled # <<>> THEN labelled[1] ELSE None

\* A name no phase has yet.
phase_name(b, label) ==
  LET name == IF label = None THEN <<"phase", Len(b.groups) + 1>> ELSE label
      suffixed(n) == name \o <<n>>
      n == Min({n \in 2 .. Cardinality(b.taken) + 2 : suffixed(n) \notin b.taken})
  IN IF name \in b.taken THEN suffixed(n) ELSE name

\* A span counts from a start that is a time.
Spanned(point, start, span) ==
  IF span = None \/ start.at = None THEN point ELSE At(start.at + span)
Unbounded(start, span) == When(span # None /\ start.at = None, Warning("UnsupportedFeature"))

lower_wait(b, member, start) ==
  IF member.elapsed = None \/ start.at = None
  THEN Ends(says(b, <<Warning("UnsupportedFeature")>>), start)
  ELSE Ends(b, Spanned(start, start, member.elapsed))

\* An invocation on a participant is a group of its own, unless it has nothing to
\* run; it ends after its duration, or else when its actions do.
Grouped(told, member, start, actions, name, span) ==
  LET group == [name |-> name, actor |-> member.actor, actions |-> actions,
                start |-> trigger_for(start)]
  IN IF actions = <<>> THEN Ends(told, Spanned(start, start, span))
     ELSE Ends([told EXCEPT !.groups = Append(@, group), !.taken = @ \cup {name}],
               IF span = None \/ start.at = None THEN After(name) ELSE Spanned(start, start, span))
PhaseOf(b, member, start, duration, invoked, tuned) ==
  Grouped(says(b, [i \in 1 .. member.until |-> Warning("UnsupportedFeature")] \o duration.found
                  \o invoked.found \o Unbounded(start, duration.span) \o tuned.found),
          member, start, invoked.actions \o tuned.actions, phase_name(b, member.label),
          duration.span)
lower_invocation(b, member, start) ==
  IF member.actor \notin b.entities THEN Ends(says(b, <<Error("SemanticError")>>), start)
  ELSE PhaseOf(b, member, start, duration_of(member.arguments),
               actions_of(b, member, member.actor),
               modifier_actions(b, member, member.actor, duration_of(member.arguments).span))

RECURSIVE lower_member(_, _, _)
lower_serial(b, members, start) ==
  FoldLeft(LAMBDA before, m : lower_member(before.b, m, before.end), Ends(b, start), members)
Joined(end, lowered) ==
  Ends(lowered.b, IF end = None THEN lowered.end ELSE both(end, lowered.end))
lower_parallel(b, members, start) ==
  IF members = <<>> THEN Ends(b, start)
  ELSE FoldLeft(LAMBDA so_far, m : Joined(so_far.end, lower_member(so_far.b, m, start)),
                Ends(b, None), members)
lower_one_of(b, members, start) ==
  LET chosen == chosen_alternative(b, members)
  IN IF chosen # None THEN lower_member(b, chosen, start)
     ELSE Ends(says(b, When(b.alternative # None, Error("SemanticError"))), start)
lower_members(b, member, start) ==
  CASE member.operator = "serial" -> lower_serial(b, member.members, start)
    [] member.operator = "parallel" -> lower_parallel(b, member.members, start)
    [] OTHER -> lower_one_of(b, member.members, start)
Bounded(lowered, start, span) ==
  Ends(says(lowered.b, Unbounded(start, span)), Spanned(lowered.end, start, span))
lower_composition(b, member, start) ==
  LET bound == duration_of(member.arguments)
      told == says(b, report_composition_arguments(member.arguments) \o bound.found)
  IN Bounded(lower_members(told, member, start), start, bound.span)

\* To emit an event or to call a method has no counterpart.
lower_member(b, member, start) ==
  CASE member.kind = "composition" -> lower_composition(b, member, start)
    [] member.kind = "wait" -> lower_wait(b, member, start)
    [] member.kind = "invocation" -> lower_invocation(b, member, start)
    [] OTHER -> Ends(says(b, <<Warning("UnsupportedFeature")>>), start)

---------------------------------------------------------------------------
(* The scenario.                                                                *)

Element(type, parent, name) ==
  [type |-> type, name |-> name, parent |-> parent, triggers |-> <<>>, count |-> 1,
   actors |-> <<>>, actions |-> <<>>]
\* A story of one act; each group has one maneuver of one event, all of one name.
Storyboard(groups, end, story) ==
  LET group(g, at) ==
        <<[Element("group", 3, g.name) EXCEPT !.actors = <<g.actor>>],
          Element("maneuver", at, g.name),
          [Element("event", at + 1, g.name) EXCEPT !.actions = g.actions, !.triggers = g.start]>>
      stop == IF end.after = <<>> /\ end.at # None THEN trigger_for(end) ELSE <<>>
  IN IF groups = <<>> THEN <<Element("storyboard", 0, None)>>
     ELSE <<[Element("storyboard", 0, None) EXCEPT !.triggers = stop],
            Element("story", 1, story), Element("act", 2, <<"act">>)>>
          \o FlattenSeq([i \in DOMAIN groups |-> group(groups[i], 3 * i + 1)])
Built(lowered, story) ==
  [found |-> lowered.b.found, elements |-> Storyboard(lowered.b.groups, lowered.end, story)]
build(b, do, story) == Built(lower_member(b, do, At(0)), story)

\* Each field of an actor type that is a physical object is a participant.
ObjectOf(types, type) ==
  CASE is_derived_from(types, type, "vehicle") -> "vehicle"
    [] is_derived_from(types, type, "person") -> "pedestrian"
    [] is_derived_from(types, type, "stationary_object") -> "misc"
    [] OTHER -> None
lower_entities(types, fields, bindings) ==
  LET participants == SelectSeq(fields, LAMBDA f : is_derived_from(types, f.type, "physical_object"))
  IN [i \in DOMAIN participants |->
        [id |-> participants[i].name, mode |-> "engine",
         object |-> ObjectOf(types, participants[i].type),
         box |-> lower_bounding_box(bindings, participants[i].name), limits |-> "ok"]]

\* The road network is what a map is kept to have, or what is set last.
map_file_of(types, scenario, bindings) ==
  LET isMap(name) == \E f \in Range(scenario.fields) :
                       f.name = name /\ is_derived_from(types, f.type, "map")
      kept == SelectSeq(bindings, LAMBDA k : Len(k.path) = 2 /\ k.path[2] = "map_file"
                                             /\ k.value.text # None /\ isMap(k.path[1]))
      file(m) == argument(bind_arguments(<<"file">>, m.arguments), "file").text
      set == SelectSeq(scenario.members, LAMBDA m : m.kind = "set_map_file" /\ file(m) # None)
  IN IF set # <<>> THEN file(Last(set)) ELSE IF kept # <<>> THEN Last(kept).value.text ELSE None

\* The scenarios a file offers are those that were resolved, in their order; one
\* is named with or without its namespace, or is the only one.
entry_points(program) == SelectSeq(program.scenarios, LAMBDA s : s.resolved)
entry_of(program, entry_point) ==
  LET offered == entry_points(program)
      named == SelectSeq(offered, LAMBDA s : entry_point \in {<<s.name>>, <<s.space, s.name>>})
  IN IF entry_point = None THEN IF Len(offered) = 1 THEN offered[1] ELSE None
     ELSE IF named # <<>> THEN named[1] ELSE None

Lowered(status, found, scenario, map_file) ==
  [status |-> status, found |-> found, scenario |-> scenario, map_file |-> map_file]
\* What the behavior half of lowering reads, and what it has come to so far.
Behaviors(program, scenario, alternative) ==
  LET types == program.types @@ Actors
      bindings == collect_bindings(scenario.members)
      entities == lower_entities(types, scenario.fields, bindings)
      ids == {e.id : e \in Range(entities)}
      type(id) == (CHOOSE f \in Range(scenario.fields) : f.name = id).type
  IN [types |-> types, bindings |-> bindings, entities |-> ids, fields |-> [id \in ids |-> type(id)],
      alternative |-> alternative, taken |-> {}, groups |-> <<>>,
      found |-> When(entities = <<>>, Warning("UnsupportedFeature"))]
lower_storyboard(b, scenario) ==
  LET directives == SelectSeq(scenario.members, LAMBDA m : m.kind = "do")
  IN IF directives = <<>> THEN [found |-> b.found, elements |-> <<Element("storyboard", 0, None)>>]
     ELSE build(b, directives[1].member, <<scenario.name>>)
Outcome(entities, built, map_file) ==
  Lowered(IF has_errors(built.found) THEN "ValidationError" ELSE "Ok", built.found,
          [entities |-> entities, init |-> <<>>, controllers |-> <<>>, variables |-> <<>>,
           parameters |-> <<>>, elements |-> built.elements],
          map_file)
lower_scenario(scenario, b) ==
  Outcome(lower_entities(b.types, scenario.fields, b.bindings),
          lower_storyboard(b, scenario), map_file_of(b.types, scenario, b.bindings))
lower(program, options) ==
  LET scenario == entry_of(program, options.entry_point)
  IN IF ~program.parsed THEN Lowered("InvalidArgument", <<>>, None, None)
     ELSE IF scenario = None
          THEN Lowered("SemanticError", <<Error("SemanticError")>>, None, None)
     ELSE lower_scenario(scenario, Behaviors(program, scenario, options.alternative))
=============================================================================
