-------------------------------- MODULE CApi --------------------------------
(***************************************************************************)
(* The C interface: a handle that holds a scenario under construction, an    *)
(* engine, the callbacks of the host and one buffer for borrowed strings.    *)
(* Builder calls refuse what cannot be expressed and append an event for     *)
(* the rest; loading replaces the scenario; a host may keep what it has      *)
(* borrowed for as long as the header says.                                  *)
(*                                                                         *)
(* A request is a record of a call's arguments: null says that a pointer     *)
(* the call needs is missing, stray that an enumerator is out of range, ill  *)
(* that a number is one that only init rejects.                              *)
(***************************************************************************)
EXTENDS Engine

\* What a builder takes for granted of a storyboard that has a story.
HasManeuver(scn) ==
  scn.elements # <<>> /\ (Len(scn.elements) > 1 =>
    \E n \in DOMAIN scn.elements \ {1} : scn.elements[n].type = "maneuver")

CONSTANTS
  Requests,    \* the builder calls the host may make
  Documents,   \* what the XML loader may make of a document: findings, a scenario
  Sources,     \* what the DSL checker may make of a source: readable, findings
  Getters,     \* the string getters the host calls
  MaxEntities, MaxEvents, MaxControllers   \* bounds on the scenario under construction

VARIABLES
  scenario,       \* scn_engine::scenario
  value_buffer,   \* scn_engine::value_buffer
  lent,           \* what the host has borrowed and may still read
  check           \* the scn_dsl_check the host holds, if any
handleVars == <<scenario, value_buffer, lent, check>>
capiVars == <<vars, handleVars>>

Stray == "stray"
Element(type, name, parent) ==
  [type |-> type, name |-> name, parent |-> parent, triggers |-> <<>>, count |-> 1,
   actors |-> <<>>, actions |-> <<>>]
Blank == [entities |-> <<>>, init |-> <<>>, controllers |-> <<>>, parameters |-> <<>>,
          variables |-> <<>>, elements |-> <<Element("storyboard", 0, 0)>>]

\* The phases of a request are a list; what a loader hands over is a scenario as
\* the representation types it, with a maneuver where it has a story.
ASSUME RequestsAssumption == \A q \in Requests : Listed(q.phases)
ASSUME DocumentsAssumption ==
  \A document \in Documents :
    /\ document.findings \in Seq(Diagnostic) /\ DOMAIN document.scenario = DOMAIN Blank
    /\ Formed(document.scenario) /\ HasManeuver(document.scenario)

---------------------------------------------------------------------------
(* Builders: the action of a request, or None where the call refuses it.       *)

check_event_args(q) == ~q.null /\ q.count >= 0 /\ q.priority # Stray
Given(accepted, action) == IF accepted THEN action ELSE None
Aimed(q, kind) == [kind |-> kind, who |-> q.who, ill |-> q.ill, value |-> q.value]
Held(q, kind, rest) == Over(Aimed(q, kind), rest)
Against(q, kind, rest) == Over([ref |-> q.ref], Held(q, kind, rest))
At(ref, ill) == IF ref = None THEN [frame |-> "world", ill |-> ill]
                ELSE [frame |-> "relative", ref |-> ref, ill |-> ill]

\* An absolute speed has no reference, a relative one cannot do without.
speed_action(q) ==
  Given(check_event_args(q) /\ ~q.stray,
        Against(q, "setSpeed", [dynamics |-> q.dynamics, continuous |-> q.continuous,
                                follow |-> q.follow, above |-> FALSE]))
speed_profile_action(q) ==
  Given(check_event_args(q) /\ ~q.stray /\ q.length > 0,
        Against(q, "speedProfile", [entries |-> q.length, follow |-> q.follow, above |-> FALSE]))
teleport_action(q) ==
  Given(check_event_args(q), Held(q, "teleport", [position |-> At(q.ref, q.ill)]))
\* The identifier of an absolute lane is not empty.
lane_change_action(q) ==
  Given(check_event_args(q) /\ ~q.stray /\ (q.ref = None => q.lane # None),
        Against(q, "laneChange", [dynamics |-> q.dynamics, step |-> FALSE, lane |-> q.lane]))
lane_offset_action(q) ==
  Given(check_event_args(q) /\ ~q.stray, Against(q, "laneOffset", <<>>))
lateral_distance_action(q) ==
  Given(check_event_args(q) /\ ~q.stray, Against(q, "keepLateral", [frame |-> q.frame]))
\* A gap is a distance or a time, and not both.
longitudinal_distance_action(q) ==
  Given(check_event_args(q) /\ ~q.stray /\ q.distance # q.timeGap,
        Against(q, "keepGap", [frame |-> q.frame, distance |-> q.distance,
                               timeGap |-> q.timeGap]))
route_action(q) ==
  Given(check_event_args(q) /\ ~q.stray /\ q.length >= 2,
        Held(q, "route", [waypoints |-> q.length]))
acquire_position_action(q) ==
  Given(check_event_args(q), Held(q, "acquire", [position |-> At(None, q.ill)]))

Trajectory(q, shape) ==
  Held(q, "trajectory", [shape |-> shape, vertices |-> q.length, timing |-> q.timing,
                         offset |-> "within", closed |-> q.closed, follow |-> q.follow])
trajectory_action(q) ==
  Given(check_event_args(q) /\ ~q.stray /\ q.length >= 2, Trajectory(q, "polyline"))
clothoid_action(q) ==
  Given(check_event_args(q) /\ ~q.stray, [Trajectory(q, "curve") EXCEPT !.closed = FALSE])
\* There are at least order control points, and order knots more than those.
nurbs_action(q) ==
  Given(check_event_args(q) /\ ~q.stray /\ q.order >= 2 /\ q.length >= q.order
          /\ q.knots = q.length + q.order,
        Trajectory(q, "curve"))

assign_controller_action(q) ==
  Given(check_event_args(q) /\ ~q.stray,
        Held(q, "assignController", [lateral |-> q.lateral, longitudinal |-> q.longitudinal,
                                     domains |-> q.domains]))
activate_controller_action(q) == Given(check_event_args(q), Aimed(q, "activateController"))
visibility_action(q) == Given(check_event_args(q), Aimed(q, "visibility"))

Named(q, kind) == [kind |-> kind, name |-> q.name, value |-> q.value, ill |-> q.ill]
set_action(q, kind) == Given(check_event_args(q), Named(q, kind))
modify_action(q, kind) == Given(check_event_args(q) /\ ~q.stray, Named(q, kind))
add_entity_action(q) ==
  Given(check_event_args(q), Held(q, "add", [position |-> At(None, q.ill)]))
delete_entity_action(q) == Given(check_event_args(q), Aimed(q, "delete"))
environment_action(q) ==
  Given(check_event_args(q) /\ ~q.stray,
        [kind |-> "environment", ill |-> q.ill,
         update |-> [weather |-> q.weather, road |-> None, timeOfDay |-> None]])
signal_action(q, kind) ==
  Given(check_event_args(q), [kind |-> kind, name |-> q.name, value |-> q.value])
custom_command_action(q) == Given(check_event_args(q), [kind |-> "custom"])

action(q) ==
  CASE q.call = "speed" -> speed_action(q)
    [] q.call = "speedProfile" -> speed_profile_action(q)
    [] q.call = "teleport" -> teleport_action(q)
    [] q.call = "laneChange" -> lane_change_action(q)
    [] q.call = "laneOffset" -> lane_offset_action(q)
    [] q.call = "lateralDistance" -> lateral_distance_action(q)
    [] q.call = "longitudinalDistance" -> longitudinal_distance_action(q)
    [] q.call = "route" -> route_action(q)
    [] q.call = "acquirePosition" -> acquire_position_action(q)
    [] q.call = "trajectory" -> trajectory_action(q)
    [] q.call = "clothoid" -> clothoid_action(q)
    [] q.call = "nurbs" -> nurbs_action(q)
    [] q.call = "assignController" -> assign_controller_action(q)
    [] q.call = "activateController" -> activate_controller_action(q)
    [] q.call = "visibility" -> visibility_action(q)
    [] q.call \in {"setVariable", "setParameter"} -> set_action(q, q.call)
    [] q.call \in {"modifyVariable", "modifyParameter"} -> modify_action(q, q.call)
    [] q.call = "addEntity" -> add_entity_action(q)
    [] q.call = "deleteEntity" -> delete_entity_action(q)
    [] q.call = "environment" -> environment_action(q)
    [] q.call \in {"signal", "phase"} -> signal_action(q, q.call)
    [] OTHER -> custom_command_action(q)

---------------------------------------------------------------------------
(* The scenario under construction.                                            *)

\* Events are added to the first maneuver; a storyboard that has no story gets
\* one. A name is a number, the event named by its place among its siblings.
WithChain(scn) ==
  IF Len(scn.elements) > 1 THEN scn
  ELSE [scn EXCEPT !.elements =
          @ \o <<Element("story", 0, 1), Element("act", 0, 2), Element("group", 0, 3),
                 Element("maneuver", 0, 4)>>]
Maneuver(scn) ==
  CHOOSE n \in DOMAIN scn.elements :
    /\ scn.elements[n].type = "maneuver"
    /\ \A k \in 1 .. n - 1 : scn.elements[k].type # "maneuver"
Events(scn) == {n \in DOMAIN scn.elements : scn.elements[n].type = "event"}
Time(q) == <<<<[expression |-> [by |-> "value", kind |-> "simulationTime", ill |-> q.late],
                delay |-> 0]>>>>
append_storyboard_event(scn, q) ==
  LET chain == WithChain(scn)
      siblings == {n \in Events(chain) : chain.elements[n].parent = Maneuver(chain)}
      event == [Element("event", Cardinality(siblings) + 1, Maneuver(chain)) EXCEPT
                  !.triggers = <<Time(q)>>, !.count = q.count, !.actions = <<action(q)>>]
  IN [chain EXCEPT !.elements = Append(@, event)]

\* What the engine makes of a scenario once it has been validated.
Described(scn) ==
  LET found == findings(scn)
      sound == [NoScenario EXCEPT
                  !.authored = scn, !.defects = found,
                  !.entities = [id \in ids(scn) |->
                    (CHOOSE e \in Range(scn.entities) : e.id = id).mode],
                  !.controllers = scn.controllers, !.variables = scn.variables,
                  !.parameters = scn.parameters, !.init = scn.init,
                  !.actions = UNION {Range(scn.elements[n].actions) : n \in Events(scn)}]
  IN IF has_errors(found) THEN [NoScenario EXCEPT !.defects = found] ELSE sound

Builder(code, changed) ==
  status' = code /\ scenario' = changed
  /\ UNCHANGED <<engine, gateway, published, value_buffer, lent, check>>

\* Memory may run out after the default chain has been added and before the event.
scn_engine_add_action(q) ==
  IF action(q) = None THEN Builder("InvalidArgument", scenario)
  ELSE \/ Builder("Ok", append_storyboard_event(scenario, q))
       \/ Builder("Internal", scenario)
       \/ Builder("Internal", WithChain(scenario))

\* A plain entity has no object, and its control mode is not checked.
scn_engine_add_entity(q) ==
  IF q.null \/ (q.object # None /\ q.stray) THEN Builder("InvalidArgument", scenario)
  ELSE Builder("Ok", [scenario EXCEPT !.entities =
                        Append(@, [id |-> q.who, mode |-> q.mode, object |-> q.object,
                                   box |-> q.box, limits |-> q.box])])
scn_engine_set_parameter(q) ==
  IF q.null THEN Builder("InvalidArgument", scenario)
  ELSE Builder("Ok", [scenario EXCEPT !.parameters = With(@, q.name, q.value)])
scn_engine_declare_variable(q) ==
  IF q.null THEN Builder("InvalidArgument", scenario)
  ELSE Builder("Ok", [scenario EXCEPT !.variables = With(@, q.name, q.value)])
\* A negative delay is no delay.
scn_engine_declare_traffic_signal_controller(q) ==
  IF q.null THEN Builder("InvalidArgument", scenario)
  ELSE Builder("Ok", [scenario EXCEPT !.controllers =
                        Append(@, [name |-> q.name, reference |-> q.ref,
                                   delay |-> IF q.delay < 0 THEN None ELSE q.delay,
                                   phases |-> q.phases])])

Declarations == {"entity", "parameter", "variable", "controller"}
Build(q) ==
  /\ q.call = "entity" => Len(scenario.entities) < MaxEntities
  /\ q.call = "controller" => Len(scenario.controllers) < MaxControllers
  /\ q.call \notin Declarations => Cardinality(Events(scenario)) < MaxEvents
  /\ CASE q.call = "entity" -> scn_engine_add_entity(q)
       [] q.call = "parameter" -> scn_engine_set_parameter(q)
       [] q.call = "variable" -> scn_engine_declare_variable(q)
       [] q.call = "controller" -> scn_engine_declare_traffic_signal_controller(q)
       [] OTHER -> scn_engine_add_action(q)

---------------------------------------------------------------------------
(* Running, loading and reading.                                               *)

Forgetting(kept) == lent' = kept /\ UNCHANGED <<value_buffer, check>>

\* The header ends the life of a diagnostic at init, step, clear, a load and
\* destroy: not at close.
scn_engine_init == init(Described(scenario)) /\ UNCHANGED scenario /\ Forgetting(None)
scn_engine_step(dt) == step(dt) /\ UNCHANGED scenario /\ Forgetting(None)
\* Mutant: close clears the diagnostics.
scn_engine_close_clearing ==
  /\ engine.initialized /\ status' = "Ok" /\ engine' = Fresh
  /\ UNCHANGED <<gateway, published, scenario>> /\ Forgetting(lent)
scn_engine_close ==
  close /\ UNCHANGED scenario /\ Forgetting(lent)
scn_engine_clear_diagnostics ==
  clear_diagnostics /\ UNCHANGED scenario /\ Forgetting(None)

scn_engine_diagnostic_at(i) ==
  /\ UNCHANGED <<engine, gateway, published, scenario, value_buffer, check>>
  /\ IF i \in DOMAIN engine.diagnostics
     THEN status' = "Ok" /\ lent' = [index |-> i, finding |-> engine.diagnostics[i]]
     ELSE status' = "InvalidArgument" /\ UNCHANGED lent

\* Mutant: what an earlier call reported is left in the list.
load_xml_uncleared(document) ==
  LET failed == has_errors(document.findings)
      outcomes == IF failed THEN {[status |-> first_error_code(document.findings),
                                   engine |-> engine]}
                  ELSE init_outcomes(engine, Described(document.scenario))
  IN /\ scenario' = IF failed THEN scenario ELSE document.scenario
     /\ \E outcome \in outcomes :
          /\ status' = outcome.status
          /\ engine' = [outcome.engine EXCEPT !.diagnostics = document.findings \o @]
     /\ published' = IF failed \/ engine.initialized THEN published ELSE <<>>
     /\ UNCHANGED gateway /\ Forgetting(None)
\* A document that fails to load leaves the scenario and the run alone; one
\* that loads replaces the scenario whether or not the engine can take it.
load_xml(document) ==
  LET failed == has_errors(document.findings)
      outcomes == IF failed THEN {[status |-> first_error_code(document.findings),
                                   engine |-> [engine EXCEPT !.diagnostics = <<>>]]}
                  ELSE init_outcomes(engine, Described(document.scenario))
  IN /\ scenario' = IF failed THEN scenario ELSE document.scenario
     /\ \E outcome \in outcomes :
          /\ status' = outcome.status
          /\ engine' = [outcome.engine EXCEPT !.diagnostics = document.findings \o @]
     /\ published' = IF failed \/ engine.initialized THEN published ELSE <<>>
     /\ UNCHANGED gateway /\ Forgetting(None)

\* The getters that hand out a string, each through the one buffer.
get_variable == Range(engine.variables)
get_user_defined_value == Range(engine.user_defined_values)
traffic_signal_state == Range(engine.signal_states)
traffic_signal_controller_phase == Range(engine.controller_phases)
entity_id_at == DOMAIN engine.entities
entity_controller_name == {0 : id \in {i \in DOMAIN engine.entities : engine.entities[i].assigned}}
Readable(getter) ==
  CASE getter = "variable" -> get_variable
    [] getter = "userDefined" -> get_user_defined_value
    [] getter = "signal" -> traffic_signal_state
    [] getter = "phase" -> traffic_signal_controller_phase
    [] getter = "entity" -> entity_id_at
    [] getter = "controller" -> entity_controller_name
read_string(getter) ==
  /\ UNCHANGED <<engine, gateway, published, scenario, check, lent>>
  /\ \/ status' = "Ok" /\ value_buffer' \in Readable(getter)
     \/ status' = "UnknownName" /\ UNCHANGED value_buffer

\* What an entity is comes from the scenario under construction.
find_entity(id) == {i \in DOMAIN scenario.entities : scenario.entities[i].id = id}
entity_metadata(id) ==
  LET found == find_entity(id)
      first == CHOOSE i \in found : \A j \in found : i <= j
  IN IF found = {} THEN "UnknownEntity"
     ELSE IF scenario.entities[first].object = None THEN "InvalidArgument" ELSE "Ok"
\* How it is comes from the engine: its pose while it runs, and what it has.
get_state(id) ==
  IF ~engine.initialized THEN "NotInitialized"
  ELSE IF id \notin DOMAIN engine.entities THEN "UnknownEntity" ELSE "Ok"
entity_visibility(id) == IF id \notin DOMAIN engine.entities THEN "UnknownEntity" ELSE "Ok"
entity_controller_type(id) ==
  IF id \notin DOMAIN engine.entities THEN "UnknownEntity"
  ELSE IF engine.entities[id].assigned THEN "Ok" ELSE "InvalidArgument"
\* No action of a builder assigns a route that the engine keeps apart from motion.
entity_route(id) ==
  IF id \notin DOMAIN engine.entities THEN {"UnknownEntity"} ELSE {"Ok", "InvalidArgument"}
ask(id) ==
  /\ status' \in {entity_metadata(id), get_state(id), entity_visibility(id),
                  entity_controller_type(id)} \cup entity_route(id)
  /\ UNCHANGED <<engine, gateway, published, handleVars>>

\* Calls that pass a value on to the engine.
scn_engine_set(name, value) ==
  /\ \/ set_variable(name, value)
     \/ set_user_defined_value(name, value)
     \/ set_traffic_signal_state(name, value)
  /\ UNCHANGED handleVars
scn_engine_set_callbacks(installed) == set_gateway(installed) /\ UNCHANGED handleVars

\* A check that could not read its source still hands out a result.
scn_check_dsl(source) ==
  /\ UNCHANGED <<engine, gateway, published, scenario, value_buffer, lent>>
  /\ IF source.null THEN status' = "InvalidArgument" /\ UNCHANGED check
     ELSE /\ check' = source.findings
          /\ status' = IF source.readable THEN first_error_code(source.findings)
                       ELSE "InvalidArgument"
scn_dsl_check_destroy ==
  check' = None /\ UNCHANGED <<vars, scenario, value_buffer, lent>>

CInit == Init /\ scenario = Blank /\ value_buffer = None /\ lent = None /\ check = None
CNext ==
  \/ \E q \in Requests : Build(q)
  \/ scn_engine_init \/ scn_engine_close \/ scn_engine_clear_diagnostics
  \/ \E dt \in Steps : scn_engine_step(dt)
  \/ \E i \in 1..2 : scn_engine_diagnostic_at(i)
  \/ \E document \in Documents : load_xml(document)
  \/ \E getter \in Getters : read_string(getter)
  \/ \E id \in {e.who : e \in Requests} \ {None} : ask(id)
  \/ \E name \in UserNames, value \in UserValues : scn_engine_set(name, value)
  \/ \E installed \in BOOLEAN : scn_engine_set_callbacks(installed)
  \/ \E source \in Sources : scn_check_dsl(source)
  \/ scn_dsl_check_destroy
CSpec == CInit /\ [][CNext]_capiVars

---------------------------------------------------------------------------
(* Properties.                                                                 *)

\* What the handle runs was authored, and only what was authored when the run
\* started: no edit, load or failure in between reaches it (scn_engine, whose
\* scenario persists across init).
Running == IF engine.initialized THEN {engine.scenario.authored} ELSE {}
Handle == INSTANCE Session WITH authored <- scenario, running <- Running, clock <- engine.now
RunsWhatWasAuthored == Handle!Spec

\* A borrowed diagnostic reads the same for as long as the host may keep it:
\* through builder calls, setters, getters and close (scn_diagnostic).
DiagnosticsStand ==
  lent # None =>
    /\ lent.index \in DOMAIN engine.diagnostics
    /\ lent.finding = engine.diagnostics[lent.index]

\* Whatever the calls and documents, a scenario the engine runs is one in which
\* no look-up of a name, a path or a reference can fail (Engine::init).
RunsRunnable == engine.initialized => Runnable(engine.scenario.authored)

\* The diagnostics after a load are those of this load, the loader's first,
\* and the status is their first error's, unless the engine was running and
\* the document could be read (scn_engine_load_xml_file).
LoadReportsItself ==
  [][\A document \in Documents :
       load_xml(document) /\ (has_errors(document.findings) \/ ~engine.initialized) =>
         /\ IsPrefix(document.findings, engine'.diagnostics)
         /\ has_errors(document.findings) => engine'.diagnostics = document.findings
         /\ status' = first_error_code(engine'.diagnostics)]_capiVars
=============================================================================
