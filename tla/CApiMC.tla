------------------------------- MODULE CApiMC -------------------------------
(***************************************************************************)
(* A host that authors one entity, one event and one controller, or loads a  *)
(* document, and runs what it has.                                           *)
(***************************************************************************)
EXTENDS CApi

Plain(call) ==
  [call |-> call, null |-> FALSE, stray |-> FALSE, ill |-> FALSE, late |-> FALSE,
   count |-> 1, priority |-> "parallel", who |-> 1, ref |-> None, name |-> 1, value |-> 1,
   dynamics |-> "ok", continuous |-> FALSE, follow |-> FALSE, closed |-> FALSE,
   lane |-> 1, frame |-> "entity", distance |-> TRUE, timeGap |-> FALSE,
   length |-> 2, order |-> 2, knots |-> 4, timing |-> "none", lateral |-> TRUE,
   longitudinal |-> FALSE, domains |-> {"lateral", "longitudinal"}, weather |-> 1,
   mode |-> "engine", object |-> "vehicle", box |-> "ok", delay |-> -1, phases |-> <<>>]

Calls == {"speed", "speedProfile", "teleport", "laneChange", "laneOffset", "lateralDistance",
          "longitudinalDistance", "route", "acquirePosition", "trajectory", "clothoid", "nurbs",
          "assignController", "activateController", "visibility", "setVariable", "setParameter",
          "modifyVariable", "modifyParameter", "addEntity", "deleteEntity", "environment",
          "signal", "phase", "custom"}
ReferringCalls == {"speed", "teleport", "laneChange", "lateralDistance", "longitudinalDistance"}
Lights == <<[name |-> 1, duration |-> 1, states |-> 1 :> 1],
            [name |-> 2, duration |-> 1, states |-> 1 :> 0]>>

HostRequests ==
  {Plain(call) : call \in Calls \cup {"variable", "parameter", "entity"}}
  \cup {[Plain(call) EXCEPT !.ref = 1] : call \in ReferringCalls}
  \cup {[Plain(call) EXCEPT !.ref = 2] : call \in ReferringCalls}
  \cup {[Plain("speed") EXCEPT !.null = TRUE], [Plain("speed") EXCEPT !.count = -1],
        [Plain("laneChange") EXCEPT !.stray = TRUE], [Plain("speed") EXCEPT !.late = TRUE],
        [Plain("signal") EXCEPT !.priority = Stray], [Plain("route") EXCEPT !.length = 1],
        [Plain("nurbs") EXCEPT !.knots = 3], [Plain("teleport") EXCEPT !.ill = TRUE],
        [Plain("longitudinalDistance") EXCEPT !.timeGap = TRUE, !.ref = 1],
        [Plain("entity") EXCEPT !.mode = "host", !.object = None],
        [Plain("entity") EXCEPT !.box = "ill"], [Plain("entity") EXCEPT !.stray = TRUE],
        [Plain("controller") EXCEPT !.phases = Lights],
        [Plain("controller") EXCEPT !.ref = 1, !.delay = 1]}

\* A document with one event whose name is the one the next event would get,
\* one that is rejected, one that cannot be read, and one with an init action
\* on an entity it does not declare.
Loaded ==
  [Blank EXCEPT
     !.entities = <<[id |-> 1, mode |-> "engine", object |-> None, box |-> "ok", limits |-> "ok"]>>,
     !.elements = WithChain(Blank).elements
                    \o <<[Element("event", 2, 5) EXCEPT !.actions = <<[kind |-> "custom"]>>]>>]
Stranger == [Blank EXCEPT !.init = <<visibility_action(Plain("visibility"))>>]
HostDocuments ==
  {[findings |-> <<Warning("UnsupportedFeature")>>, scenario |-> Loaded],
   [findings |-> <<>>, scenario |-> Stranger],
   [findings |-> <<Error("ParseError")>>, scenario |-> Blank]}
HostSources ==
  {[null |-> FALSE, readable |-> TRUE, findings |-> <<Error("SemanticError")>>],
   [null |-> FALSE, readable |-> FALSE, findings |-> <<>>],
   [null |-> TRUE, readable |-> TRUE, findings |-> <<>>]}

\* The host authors an entity or a declaration, and an event; it edits what it
\* has loaded, or what runs, by one custom command; it loads a document before
\* it has authored two things. Sources are checked and values staged for a blank
\* scenario, callbacks installed for a loaded one.
Size(scn) ==
  Len(scn.entities) + Len(scn.controllers) + Cardinality(DOMAIN scn.variables)
  + Cardinality(DOMAIN scn.parameters) + Cardinality(Events(scn))
Idle == scenario' = Blank /\ ~engine'.initialized /\ engine'.diagnostics = <<>>
Sound(scn) == \A i \in DOMAIN scn.entities :
                scn.entities[i].object # None /\ scn.entities[i].box = "ok"
WithCustom(scn) == append_storyboard_event(scn, Plain("custom"))
Edits ==
  \/ scenario' = scenario
  \/ scenario' \in {Loaded, Stranger} /\ Size(scenario) <= 1
  \/ scenario' = WithCustom(scenario) /\ (Size(scenario) <= 1 \/ scenario = Loaded)
  \/ /\ ~engine.initialized /\ scenario.init = <<>> /\ scenario # Loaded
     /\ Size(scenario') <= 2 /\ Cardinality(Events(scenario')) <= 1
     /\ Len(scenario'.elements) > 5 => Sound(scenario')
Small ==
  /\ Edits
  /\ check' # None \/ engine'.user_defined_values # <<>> \/ status' = "Internal" => Idle
  /\ gateway' => scenario' = Loaded
  /\ Text \notin Range(engine'.variables)
  /\ 1 \in DOMAIN engine'.signal_states /\ engine'.scenario.actions = {} =>
       engine'.controller_phases # <<>>
  /\ Len(engine'.diagnostics) <= 2
  /\ status' \in {"ParseError", "AlreadyInitialized"} => Size(scenario) <= 1
MCNext == CNext /\ Small
MCSpec == CInit /\ [][MCNext]_capiVars
=============================================================================
