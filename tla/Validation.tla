----------------------------- MODULE Validation -----------------------------
(***************************************************************************)
(* What Engine::init asks of a scenario before it runs it.  A scenario is a  *)
(* record of its entities, controllers, named values, init actions and the   *)
(* elements of its storyboard in document order, the storyboard first; a     *)
(* check returns the findings in the order the code reports them.  A number  *)
(* is either in the range the standard gives it or "ill".                     *)
(***************************************************************************)
EXTENDS Ir

Text == -1      \* a value that does not read as a number

ids(scn) == {scn.entities[i].id : i \in DOMAIN scn.entities} \ {None}
unknown(scn, refs) == refs \ ids(scn) # {}
controller_at(controllers, name) == {i \in DOMAIN controllers : controllers[i].name = name}

named_apart(names, i) ==
  When(names[i] = None \/ \E j \in 1 .. i - 1 : names[j] = names[i], Error("ValidationError"))

---------------------------------------------------------------------------
(* Entities and traffic signal controllers.                                   *)

validate_entities(entities) ==
  FlattenSeq([i \in DOMAIN entities |->
    LET entity == entities[i]
        repeated == \E j \in 1 .. i - 1 : entities[j].id = entity.id
    IN IF entity.id = None \/ repeated THEN <<Error("ValidationError")>>
       ELSE When(entity.object # None /\ entity.box = "ill", Error("ValidationError"))
            \o When(entity.object = "vehicle" /\ entity.limits = "ill", Error("ValidationError"))])

\* Mutant: a chain is followed for one hop.
reference_cyclic_shallow(controllers, c) == controllers[c].reference = controllers[c].name
\* Following the references of a declared one visits more controllers than there are.
reference_cyclic(controllers, c) ==
  LET named(i) == controller_at(controllers, controllers[i].reference)
      leads(i) == controllers[i].reference # None /\ named(i) # {}
      next(i) == CHOOSE j \in named(i) : \A k \in named(i) : j <= k
      walk[hops \in 0 .. Len(controllers) + 1] ==
        IF hops = 0 THEN c
        ELSE IF walk[hops - 1] # 0 /\ leads(walk[hops - 1]) THEN next(walk[hops - 1]) ELSE 0
  IN walk[Len(controllers) + 1] # 0

validate_phases(phases) ==
  FlattenSeq([i \in DOMAIN phases |->
    LET phase == phases[i]
    IN named_apart([j \in DOMAIN phases |-> phases[j].name], i)
       \o When(phase.duration < 0, Error("ValidationError"))
       \o When(None \in DOMAIN phase.states, Error("ValidationError"))])

validate_traffic_signals(controllers) ==
  FlattenSeq([i \in DOMAIN controllers |->
    LET c == controllers[i]
        length == FoldLeft(LAMBDA sum, p : IF p.duration > 0 THEN sum + p.duration ELSE sum,
                           0, c.phases)
    IN named_apart([j \in DOMAIN controllers |-> controllers[j].name], i)
       \o When(c.delay # None /\ c.reference = None, Error("ValidationError"))
       \o When(c.delay = -1, Error("ValidationError"))
       \o (IF c.reference = None THEN <<>>
           ELSE IF c.reference = c.name THEN <<Error("ValidationError")>>
           ELSE IF controller_at(controllers, c.reference) = {} THEN <<Error("SemanticError")>>
           ELSE When(reference_cyclic(controllers, i), Error("ValidationError")))
       \o validate_phases(c.phases)
       \o When(c.phases # <<>> /\ length = 0, Warning("UnsupportedFeature"))])

\* The phase of a controller an action or a condition names.
validate_phase(scn, name, phase) ==
  LET found == controller_at(scn.controllers, name)
      first == CHOOSE i \in found : \A j \in found : i <= j
      phases == scn.controllers[first].phases
  IN When(found = {} \/ \A p \in DOMAIN phases : phases[p].name # phase, Error("SemanticError"))

---------------------------------------------------------------------------
(* Actions.                                                                    *)

GlobalKinds == {"phase", "signal", "environment", "add", "delete", "setVariable",
                "modifyVariable", "setParameter", "modifyParameter", "custom"}

validate_position(scn, p) ==
  CASE p.frame = "road" -> <<>>
    [] p.frame = "world" -> When(p.ill, Error("ValidationError"))
    [] OTHER -> When(unknown(scn, {p.ref}), Error("SemanticError"))
                \o When(p.ill, Error("ValidationError"))

\* A named value an action writes has to be declared.
validate_value(scn, a) ==
  LET declared == IF a.kind \in {"setVariable", "modifyVariable"}
                  THEN DOMAIN scn.variables ELSE DOMAIN scn.parameters
  IN When(a.name \notin declared, Error("SemanticError")) \o When(a.ill, Error("ValidationError"))

\* A speed relative to an entity may be kept up, but not reached within a given
\* time or distance then.
validate_speed(scn, a) ==
  When(a.dynamics = "ill", Error("ValidationError"))
  \o (IF a.ref = None THEN When(a.follow /\ a.above, Warning("ValidationError"))
      ELSE When(unknown(scn, {a.ref}), Error("SemanticError"))
           \o When(a.ill, Error("ValidationError"))
           \o When(a.continuous /\ a.dynamics = "timed", Error("ValidationError")))

validate_speed_profile(scn, a) ==
  When(a.entries = 0, Error("ValidationError"))
  \o When(a.ref # None /\ unknown(scn, {a.ref}), Error("SemanticError"))
  \o When(a.ill, Error("ValidationError"))
  \o When(a.ref = None /\ a.follow /\ a.above, Warning("ValidationError"))

validate_longitudinal_distance(scn, a) ==
  When(unknown(scn, {a.ref}), Error("SemanticError"))
  \o When(a.distance = a.timeGap, Error("ValidationError"))
  \o When(a.ill, Error("ValidationError"))
  \o When(a.frame \in {"lane", "road", "trajectory"}, Warning("UnsupportedFeature"))

validate_lateral_distance(scn, a) ==
  When(unknown(scn, {a.ref}), Error("SemanticError"))
  \o When(a.ill, Error("ValidationError"))
  \o When(a.frame \in {"lane", "road", "trajectory"}, Warning("UnsupportedFeature"))

\* A lane change is to a lane of its own or to one counted from an entity's.
validate_lane_change(scn, a) ==
  When(a.dynamics = "ill", Error("ValidationError"))
  \o When(a.step /\ a.dynamics # "none", Error("ValidationError"))
  \o When(a.ill, Error("ValidationError"))
  \o (IF a.ref # None THEN When(unknown(scn, {a.ref}), Error("SemanticError"))
      ELSE When(a.lane = None, Error("ValidationError")))

validate_lane_offset(scn, a) ==
  When(a.ref # None /\ unknown(scn, {a.ref}), Error("SemanticError"))
  \o When(a.ill, Error("ValidationError"))

\* A polyline needs its vertices, a curve an evaluator; a trajectory that is
\* timed needs times, one that is not may start anywhere on it.
IllCurve(a) == a.shape = "curve" /\ a.ill
validate_trajectory(a) ==
  IF a.shape = "polyline" /\ a.vertices < 2 THEN <<Error("ValidationError")>>
  ELSE When(a.ill, Error("ValidationError"))
       \o When(a.timing = "untimed" /\ ~IllCurve(a), Error("ValidationError"))
       \o When(a.offset = "beyond" /\ ~IllCurve(a), Error("ValidationError"))
       \o When(a.closed, Warning("UnsupportedFeature"))
       \o When(a.follow, Warning("UnsupportedFeature"))

validate_controller(a) ==
  When(a.lateral /\ "lateral" \notin a.domains, Error("ValidationError"))
  \o When(a.longitudinal /\ "longitudinal" \notin a.domains, Error("ValidationError"))

\* Mutant: what an action refers to beside its entity is not looked up.
validate_action_content_shallow(scn, a) ==
  CASE a.kind = "phase" -> validate_phase(scn, a.name, a.value)
    [] a.kind \in {"add", "delete"} -> When(unknown(scn, {a.who}), Error("SemanticError"))
    [] OTHER -> <<>>
validate_action_content(scn, a) ==
  CASE a.kind = "phase" -> validate_phase(scn, a.name, a.value)
    [] a.kind = "environment" -> When(a.ill, Error("ValidationError"))
    [] a.kind = "add" -> When(unknown(scn, {a.who}), Error("SemanticError"))
                         \o validate_position(scn, a.position)
    [] a.kind = "delete" -> When(unknown(scn, {a.who}), Error("SemanticError"))
    [] a.kind \in {"setVariable", "modifyVariable", "setParameter", "modifyParameter"} ->
         validate_value(scn, a)
    [] a.kind = "setSpeed" -> validate_speed(scn, a)
    [] a.kind = "speedProfile" -> validate_speed_profile(scn, a)
    [] a.kind \in {"teleport", "acquire"} -> validate_position(scn, a.position)
    [] a.kind = "keepGap" -> validate_longitudinal_distance(scn, a)
    [] a.kind = "keepLateral" -> validate_lateral_distance(scn, a)
    [] a.kind = "laneChange" -> validate_lane_change(scn, a)
    [] a.kind = "laneOffset" -> validate_lane_offset(scn, a)
    [] a.kind = "route" -> When(a.waypoints < 2, Error("ValidationError"))
                           \o When(a.ill, Error("ValidationError"))
    [] a.kind = "trajectory" -> validate_trajectory(a)
    [] a.kind = "assignController" -> validate_controller(a)
    [] OTHER -> <<>>

validate_action(scn, a) ==
  IF a = None THEN <<Error("ValidationError")>>
  ELSE When(a.kind \notin GlobalKinds /\ unknown(scn, {a.who}), Error("SemanticError"))
       \o validate_action_content(scn, a)

---------------------------------------------------------------------------
(* Conditions.                                                                 *)

\* The names of an element and of what holds it, outwards; the storyboard has none.
Chain(scn, n) ==
  LET names[m \in DOMAIN scn.elements] ==
        IF m = 1 THEN <<>> ELSE <<scn.elements[m].name>> \o names[scn.elements[m].parent]
  IN names[n]

\* The last segment is the element's name, the one before it its parent's.
element_ref_matches(segments, chain) ==
  segments # <<>> /\ IsPrefix(Reverse(segments), chain)

matching(scn, type, segments) ==
  {n \in DOMAIN scn.elements \ {1} :
     scn.elements[n].type = type /\ element_ref_matches(segments, Chain(scn, n))}

\* Mutant: a reference may be ambiguous.
validate_element_ref_any(scn, c) ==
  When(matching(scn, c.type, c.segments) = {}, Error("SemanticError"))
validate_element_ref(scn, c) ==
  IF c.type = "action" THEN <<Warning("UnsupportedFeature")>>
  ELSE When(c.state = "skipTransition" /\ c.type # "event", Warning("UnsupportedFeature"))
       \o When(Cardinality(matching(scn, c.type, c.segments)) # 1, Error("SemanticError"))

\* An ordering of values that are not numbers is never satisfied.
warn_if_ordering_non_numeric(c, stored) ==
  When(c.ordering /\ Text \in {stored, c.literal}, Warning("UnsupportedFeature"))

warn_interaction_modes(c) ==
  When("alongRoute" \in c.modes, Warning("DeprecatedFeature"))
  \o When("cartesian" \in c.modes, Warning("DeprecatedFeature"))
  \o When("road" \in c.modes, Warning("UnsupportedFeature"))

\* By-value conditions: the value, the controller or the element they read.
validate_by_value(scn, c) ==
  CASE c.kind = "parameter" ->
         IF c.name \notin DOMAIN scn.parameters THEN <<Error("SemanticError")>>
         ELSE warn_if_ordering_non_numeric(c, scn.parameters[c.name])
    [] c.kind = "variable" ->
         IF c.name \notin DOMAIN scn.variables THEN <<Error("SemanticError")>>
         ELSE warn_if_ordering_non_numeric(c, scn.variables[c.name])
    [] c.kind = "userDefined" -> warn_if_ordering_non_numeric(c, 0)
    [] c.kind \in {"simulationTime", "timeOfDay"} -> When(c.ill, Error("ValidationError"))
    [] c.kind = "phase" -> validate_phase(scn, c.name, c.value)
    [] c.kind = "element" -> validate_element_ref(scn, c)
    [] OTHER -> <<>>

\* By-entity conditions: the triggering entities and those they are held against.
RoadBound == {"endOfRoad", "offroad", "clearance"}
validate_by_entity(scn, c) ==
  LET referred == When(unknown(scn, c.refs), Error("SemanticError"))
      ranged == When(c.ill, Error("ValidationError"))
  IN When(c.triggering = {}, Error("ValidationError"))
     \o When(unknown(scn, c.triggering), Error("SemanticError"))
     \o (IF c.kind = "relativeSpeed" THEN referred \o ranged ELSE ranged \o referred)
     \o When(c.kind = "reachPosition", Warning("DeprecatedFeature"))
     \o warn_interaction_modes(c)
     \o When(c.kind \in RoadBound, Warning("UnsupportedFeature"))

validate_condition_expression(scn, c) ==
  IF c.by = "value" THEN validate_by_value(scn, c) ELSE validate_by_entity(scn, c)

\* A trigger is a disjunction of groups, a group a conjunction of conditions.
validate_trigger(scn, trigger) ==
  LET condition(c) ==
        When(c.expression = None, Error("ValidationError"))
        \o When(c.delay < 0, Error("ValidationError"))
        \o (IF c.expression = None THEN <<>>
            ELSE validate_condition_expression(scn, c.expression))
  IN EachOf(trigger, LAMBDA group : IF group = <<>> THEN <<Error("ValidationError")>>
                                    ELSE EachOf(group, condition))

---------------------------------------------------------------------------
(* The storyboard and the scenario.                                            *)

Children(scn, n) == {m \in DOMAIN scn.elements \ {1} : scn.elements[m].parent = n}
check_sibling_names(scn, n) ==
  EachOf([m \in DOMAIN scn.elements |-> m], LAMBDA m :
    When(/\ m \in Children(scn, n)
         /\ \/ scn.elements[m].name = None
            \/ \E k \in Children(scn, n) :
                 k < m /\ scn.elements[k].name = scn.elements[m].name,
         Error("ValidationError")))

validate_element(scn, n) ==
  LET element == scn.elements[n]
  IN check_sibling_names(scn, n)
     \o EachOf(element.triggers, LAMBDA trigger : validate_trigger(scn, trigger))
     \o When(element.count < 0, Error("ValidationError"))
     \o EachOf(element.actors, LAMBDA who : When(unknown(scn, {who}), Error("SemanticError")))
     \o (IF element.type # "event" THEN <<>>
         ELSE When(element.actions = <<>>, Error("ValidationError"))
              \o EachOf(element.actions, LAMBDA a : validate_action(scn, a)))
validate_storyboard(scn) ==
  EachOf([n \in DOMAIN scn.elements |-> n], LAMBDA n : validate_element(scn, n))

\* Mutant: the init actions are trusted.
findings_trusting_init(scn) ==
  validate_entities(scn.entities) \o validate_traffic_signals(scn.controllers)
  \o validate_storyboard(scn)
findings(scn) ==
  validate_entities(scn.entities)
  \o EachOf(scn.init, LAMBDA a : validate_action(scn, a))
  \o validate_traffic_signals(scn.controllers)
  \o validate_storyboard(scn)

---------------------------------------------------------------------------
(* What a run takes for granted.                                               *)

Private(a) == a.kind \notin GlobalKinds
Fields(a, names) == {a[f] : f \in names \cap DOMAIN a} \ {None}
Moves(a) == "position" \in DOMAIN a /\ a.position.frame \in {"object", "relative"}

\* An action that keeps a distance is nothing without the entity it keeps it to.
Keeping == {"keepGap", "keepLateral"}

\* The entities an action refers to, the one it is for and those beside it.
Entities(a) ==
  (IF Private(a) \/ a.kind \in {"add", "delete"} THEN {a.who} ELSE {})
  \cup (IF a.kind \in Keeping THEN {a.ref} ELSE Fields(a, {"ref"}))
  \cup (IF Moves(a) THEN {a.position.ref} ELSE {})
NamesValue(scn, a) ==
  CASE a.kind \in {"setVariable", "modifyVariable", "variable"} -> a.name \in DOMAIN scn.variables
    [] a.kind \in {"setParameter", "modifyParameter", "parameter"} ->
         a.name \in DOMAIN scn.parameters
    [] OTHER -> TRUE
\* The first controller of the name is the one that is meant (engine.cpp:231-239).
NamesPhase(scn, a) ==
  a.kind = "phase" =>
    \E i \in DOMAIN scn.controllers :
      /\ scn.controllers[i].name = a.name
      /\ \A j \in 1 .. i - 1 : scn.controllers[j].name # a.name
      /\ a.value \in {p.name : p \in Range(scn.controllers[i].phases)}
NamesElement(scn, c) ==
  c.kind = "element" /\ c.type # "action" =>
    \E n \in DOMAIN scn.elements : matching(scn, c.type, c.segments) = {n}

AllActions(scn) ==
  Range(scn.init) \cup UNION {Range(element.actions) : element \in Range(scn.elements)}
AllConditions(scn) ==
  {c.expression : c \in UNION {Range(group) :
     group \in UNION {Range(trigger) :
       trigger \in UNION {Range(element.triggers) : element \in Range(scn.elements)}}}} \ {None}
Actors(scn) == UNION {Range(element.actors) : element \in Range(scn.elements)}

\* Every entity, value, phase and element that is referred to is there.
Resolves(scn) ==
  /\ Actors(scn) \subseteq ids(scn)
  /\ \A a \in AllActions(scn) \ {None} :
       Entities(a) \subseteq ids(scn) /\ NamesValue(scn, a) /\ NamesPhase(scn, a)
  /\ \A c \in AllConditions(scn) :
       /\ c.by = "entity" => c.triggering \cup c.refs \subseteq ids(scn)
       /\ c.by = "value" => NamesValue(scn, c) /\ NamesPhase(scn, c) /\ NamesElement(scn, c)
  /\ {c.reference : c \in Range(scn.controllers)} \ {None}
       \subseteq {c.name : c \in Range(scn.controllers)}

\* What the types of the representation say of a scenario: its lists are lists,
\* the elements of its storyboard a tree, and an action or a condition has the
\* references of its kind.
Listed(s) == s \in Seq(Range(s))
Referring == {"setSpeed", "speedProfile", "laneChange", "laneOffset"} \cup Keeping
TypedAction(a) ==
  /\ a.kind \notin {"variable", "parameter"}
  /\ "ref" \in DOMAIN a <=> a.kind \in Referring
  /\ "position" \in DOMAIN a <=> a.kind \in {"teleport", "acquire", "add"}
  /\ "position" \in DOMAIN a => a.position.frame \in {"world", "road", "relative", "object"}
TypedCondition(c) ==
  /\ c.by \in {"value", "entity"}
  /\ c.by = "value" =>
       c.kind \notin {"setVariable", "modifyVariable", "setParameter", "modifyParameter"}
TypedElement(scn, n) ==
  LET element == scn.elements[n]
  IN /\ n # 1 => element.parent \in 1 .. n - 1
     /\ Listed(element.triggers) /\ Listed(element.actors) /\ Listed(element.actions)
     /\ \A trigger \in Range(element.triggers) :
          Listed(trigger) /\ \A group \in Range(trigger) : Listed(group)
     /\ element.type # "event" => element.actions = <<>>
Formed(scn) ==
  /\ Listed(scn.entities) /\ Listed(scn.init) /\ Listed(scn.controllers) /\ Listed(scn.elements)
  /\ \A c \in Range(scn.controllers) : Listed(c.phases)
  /\ \A n \in DOMAIN scn.elements : TypedElement(scn, n)
  /\ \A a \in AllActions(scn) \ {None} : TypedAction(a)
  /\ \A c \in AllConditions(scn) : TypedCondition(c)

\* No action is missing, no chain of controllers leads back to its start, and
\* the path of an element is its own.
Runnable(scn) ==
  /\ Resolves(scn)
  /\ None \notin AllActions(scn)
  /\ \A ring \in (SUBSET DOMAIN scn.controllers) \ {{}} :
       \E i \in ring : \A j \in ring : scn.controllers[i].reference # scn.controllers[j].name
  /\ \A m, n \in DOMAIN scn.elements \ {1} :
       m # n => Chain(scn, m) # Chain(scn, n)
=============================================================================
