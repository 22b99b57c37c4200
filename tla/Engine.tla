------------------------------- MODULE Engine -------------------------------
(***************************************************************************)
(* The life of an engine as its host sees it: init runs a scenario's init   *)
(* actions and the evaluation at t = 0, step advances the clock, polls the  *)
(* host, refreshes the derived observations, ticks the signal controllers,  *)
(* evaluates the storyboard, integrates and publishes, close lets go of the *)
(* run. Which action the storyboard fires is left open (Scheduler says      *)
(* when): at most one of the scenario's actions per evaluation. Motion is   *)
(* along one road, in whole metres and seconds.                             *)
(***************************************************************************)
EXTENDS Validation, TLC

CONSTANTS
  Scenarios,   \* the scenarios a host may load
  UserNames, UserValues,   \* the named values a host may supply
  Epochs,      \* the instants a host may anchor the time of day at
  LaneWidths,  \* the lane widths a host may set
  HostStates,  \* the states a host may report
  Steps,       \* the durations a host may step by
  HasRoads,    \* whether a gateway brings a road network
  RoadLength,  \* the road the gateway answers for covers 0 .. RoadLength
  MaxSpeed,    \* the performance limit of every entity
  MaxTime      \* bound on the simulation time

ASSUME StepsAssumption == Steps \subseteq Int
ASSUME RoadAssumption == RoadLength \in Nat /\ MaxSpeed \in Nat /\ MaxTime \in Nat
\* No phase lasts, and no controller waits, for less than no time (init asks for
\* both); init actions run one after the other. What is absent is not a number.
\* The name of a controller stands for its place in the order of their names.
ASSUME ScenariosAssumption ==
  /\ None \notin Nat
  /\ \A scn \in Scenarios :
       /\ scn.init \in Seq(Range(scn.init))
       /\ scn.controllers \in Seq(Range(scn.controllers))
       /\ \A c \in Range(scn.controllers) :
            /\ c.name \in Int /\ c.delay \in Optional(Nat)
            /\ c.phases \in Seq(Range(c.phases))
            /\ \A p \in Range(c.phases) : p.duration \in Nat

VARIABLES
  engine,      \* the members of the engine that are not the gateway
  gateway,     \* whether a gateway is attached
  published,   \* what the gateway has last been told of each entity
  status       \* what the last call returned
vars == <<engine, gateway, published, status>>

DefaultLaneWidth == 0
NoScenario == [authored |-> None, entities |-> <<>>, controllers |-> <<>>, variables |-> <<>>,
               parameters |-> <<>>, init |-> <<>>, actions |-> {}, defects |-> <<>>]
NoEnvironment == [weather |-> None, road |-> None, timeOfDay |-> None]
NoDate == [set |-> FALSE, epoch |-> 0, sim |-> 0, animated |-> TRUE]

Fresh ==
  [initialized |-> FALSE, scenario |-> NoScenario, now |-> 0, last_dt |-> 0,
   entities |-> <<>>, variables |-> <<>>, parameter_overrides |-> <<>>,
   user_defined_values |-> <<>>, date |-> NoDate, lane_width |-> DefaultLaneWidth,
   environment |-> NoEnvironment, signal_states |-> <<>>, controller_phases |-> <<>>,
   signal_controllers |-> <<>>, warned |-> {}, diagnostics |-> <<>>]

Over(f, g) == [y \in DOMAIN f \cup DOMAIN g |-> IF y \in DOMAIN f THEN f[y] ELSE g[y]]
With(f, x, v) == Over([y \in {x} |-> v], f)
Lookup(f, x) == IF x \in DOMAIN f THEN f[x] ELSE None
Clamp(v, high) == IF v > high THEN high ELSE v

warn_once(e, path, code) ==
  IF path \in e.warned THEN e
  ELSE [e EXCEPT !.warned = @ \cup {path}, !.diagnostics = Append(@, Warning(code))]

---------------------------------------------------------------------------
(* Traffic signal controllers. A scenario declares them as a sequence of     *)
(* [name, reference, delay, phases], a phase as [name, duration, states].    *)

find_controller(controllers, name) ==
  LET found == {i \in DOMAIN controllers : controllers[i].name = name}
  IN IF found = {} THEN 0 ELSE CHOOSE i \in found : \A j \in found : i <= j

\* Where each phase ends, counted from the start of the cycle; the last end is
\* the length of the cycle.
Cumulative(phases) ==
  LET sum[i \in 0..Len(phases)] == IF i = 0 THEN 0 ELSE sum[i - 1] + phases[i].duration
  IN sum
Total(phases) == Cumulative(phases)[Len(phases)]

\* Mutant: a phase owns its end, as a trajectory segment does.
phase_index_closed(phases, at) ==
  LET ends == Cumulative(phases)
  IN CHOOSE i \in DOMAIN phases : /\ i = Len(phases) \/ at <= ends[i]
                                  /\ \A j \in 1..(i - 1) : ends[j] < at
\* The first phase that has not ended, or the last: a phase owns its start and
\* not its end, and a phase of no duration owns nothing.
phase_index(phases, at) ==
  LET ends == Cumulative(phases)
  IN CHOOSE i \in DOMAIN phases : /\ i = Len(phases) \/ at < ends[i]
                                  /\ \A j \in 1..(i - 1) : ends[j] <= at

\* The delays up the chain of references; Len(controllers) hops reach its end
\* because validation has rejected cycles.
StartOffset(controllers, c) ==
  LET chained(at) == at # 0 /\ controllers[at].reference # None /\ controllers[at].delay # None
      up(at) == find_controller(controllers, controllers[at].reference)
      walk[i \in 0..Len(controllers)] ==
        IF i = 0 THEN [at |-> c, sum |-> 0]
        ELSE LET last == walk[i - 1]
             IN IF chained(last.at)
                THEN [at |-> up(last.at), sum |-> last.sum + controllers[last.at].delay]
                ELSE last
  IN walk[Len(controllers)].sum

SignalClocks(controllers) ==
  [name \in {controllers[i].name : i \in DOMAIN controllers} |->
     LET i == find_controller(controllers, name)
     IN [phases |-> controllers[i].phases, anchor |-> StartOffset(controllers, i),
         applied |-> None]]

\* What controllers write that enter a phase, entered[name] being its index:
\* they do it in the order of their names, numbers here, so of two that drive
\* one signal the greater has the last word.
apply_signal_phase(e, entered) ==
  LET phase == [n \in DOMAIN entered |-> e.signal_controllers[n].phases[entered[n]]]
      drivers(s) == {n \in DOMAIN entered : s \in DOMAIN phase[n].states}
      driven == UNION {DOMAIN phase[n].states : n \in DOMAIN entered}
  IN [e EXCEPT
        !.signal_states = Over([s \in driven |-> phase[Max(drivers(s))].states[s]], @),
        !.controller_phases = Over([n \in DOMAIN entered |-> phase[n].name], @),
        !.signal_controllers = [n \in DOMAIN @ |->
           IF n \in DOMAIN entered THEN [@[n] EXCEPT !.applied = entered[n]] ELSE @[n]]]

\* The phase a controller is in at t, if its first phase has started: a cycle of
\* no length holds its first.
Started(clock, t) == clock.phases # <<>> /\ clock.anchor <= t
Current(clock, t) ==
  LET total == Total(clock.phases)
  IN IF total > 0 THEN phase_index(clock.phases, (t - clock.anchor) % total) ELSE 1

\* Mutant: the states of the phase are written again at every tick.
EnteredAlways(clocks, t) == {n \in DOMAIN clocks : Started(clocks[n], t)}
Entered(clocks, t) ==
  {n \in DOMAIN clocks : Started(clocks[n], t) /\ clocks[n].applied # Current(clocks[n], t)}
advance_signal_controllers(e, t) ==
  apply_signal_phase(e, [n \in Entered(e.signal_controllers, t) |->
                           Current(e.signal_controllers[n], t)])

---------------------------------------------------------------------------
(* Entities: the record of each and its derived observations.                *)

Sample(r) == [x |-> r.x, speed |-> r.speed]
NewRecord(mode) ==
  [mode |-> mode, active |-> TRUE, x |-> 0, speed |-> 0, keeps_gap |-> FALSE,
   assigned |-> FALSE, visible |-> 1, has_prev |-> FALSE, prev |-> [x |-> 0, speed |-> 0],
   acceleration |-> None, traveled |-> 0, standstill |-> 0, end_of_road |-> 0, offroad |-> 0]

WithRecord(e, id, record) == [e EXCEPT !.entities[id] = record]

Observed(r, dt, road) ==
  LET moved == IF r.x >= r.prev.x THEN r.x - r.prev.x ELSE r.prev.x - r.x
      on == r.x \in 0..RoadLength
      timed == [r EXCEPT !.acceleration = (r.speed - r.prev.speed),
                         !.traveled = @ + moved,
                         !.standstill = IF r.speed = 0 THEN @ + dt ELSE 0]
      placed == [timed EXCEPT !.offroad = IF on THEN 0 ELSE @ + dt,
                              !.end_of_road = IF on /\ r.x = RoadLength THEN @ + dt ELSE 0]
      derived == IF ~r.has_prev THEN r ELSE IF road THEN placed ELSE timed
  IN IF ~r.active THEN r
     ELSE [derived EXCEPT !.prev = Sample(r), !.has_prev = TRUE]

refresh_observations(e, dt) ==
  [e EXCEPT !.entities = [id \in DOMAIN @ |-> Observed(@[id], dt, gateway /\ HasRoads)]]

deactivate_entity(r) ==
  [r EXCEPT !.active = FALSE, !.keeps_gap = FALSE, !.assigned = FALSE, !.visible = 1,
            !.has_prev = FALSE, !.acceleration = None, !.traveled = 0, !.standstill = 0]

\* Mutant: the baseline of the differences is not seeded.
activate_entity_unseeded(r, x) ==
  [r EXCEPT !.active = TRUE, !.x = x, !.speed = 0, !.has_prev = TRUE]
activate_entity(r, x) ==
  [r EXCEPT !.active = TRUE, !.x = x, !.speed = 0,
            !.prev = [x |-> x, speed |-> 0], !.has_prev = TRUE]

\* A continuous LongitudinalDistanceAction whose reference is far ahead: the
\* command is bounded by an acceleration of one and by the performance limit.
drive_distance_keeping(e, r) ==
  [r EXCEPT !.keeps_gap = TRUE, !.speed = Clamp(@ + e.last_dt, MaxSpeed)]

---------------------------------------------------------------------------
(* What an action does when the storyboard, or init, fires it.               *)

\* The record an action drives: none, and one warning, when its entity has left
\* the scenario; none, and a warning each time, when there is no such entity.
record_for(e, a, driven) ==
  IF a.who \notin DOMAIN e.entities
  THEN [e EXCEPT !.diagnostics = Append(@, Warning("UnknownEntity"))]
  ELSE IF e.entities[a.who].active THEN WithRecord(e, a.who, driven)
  ELSE warn_once(e, <<"entities", a.who>>, "UnknownEntity")

\* The store is a member of the engine, "variables" or "parameter_overrides".
modify_named_value(e, store, name, by) ==
  IF e[store][name] = Text THEN warn_once(e, <<store, name>>, "UnsupportedFeature")
  ELSE [e EXCEPT ![store][name] = @ + by]

\* A deprecated parameter action works on an overlay of the declared value.
parameter_slot(e, name) ==
  [warn_once(e, <<"parameters", name>>, "DeprecatedFeature") EXCEPT
     !.parameter_overrides =
       IF name \in DOMAIN @ THEN @ ELSE With(@, name, e.scenario.parameters[name])]

RestartPhase(e, name, phase) ==
  LET clock == e.signal_controllers[name]
      named == {i \in DOMAIN clock.phases : clock.phases[i].name = phase}
      index == CHOOSE i \in named : \A j \in named : i <= j
      start == e.now - Cumulative(clock.phases)[index - 1]
  IN IF name \notin DOMAIN e.signal_controllers \/ named = {} THEN e
     ELSE apply_signal_phase([e EXCEPT !.signal_controllers[name].anchor = start],
                             [n \in {name} |-> index])

MergeEnvironment(e, a) ==
  LET merged == [part \in DOMAIN e.environment |->
                   IF a.update[part] # None THEN a.update[part] ELSE e.environment[part]]
      time == a.update.timeOfDay
      anchored == [set |-> TRUE, epoch |-> time.epoch, sim |-> e.now, animated |-> time.animated]
  IN [e EXCEPT !.environment = merged, !.date = IF time = None THEN @ ELSE anchored]

apply(e, a) ==
  LET r == e.entities[a.who]
  IN CASE a.kind = "setSpeed" -> record_for(e, a, [r EXCEPT !.speed = a.value])
       [] a.kind = "keepGap" -> record_for(e, a, drive_distance_keeping(e, r))
       [] a.kind = "assignController" -> record_for(e, a, [r EXCEPT !.assigned = TRUE])
       [] a.kind = "visibility" -> record_for(e, a, [r EXCEPT !.visible = a.value])
       [] a.kind = "add" -> IF e.entities[a.who].active THEN e
                            ELSE WithRecord(e, a.who, activate_entity(r, a.value))
       [] a.kind = "delete" -> IF e.entities[a.who].active
                               THEN WithRecord(e, a.who, deactivate_entity(r)) ELSE e
       [] a.kind = "setVariable" -> [e EXCEPT !.variables[a.name] = a.value]
       [] a.kind = "modifyVariable" -> modify_named_value(e, "variables", a.name, a.value)
       [] a.kind = "setParameter" -> [parameter_slot(e, a.name) EXCEPT
                                        !.parameter_overrides[a.name] = a.value]
       [] a.kind = "modifyParameter" ->
            modify_named_value(parameter_slot(e, a.name), "parameter_overrides", a.name, a.value)
       [] a.kind = "signal" -> [e EXCEPT !.signal_states = With(@, a.name, a.value)]
       [] a.kind = "phase" -> RestartPhase(e, a.name, a.value)
       [] a.kind = "environment" -> MergeEnvironment(e, a)
       [] a.kind = "teleport" -> record_for(e, a, [r EXCEPT !.x = a.value])
       [] a.kind = "custom" -> e
       [] OTHER -> record_for(e, a, r)

\* The storyboard polls the action that keeps a gap, then fires at most one more.
Repoll(e) ==
  [e EXCEPT !.entities = [id \in DOMAIN @ |->
     IF @[id].keeps_gap THEN drive_distance_keeping(e, @[id]) ELSE @[id]]]
Evaluations(e) ==
  {Repoll(e)} \cup {apply(Repoll(e), a) : a \in e.scenario.actions}

---------------------------------------------------------------------------
(* The calls of the host.                                                     *)

\* Init actions take effect at once: one still running is cut short.
finalize(e, who) == [e EXCEPT !.entities[who].keeps_gap = FALSE]
InitAction(e, a) ==
  LET after == apply(e, a) IN IF a.kind = "keepGap" THEN finalize(after, a.who) ELSE after

Seeded(e, scn) ==
  [e EXCEPT
     !.initialized = TRUE, !.scenario = scn, !.now = 0, !.diagnostics = scn.defects,
     !.entities = [id \in DOMAIN scn.entities |-> NewRecord(scn.entities[id])],
     !.variables = scn.variables, !.parameter_overrides = <<>>,
     !.environment = NoEnvironment, !.date.animated = TRUE, !.signal_states = <<>>,
     !.controller_phases = <<>>, !.warned = {},
     !.signal_controllers = SignalClocks(scn.controllers)]
Baseline(r) == [r EXCEPT !.prev = Sample(r), !.has_prev = TRUE]
Begun(e, scn) ==
  LET run[i \in 0..Len(scn.init)] ==
        IF i = 0 THEN advance_signal_controllers(Seeded(e, scn), 0)
        ELSE InitAction(run[i - 1], scn.init[i])
  IN run[Len(scn.init)]
Run(e, scn) ==
  [Begun(e, scn) EXCEPT !.entities = [id \in DOMAIN @ |-> Baseline(@[id])]]

\* Mutant: a running engine starts again.
init_outcomes_again(e, scn) ==
  IF has_errors(scn.defects)
  THEN {[status |-> first_error_code(scn.defects), engine |-> [e EXCEPT !.diagnostics = scn.defects]]}
  ELSE {[status |-> "Ok", engine |-> started] : started \in Evaluations(Run(e, scn))}
\* What init returns and what it leaves: a running engine refuses, a scenario
\* with an error is reported and not taken.
init_outcomes(e, scn) ==
  IF e.initialized THEN {[status |-> "AlreadyInitialized", engine |-> e]}
  ELSE IF has_errors(scn.defects)
       THEN {[status |-> first_error_code(scn.defects),
              engine |-> [e EXCEPT !.diagnostics = scn.defects]]}
  ELSE {[status |-> "Ok", engine |-> started] : started \in Evaluations(Run(e, scn))}

init(scn) ==
  /\ UNCHANGED gateway
  /\ published' = IF engine.initialized THEN published ELSE <<>>
  /\ \E outcome \in init_outcomes(engine, scn) :
       status' = outcome.status /\ engine' = outcome.engine

Integrated(e, dt) ==
  LET moved(r) == IF r.active /\ r.mode = "engine" THEN [r EXCEPT !.x = @ + r.speed * dt] ELSE r
  IN [e EXCEPT !.entities = [id \in DOMAIN @ |-> moved(@[id])]]
publish_state(e) ==
  IF ~gateway THEN published
  ELSE [id \in DOMAIN e.entities |->
          LET r == e.entities[id]
          IN IF r.active /\ r.mode = "engine" THEN Sample(r) ELSE Lookup(published, id)]

\* What each host-controlled entity may have become when the gateway is polled.
Polled(e) ==
  LET hosted == {id \in DOMAIN e.entities :
                   e.entities[id].active /\ e.entities[id].mode = "host"}
      answers == [hosted -> HostStates \cup {None}]
      taken(answer) ==
        [e EXCEPT !.entities =
           [id \in DOMAIN @ |->
              IF id \in hosted /\ answer[id] # None
              THEN [@[id] EXCEPT !.x = answer[id].x, !.speed = answer[id].speed] ELSE @[id]]]
  IN IF gateway THEN {taken(answer) : answer \in answers} ELSE {e}

step(dt) ==
  /\ UNCHANGED gateway
  /\ \/ /\ ~engine.initialized
        /\ status' = "NotInitialized"
        /\ UNCHANGED <<engine, published>>
     \/ /\ engine.initialized
        /\ dt < 0
        /\ status' = "InvalidArgument"
        /\ UNCHANGED <<engine, published>>
     \/ /\ engine.initialized
        /\ dt >= 0 /\ engine.now + dt <= MaxTime
        /\ status' = "Ok"
        /\ LET clocked == [engine EXCEPT !.last_dt = dt, !.now = @ + dt]
           IN \E polled \in Polled(clocked) :
                LET observed == IF dt > 0 THEN refresh_observations(polled, dt) ELSE polled
                IN \E evaluated \in
                       Evaluations(advance_signal_controllers(observed, observed.now)) :
                     /\ engine' = Integrated(evaluated, dt)
                     /\ published' = publish_state(engine')

\* Mutant: close keeps the overlay of the parameters.
close_keeps_overlay ==
  /\ UNCHANGED <<gateway, published>>
  /\ engine.initialized
  /\ status' = "Ok"
  /\ engine' = [Fresh EXCEPT !.last_dt = engine.last_dt, !.diagnostics = engine.diagnostics,
                             !.parameter_overrides = engine.parameter_overrides]
close ==
  /\ UNCHANGED <<gateway, published>>
  /\ IF ~engine.initialized
     THEN status' = "NotInitialized" /\ UNCHANGED engine
     ELSE /\ status' = "Ok"
          /\ engine' = [Fresh EXCEPT !.last_dt = engine.last_dt, !.date.epoch = engine.date.epoch,
                                     !.date.sim = engine.date.sim,
                                     !.diagnostics = engine.diagnostics]

\* A call that changes the engine and nothing else.
Call(code, changed) ==
  status' = code /\ engine' = changed /\ UNCHANGED <<gateway, published>>

report_state(id, s) ==
  IF ~engine.initialized THEN Call("NotInitialized", engine)
  ELSE IF id \notin DOMAIN engine.entities \/ ~engine.entities[id].active
       THEN Call("UnknownEntity", engine)
  ELSE IF engine.entities[id].mode # "host" THEN Call("InvalidControlMode", engine)
  ELSE Call("Ok", [engine EXCEPT !.entities[id].x = s.x, !.entities[id].speed = s.speed])

set_variable(name, value) ==
  IF ~engine.initialized THEN Call("NotInitialized", engine)
  ELSE IF name \notin DOMAIN engine.variables THEN Call("UnknownName", engine)
  ELSE Call("Ok", [engine EXCEPT !.variables[name] = value])

set_user_defined_value(name, value) ==
  Call("Ok", [engine EXCEPT !.user_defined_values = With(@, name, value)])

set_default_lane_width(width) ==
  IF width <= 0 THEN Call("InvalidArgument", engine)
  ELSE Call("Ok", [engine EXCEPT !.lane_width = width])

set_date_time(epoch) ==
  Call("Ok", [engine EXCEPT !.date = [set |-> TRUE, epoch |-> epoch, sim |-> engine.now,
                                      animated |-> TRUE]])
current_date_time(e) ==
  IF ~e.date.set THEN None
  ELSE e.date.epoch + (IF e.date.animated THEN e.now - e.date.sim ELSE 0)

set_traffic_signal_state(name, value) ==
  IF ~engine.initialized THEN Call("NotInitialized", engine)
  ELSE Call("Ok", [engine EXCEPT !.signal_states = With(@, name, value)])

clear_diagnostics == Call("Ok", [engine EXCEPT !.diagnostics = <<>>])

set_gateway(attached) ==
  /\ gateway' = attached
  /\ published' = <<>>
  /\ status' = "Ok"
  /\ UNCHANGED engine

Init == engine = Fresh /\ gateway = FALSE /\ published = <<>> /\ status = "Ok"

HostCalls ==
  \/ \E id \in UNION {DOMAIN scn.entities : scn \in Scenarios}, s \in HostStates :
       report_state(id, s)
  \/ \E scn \in Scenarios : \E name \in DOMAIN scn.variables : set_variable(name, Text)
  \/ \E name \in UserNames, value \in UserValues : set_user_defined_value(name, value)
  \/ \E width \in LaneWidths : set_default_lane_width(width)
  \/ \E epoch \in Epochs : set_date_time(epoch)
  \/ \E scn \in Scenarios : \E a \in scn.actions :
       a.kind = "signal" /\ set_traffic_signal_state(a.name, a.value)
  \/ clear_diagnostics
  \/ \E attached \in BOOLEAN : set_gateway(attached)

Next ==
  \/ \E scn \in Scenarios : init(scn)
  \/ \E dt \in Steps : step(dt)
  \/ close
  \/ HostCalls

Spec == Init /\ [][Next]_vars

---------------------------------------------------------------------------
(* Properties.                                                                *)

\* close lets go of everything but what it says it keeps, and a rejected init
\* leaves the engine as it found it: an engine with no run holds nothing but
\* what the host has staged, whatever ran before, and no anchor of the time of
\* day ahead of the clock that the next run starts from (Engine::close,
\* Engine::init, Engine::set_date_time).
ClosedForgets ==
  ~engine.initialized =>
    /\ [engine EXCEPT !.user_defined_values = <<>>, !.lane_width = DefaultLaneWidth,
                      !.date = NoDate, !.last_dt = 0, !.diagnostics = <<>>] = Fresh
    /\ engine.date.set => engine.date.sim <= engine.now

\* The cycle position of each controller, told from the clock alone: the phase
\* whose span holds the local time, none before the first phase starts. Only a
\* phase of no duration that an action has just restarted may be shown besides
\* (Engine::advance_signal_controllers, phase_index).
SignalsFollowCycle ==
  \A name \in DOMAIN engine.signal_controllers :
    LET clock == engine.signal_controllers[name]
        ends == Cumulative(clock.phases)
        local == (engine.now - clock.anchor) % Total(clock.phases)
        holds(i) == ends[i - 1] <= local /\ local < ends[i]
        restarted(i) == clock.phases[i].duration = 0 /\ ends[i - 1] \in {local, Total(clock.phases)}
    IN clock.phases # <<>> /\ Total(clock.phases) > 0 =>
         IF engine.now < clock.anchor
         THEN clock.applied = None /\ name \notin DOMAIN engine.controller_phases
         ELSE /\ clock.applied \in DOMAIN clock.phases
              /\ holds(clock.applied) \/ restarted(clock.applied)
              /\ engine.controller_phases[name] = clock.phases[clock.applied].name

Forced == {a \in UNION {scn.actions : scn \in Scenarios} : a.kind = "signal"}
Restarts(scn) == {a \in scn.actions : a.kind = "phase"}
PhaseStates(e, s) ==
  {c.phases[c.applied].states[s] :
     c \in {e.signal_controllers[n] : n \in {m \in DOMAIN e.signal_controllers :
              LET k == e.signal_controllers[m]
              IN k.applied # None /\ s \in DOMAIN k.phases[k.applied].states}}}

\* A state an action or the host forced on a signal gives way only when a
\* controller enters a phase or an action restarts one, never to time alone
\* (Engine::advance_signal_controllers, Engine::apply_global_action).
ForcedStands ==
  [][\A s \in DOMAIN engine.signal_states \cap DOMAIN engine'.signal_states :
       engine.signal_states[s] # engine'.signal_states[s]
       /\ engine'.signal_controllers = engine.signal_controllers
         => \/ \E a \in Forced : a.name = s /\ a.value = engine'.signal_states[s]
            \/ \E a \in Restarts(engine.scenario) :
                 engine'.signal_states[s] \in PhaseStates(engine', s)
                 /\ a.value = Lookup(engine'.controller_phases, a.name)]_vars

Entrances(scn, id) ==
  {0} \cup {a.value : a \in {b \in scn.actions \cup Range(scn.init) :
                               b.kind \in {"add", "teleport"} /\ b.who = id}}

\* Displacement is counted once: the odometer of an entity the engine drives
\* agrees with how far its last sample is from where it entered, through steps
\* of no duration, deletions and additions (Engine::refresh_observations).
OdometerMeetsPosition ==
  \A id \in DOMAIN engine.entities :
    LET r == engine.entities[id]
    IN r.active /\ r.mode = "engine" =>
         \E at \in Entrances(engine.scenario, id) : r.traveled = r.prev.x - at

\* An entity deleted from the scenario keeps nothing of its motion, assignments
\* and derived observations, so that adding it restarts from a clean slate
\* (Engine::deactivate_entity).
CleanSlate ==
  \A id \in DOMAIN engine.entities :
    LET r == engine.entities[id]
    IN ~r.active => [r EXCEPT !.x = 0, !.speed = 0, !.prev = NewRecord(r.mode).prev]
                    = [NewRecord(r.mode) EXCEPT !.active = FALSE]
=============================================================================
