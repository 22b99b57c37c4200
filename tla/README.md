# Scena: a TLA+ model of the scenario engine

Scena executes ASAM OpenSCENARIO scenarios: a host application owns the clock and calls
`Engine::step(dt)`; the engine walks the storyboard, evaluates triggers, fires, polls and stops
actions, and moves the entities it controls. Scenarios come from XML documents, from a second language
(the DSL), or from calls of a C interface; roads come from OpenDRIVE documents. There are no threads
and nothing is persisted. What is hard is order: what a step does to an element depends on what the
same step did to other elements a moment before, on histories kept from earlier steps, and on which
action drives an entity at that moment; what a reader makes of an element depends on what it read
before.

This directory holds TLA+ modules translated from the source, the configurations TLC checks them
with, and proofs that TLAPS checks. `PROJECT.json` maps every definition to the lines it stands for
and lists the runs, the mutants that show each property can fail, the findings, the hazards and the
theorems. Line numbers below are of `src/core/src/runtime/scheduler.cpp` (S) and
`src/core/src/engine.cpp` (E).

    tlc -workers 2 -config Acts.cfg SchedulerMC.tla      # a run
    tlapm OwnershipProofs.tla                            # the proofs of a module

## 1. The parts of the system

| part | state | operations | interacts with |
|---|---|---|---|
| **storyboard executor** (`runtime/scheduler.cpp`) | the bound tree: per element its state, last transition and when, executions, actions in progress | `bind`, `reset`, `step`, `for_each_transition` | evaluates triggers; calls the engine back to fire, poll and stop actions |
| **triggers** (`scheduler.cpp`, `ir/trigger.h`) | per condition the previous raw value and a history for its delay | `evaluate_trigger`, `reset_trigger` | evaluated by the executor for every element it reaches |
| **action ownership** (`engine.cpp`, `ir/action_domain.cpp`) | per entity: the action that owns each movement domain, its controller, transition, trajectory, lateral axis, the superseded actions | `apply`, `stop_action`, `supersede_*`, `activate_entity`, `deactivate_entity`, the integrate phase | called back by the executor; its answers decide when events end |
| **engine lifecycle and observations** (`engine.cpp`) | initialised or not, per-run stores, clock, odometer and timers per entity | `init`, `step`, `close`, host setters and getters | everything above; the gateway |
| **signal controllers** (`engine.cpp`) | per controller an anchor, cumulative phase ends, the phase applied last; the states of all signals | `advance_signal_controllers`, two actions | written by cycles, by `init` and by actions; read by conditions |
| **validation**, element references (`engine.cpp`, `runtime/element_ref.cpp`) | none | what `init` asks of a scenario, in order; resolve a name suffix | decides what may be run |
| **C API** (`capi`) | a handle: scenario under construction, engine, one buffer for strings | builder calls, load, init, step, close, diagnostics | hosts; the engine and the XML frontend |
| **XML frontend** (`frontends/xml`) | parameter frames, catalog cache, the scenario so far | load a document to the IR, check its references | builds what the executor binds |
| **conditions** (`ir/*condition.cpp`, `ir/rule.cpp`) | none | read values, compare one | triggers |
| **geometry and positions** (`obb2`, `distance_measure`, `position_resolver`, `trajectory_eval`) | none | poses, distances, closing speeds, gaps | conditions and actions |
| **motion** (`runtime/longitudinal`, `lateral`) | a segment walk per transition | durations, values at t | polled from `apply` |
| **road network** (`roads/opendrive`) | the parsed network | read a document; road queries | positions, observations |
| gateway (`gateway/*.h`) | the host's | `poll_state`, `publish_state`, notifications | called by `step` and `apply` |
| **DSL frontend** (`frontends/dsl`) | symbol and type tables | lex, parse, resolve, check, **lower** | builds the same IR |
| Python bindings, tools (`python`, `tools`) | handles | forward to the engine | hosts, users |

One `step(dt)` of the engine is: tell the gateway, advance the clock, poll the states of
host-controlled entities, refresh the derived observations (only if dt > 0), advance the signal
controllers, step the storyboard (which calls `apply` and `stop_action`), report its transitions,
integrate the motion of engine-controlled entities, publish their states, tell the gateway. The order
of these phases is what conditions and actions observe of each other.

What makes each part correct, and what is hard about it:

- *Storyboard executor.* Parents and children agree on their states; stop wins over start; nothing
  starts twice in an evaluation or survives its execution; what the host was told to do is polled or
  stopped; a storyboard whose triggers come true completes. Hard: the walk changes the tree it walks
  (a start recurses, an override stops siblings on both sides, a group takes its subtree back), and
  transitions live for one evaluation.
- *Triggers.* The answer is the standard's edge-then-delay semantics although the code keeps one raw
  value and a pruned history. Hard: steps of length 0, samples that share a time, short-circuits that
  must not happen, and a trigger that is evaluated twice in a step.
- *Action ownership.* At most one action drives a domain, it is one still in progress, and one that
  lost its domain stays out. Hard: the loser is only told when it is polled again, and meanwhile it
  may be stopped, its actor or reference may leave the scenario and return, its bulk siblings may fall
  with it, and a timed trajectory holds two domains it can lose one at a time.
- *Engine.* A rejected `init` leaves no trace; every store has one lifetime (a run, or until `close`);
  a re-added entity starts afresh; observations difference exactly the states conditions saw.
- *Signal controllers.* A cycle position is a function of the time since its anchor; an action's
  override lasts to the next phase transition, exactly.
- *Validation.* What is accepted can be run without any look-up that fails, and what refers to
  something that is not there is told by the code that means so.
- *C API.* The run is of the scenario that was authored when it started; diagnostics stay readable as
  long as the header says; a load reports itself.
- *XML frontend.* A text means what the parameters in scope make of it where it stands: scopes nest,
  catalog entries see their own parameters only, and nothing that was read before matters. Hard:
  frames are pushed and popped on every path, and a mark says whether declarations were read already.
- *DSL lowering.* A member of a composition starts when its predecessors end, whether that is known at load
  time or only in the run; what lowers without an error can be run. Hard: the end of a member is a time,
  groups that complete, or both, and every construct rewrites one of them.
- *Pure parts.* Several pieces of code measure one thing (a distance, a gap, a speed of approach): they
  have to agree, at touching boxes, at zero speeds, at the ends of lanes and sections, under every rule.

## 2. Modules

| module | models | extends |
|---|---|---|
| `Scheduler` | the executor | |
| `SchedulerProperties` | what it promises | `Scheduler` |
| `SchedulerMC` | storyboards for TLC | `SchedulerProperties` |
| `SchedulerProofs` | proofs: the cursor and the types, the coherence of the tree, exclusive priorities, fresh subtrees; what one evaluation starts, stops, reports and shows, what the host holds | `SchedulerProperties`, `InductionFacts` |
| `InductionFacts` | lemmas: induction over the naturals and intervals, least and greatest, functions defined by recursion, folds | |
| `Trigger`, `TriggerMC` | one or more triggers and their histories, with a reference semantics | |
| `TriggerProofs` | proofs: the pruned history, the doubled evaluation | `Trigger`, `InductionFacts` |
| `Ownership`, `OwnershipMC` | who drives an entity, with its properties | |
| `OwnershipProofs` | proofs: who owns what, and the markers of those that lost it | `Ownership`, TLAPS |
| `Diagnostics` | findings and status codes | |
| `Ir` | the scenarios a frontend hands over: actions, conditions, positions, entities | `Diagnostics` |
| `Validation` | what `Engine::init` asks of a scenario; suffixes of element names | `Ir` |
| `ValidationProofs` | proofs: what is accepted can be run, and what refers to nothing is told so | `Validation`, `InductionFacts` |
| `Engine`, `EngineMC` | life of an engine, observations, signal controllers, named values | `Validation` |
| `EngineProofs` | proofs: what a run leaves, cycles of signal controllers, odometers, forced signals | `Engine`, `InductionFacts` |
| `Session` | abstract: what a handle promises whoever authors and runs | |
| `CApi`, `CApiMC` | the C interface; implements `Session` | `Engine` |
| `CApiProofs` | proofs: what runs, what is lent, what a load reports; the refinement of `Session` | `CApi`, `EngineProofs`, `ValidationProofs` |
| `Roads` | the road queries over OpenDRIVE | `Diagnostics` |
| `RoadReader` | reading an OpenDRIVE document | `Roads` |
| `Curves`, `Positions` | trajectories by arc length; from a position to a pose | `Roads` |
| `Measure` | boxes, distances, closing speeds, gaps | `Roads` |
| `Conditions` | every kind of condition, rules, the calendar | `Measure` |
| `Motion` | transitions, their durations, speed profiles | `Roads` |
| `Expressions`, `Parameters`, `Catalogs`, `Readers`, `Loader` | the XML frontend, bottom up | one the next |
| `Written` | abstract: what a document says, by the text alone | `Loader` |
| `Lowering` | from a resolved DSL program to a scenario | `Ir` |
| `Composition` | abstract: when the phases of a program start and end, by its composition alone | `Lowering` |
| `Scenarios`, `XmlDocuments`, `Programs` | scenarios, documents and programs to ask about | `Validation`; `Expressions`; `Lowering` |
| `Questions` | one question put to one of the pure parts, and what its answer has to be | the parts, but for lowering |
| `ProgramQuestions`, `QuestionsMC` | what a lowered program has to be; the questions TLC asks | `Questions`, `Composition` |
| `QuestionsProofs` | proofs: what is accepted, distances and gaps, times to collision, conditions, speed profiles | `Questions`, `ValidationProofs` |

A definition whose comment begins with *mutant:*, or that stands right before the definition it
changes, is not part of the model. It is what a plausible bug would make of the definition after it,
and `PROJECT.json` says which property notices.

### 2.1 `Scheduler`

The elements are numbered 1..N in document order, so a subtree is an interval `n .. Last[n]`, the first
child of n is n + 1 and its next sibling `Last[n] + 1`. `TreeAssumption` says that `Kind`, `Parent` and
`Last` describe such a tree; `ScenarioAssumption` types the rest of the scenario.

- `node[n]` is the `Node` record: state, last transition, whether it is stamped with the current
  evaluation (the code keeps the number of the evaluation and compares; the model keeps the answer and
  clears it when `step()` moves the counter), executions, the actions still running, and whether one
  answered Ongoing.
- `pc, cur, top` are a cursor that replaces the recursion of `enter_running()` and `update()`. Each
  action is one visit: *everything* the code does between two recursive calls, in one step. `top` is
  the element `update()` or `step()` called `enter_running()` on, so that the walk knows where it
  returns to.
- `held` is what the host believes in progress, from `FireCallback` answers and `StopCallback`s.
  `log` and `reports` are history variables: the transitions of this evaluation in order, and how
  often `for_each_transition()` has named an element for it.
- A trigger is an element-state query, answered by the model, or anything else, answered freely at
  each evaluation (`Trigger` says which answers a history allows). What `apply()` answers is free
  (`Outcomes`).

| action | code |
|---|---|
| `Bind`, `Reset` | `bind()`, `reset()` |
| `BeginStep`, `StepComplete`, `StoryboardStop` | `step()` (S 237-271) |
| `EnterWaiting`, `EnterExhaustedGroup`, `EnterElement`, `EnterEventOfManeuver`, `Entered` | `enter_running()` and `start_event()` |
| `UpdateComplete`, `UpdateStop`, `UpdateWait`, `UpdateStart`, `UpdateRunning`, `Updated` | `update()` |
| `UpdateRunningEvent`, `ProgressEvent`, `UpdateWaitingEvent`, `UpdateTriggeredEvent` | `update_maneuver()`, `progress_event()` |
| `Report` | `for_each_transition()` as `Engine::step` uses it |

### 2.2 `Trigger`

A *site* is a trigger of one element; its conditions keep the `ConditionState` of the code
(`hasPrevious`, `previousRaw`, `history`). `BeginStep` advances the time by any of `StepSizes`, gives
every expression a new raw value and picks the reachable sites; `Evaluate` is `evaluate_trigger()`,
once per site or twice for the storyboard's stop trigger (S 263 and S 525); `ResetTrigger` is what
`reset_subtree()` does to the triggers below a re-armed group. `past`, a history variable, keeps every
evaluation, and the properties compare the answers with a reference defined over it alone: the edge of
the last evaluation at or before t - delay.

### 2.3 `Ownership`

`entity[e]` is the part of `EntityRecord` that says who drives e: `active`, the activation flags, the
owner of either domain (`active_longitudinal_action`, `active_lateral_action`), the trajectory follower
and whether it has moved the entity in this step, whether a controller, a continuous target, a lateral
transition and a lateral axis exist, whether the axis waits to be dissolved, and `retired`, the
superseded actions. Poses, speeds and offsets are left out: whether a transition arrives, a target
resolves or a gap can be measured is a free choice.

A step is `BeginStep`, a visit of every event in document order, and `EndStep`, the integrate phase.
A visited event is fired (`Fire`), polled (`Poll`), stopped (`Stop`) or left alone (`Pass`), whichever
the storyboard decides; the calls of `apply()` or `stop_action()` it makes (`pending`, taken in the
order of the event's actions) are steps of their own. There is one `Apply...` action per branch of
`Engine::apply()`, in the order the code takes them: inactive actor, reference gone, retired marker,
domain deactivated, then one per kind of action. An action that completes leaves the `running` set of
its event, as in `progress_event()`; one that was retired takes its marker with it. `lost` and
`deleted` are history variables: the actions that gave up a domain in this execution, and those that
did because their actor was deleted.

### 2.4 `Engine`

`engine` is the object between two calls: the scenario that runs, the clock and the last dt, one record
per entity (its state along one road in whole metres, the previous sample, odometer, standstill and road
clocks), the signal controllers with anchor and applied phase, named values, their overrides, the staged
values of the host, date, environment, diagnostics. `gateway` tells whether one is attached.

Every public call is one action, and one step is one action: `step` composes the phases above as
functions from engine to engine, in the order of the code, so an observation sees what the phases before
it left. `init_outcomes` is everything `init` may leave, with the init actions, their finalisation and the
evaluation at t = 0; a scenario with defects leaves the engine as it was with its findings. Which action
the storyboard fires is free (`Scheduler` says when), at most one per evaluation.

### 2.5 `CApi` and `Session`

The handle adds the scenario under construction, the buffer for borrowed strings, what the host has
borrowed (`lent`, a history of a promise of the header) and the DSL check it holds. A `request` is a
record of one call's arguments, with a flag for a null pointer, a stray enumerator and a number that only
`init` rejects; each builder is an operator that gives the action the call appends, or None where the call
refuses. `Session` is the abstract specification, three variables and four actions: what runs is what was
authored when the run started. `CApi` implements it, with the scenario inside the engine as what runs
(`Handle`, the property `RunsWhatWasAuthored`).

### 2.6 The pure parts and `Questions`

`Validation`, `RoadReader`, `Roads`, `Positions`, `Measure`, `Conditions`, `Motion`, `Lowering` and the
modules of the XML frontend are operators, one per function of the code, with the code's names where it has one. A state
of `Questions` is a question to one part, and its one action takes the answer; the runs ask every question
of a set and the invariants say what the answer has to be, by another way than the code's: all simple ways
through the graph of lanes against its search, the room between two boxes along the axes of the world
against the separating axes and corners, six rules and ascending values against each other, the positions
after a number of seconds against a time to collision, and the document's text against its readers.

- *Lengths* are whole, headings quarter turns, boxes aligned to them, so that every projection has an exact
  value and no comparison has a tolerance to hide in; a Euclidean distance is kept as its square.
- *Fractions* of a transition are pairs of numbers. A duration is rounded up to whole seconds, so limits
  may only be kept better than in the code; a sinusoid is taken at its quarters, in thousandths.
- *Texts* that are compared are a spelling and the number it spells, or none.
- *XML.* A document is a record of what the readers look for. An attribute is plain, a reference to a
  parameter, an expression, or misnamed; an expression is the sequence of its operands and operators in the
  order in which the parser applies them; numbers count halves, so integers and decimals differ. `ctx` is
  the `ReadContext`: frames, mark, directories, selections, findings, and the document so far, threaded
  through the readers in the order of the code. `Written` reads the same document without any context: the
  parameters around an element are a function of where it stands.
- *DSL programs.* A program is what the resolver leaves of it: an expression is a constant of some kind, the
  path of a field, or nothing lowering can use. `b` is the `Behaviors` object, with its findings and the
  groups of the act so far, threaded through the members in the order of the code; a `TimePoint` is a time and
  a list of groups. `Composition` plays the same program for any lengths of the phases no duration fixes, and
  `KeepsComposition` compares the moments at which its phases start with those at which the triggers of the
  lowered storyboard fire.

## 3. What is checked

| run | instance | distinct states | question |
|---|---|---|---|
| `acts` | 16 elements: two acts that can be stopped, an empty group, a group with 0 executions, two groups executed twice, an override, a skip and a parallel event, an event that waits for the end of another, all three outcomes; `bind` and `reset` between any two steps | 42 205 | is the tree coherent between any two visits; does re-arming leave anything behind; does an element start once, stay complete, stop before it starts, get reported and observed |
| `chain` | 12 elements chained on element states | 1 072 | does every act complete; is everything held also polled |
| `event_trigger` | an event trigger of two groups (a delayed rising edge AND a level, OR a change) and the storyboard's stop trigger on a delayed level; dt in {0, 1} | 1 010 945 | do the answers follow the reference over all evaluations of every condition, whichever group decides |
| `conflicts` | 11 actions on 2 entities: a bulk speed, a continuous speed, a timed trajectory, a bulk offset, a lateral distance, a lane change, a speed and an offset of the Step shape, a controller action; the host controls one entity | 427 389 | is each domain driven by one properly equipped action, is every loser told, do losers stay out, do bulk actions fall together |
| `leaving` | 9 actions: the driven entity leaves and returns, its reference leaves, a controller switches domains | 81 197 | is every owner in progress, does every marker end with its execution, is an axis let go of in the end |
| `engine` | four scenarios (a crossing of three controllers that follow each other and share a signal; a car that is driven off the road, deleted and added; a host-controlled entity; named values, date, environment) and a broken one, loaded over and over; dt in {-1, 0, 1, 3} | 235 744 | does close forget what it says; do signals follow their cycle and do forced states stand; does the odometer meet the position |
| `host` | a host that makes any builder call with good and bad arguments, edits what it has loaded, loads documents that are sound, broken or refer to strangers, borrows diagnostics and strings, runs and closes | 50 104 | is what runs what was authored (refinement of `Session`); can it be run; do diagnostics stand; does a load report itself |
| `questions` | 63 410 questions, listed in 3.1 | 126 820 | is each answer right by another way of computing it |

The other runs end in a counterexample and are explained under *Findings*: `delayed_stop`, `re_add`,
`clean_slate`, `catalog_mark`.

### 3.1 Bounds

`acts`, `chain`, `conflicts` and `leaving` bound nothing but the instance: the host may step, bind and
reset for ever and the state space is finite by itself. The storyboards are the smallest that hold each
shape the code distinguishes: each kind of element, with and without triggers, childless groups, budgets of
0, 1 and 2 executions, each priority next to each other on both sides, and a start that completes at once.
`Trigger` bounds the time by `MaxTime` and the evaluations of a condition by `MaxSamples`; `event_trigger`
allows 4 evaluations over 3 time units with delays of 0, 1 and 2, enough for a sample that falls exactly on
a target, before the first one, or shares its time with others, and for a history that is pruned. It may
stop at the bound, so deadlock is not checked there. In the `Ownership` runs the two entities and six events
put every pair of action kinds in competition in both orders, with any number of steps between.

`Engine` bounds the time of a run by `MaxTime` and the speed by `MaxSpeed`, and a host may close and load
again without bound. Three seconds hold a whole cycle of the crossing, a step that spans one, and a
deletion, an addition and a step after them; roads are 2 m long so that a car is soon at their end and
beyond. `EngineMC` lets a host load one scenario over and over, broken ones in between, and only the host of
the values stage any. `CApi` bounds the scenario under construction (`MaxEntities`, `MaxEvents`,
`MaxControllers`: one, two and one), `CApiMC` the order of its edits, not of its calls: nothing a builder
does depends on what another builder has added, except the name of the next event, which is why two events
are allowed where one was loaded.

`questions` asks about: scenarios with any one action, any one condition, any two entities, any references
between two controllers, any names of the elements of a small storyboard; 7 400 scenario documents of two
nested scopes and the global one, each declaring one of two names or both with values of each type,
referring to catalogs in files and locations that hide each other, with entries that use both names, plus 395 with one
defect of form; OpenDRIVE documents of two roads and a junction with one thing wrong or written twice anywhere,
two lanes of a section included; positions of
every kind on no network, on a road with a bend and two sections, and on a ring with junctions; all pairs of
lanes and ends of it as a route; an entity with other entities and points around it, turned, moving, with
boxes, by every coordinate system and type of distance; conditions of every kind by every rule with ascending
values; profiles of one and two entries under all combinations of limits; programs: any two members (timed, untimed,
idle or without a counterpart) in sequence, any composition of two members between two others or as one of
two, each with and without a duration and with labels that collide, every movement and every modifier with any
of its parameters, some entry points, bindings and map files. Each has the cases in which the
functions branch: equal, touching, at the edge, one beyond, absent. Nothing follows an answer, so deadlock is
not checked.

Kept out of `questions`, because the code is known to differ there: documents in which a catalog entry
leaves the mark behind (that is `catalog_mark`: in the others every entry referred to declares parameters, and
a controller's is the last element that reads any) and object references with a parameter in a name (section
5); boxes that do not cover their entity's reference point in `TimeToCollisionIsKept`, because the code takes
the speed of approach of the reference points; curves in which the nearest foot of a point is not its own; programs in which something timed follows a join of
timed and untimed members (section 5).

### 3.2 Fairness

`chain` assumes that the host keeps stepping and does not unbind (`WF BeginStep`), that `step()` returns
(`WF Walk`), and that an action that is polled again and again reports completion at last
(`SF Completing(e)`, strong because the walk passes the event once per step): the engine's finite transitions
do, and without it an event may legitimately run for ever. `leaving` assumes only that the host keeps stepping
and `step()` returns (`WF_vars(Next)`, every action of the module being a part of a step). The other
specifications state no fairness: nothing has to happen there.

### 3.3 What the properties say

Each is commented where it is defined. The ones worth reading first:

- `TreeCoherent`, `RearmedIsFresh`, `CompleteIsFinal`: the tree of states after overrides, skips,
  stops and re-armed groups, between any two visits and not only between steps.
- `HeldIsPolled`: the host's and the executor's ideas of what is in progress are the same.
- `LastTransitionSeen`, `ReportedUnlessRearmed`: one-evaluation pulses reach who waits for them.
- `AnswerIsSampleAndHold`: the pruned history answers what the whole past would.
- `LosersAreTold`: a motion that is still polled drives its entity or is marked there, whoever took its domain.
- `SupersededStaysOut`, `BulkFallsBackTogether`: losing a domain is final for an execution, and for all
  instances of a bulk action at once.
- `MarksHavePurpose`, `AxisLetGo`: what is left behind on an entity has an end.
- `SignalsFollowCycle`, `ForcedStands`: the phase applied, told from the clock alone; a forced state stands
  until a controller enters a phase or an action restarts one.
- `OdometerMeetsPosition`: every displacement is counted once, through steps of 0, deletions and polls.
- `RunsWhatWasAuthored`: no edit, load or failure reaches a run.
- `AcceptedIsRunnable`, `DanglingIsSemantic`: what `init` accepts has no look-up that fails.
- `DroppedOnlyIfReplaced`: a road document about which nothing is reported is there in full, every lane with its
  type, widths and references, but for a lane whose id a later one of the section has.
- `RouteIsShortest`, `RoundTrip`, `DistanceIsTheRoom`, `TimeToCollisionIsKept`, `AnswersAreCoherent`,
  `WithinDynamics`: section 2.6.
- `ReadsAsWritten`: a document loads exactly when its texts mean something, and says what they mean.
- `LoweredAsComposed`: a program that lowers without an error gives a scenario that can be run, and one about
  which nothing was reported starts every phase, and stops, when its composition says, however long the
  others take.

## 4. What is proved

The theorems hold for every storyboard (every `N`, tree, budget and trigger), every set of conditions,
edges, delays and step sizes, every set of entities, actions and events, every scenario and every host,
from the named assumptions only:

- `TreeAssumption`, `ScenarioAssumption` (`Scheduler`): the constants describe a storyboard.
- `TriggerAssumption` (`Trigger`): delays are natural, sites are made of groups of conditions.
- `OwnershipAssumption` (`Ownership`): an action belongs to one event, the kinds that need a reference have
  one, and the instances of a bulk action differ in nothing but their actor (the XML frontend makes them
  so: `ForEachActor` in `Readers`).
- `BulkAssumption` (`Ownership`): the instances of a bulk action are in one event and follow each other, as the
  reader pushes them in one loop under one number (`frontends/xml/src/read_storyboard.cpp:116-121`).
- `StepsAssumption`, `ScenariosAssumption` (`Engine`): durations are integers, a negative one included, and
  no phase or delay is negative (`init` refuses them). The names of controllers are numbers, which stand for
  the order of the names, since the controller that comes last in it wins a signal that two of them set.
- `RequestsAssumption`, `DocumentsAssumption` (`CApi`): the arguments of a call and the result of a loader
  have the types of the C and C++ declarations. One part is more than a type: a document that has a story has
  a maneuver, since a builder takes the front of a vector of them without looking (`capi.cpp:403`).

- `ScenariosAssumption` (`Questions`): no scenario is asked about that is not `Formed`, which (in `Validation`) says
  what the C++ types of a scenario say: lists, a tree of elements, which kinds of action hold a position or a
  reference.
- `NetworksAssumption` (`Questions`): a network has roads by number, each with a line of at least one piece, and
  every piece has a length. The reader leaves no other: it drops a piece that has none and then the road.
- `DistancesAssumption` (`Questions`): entities have numbers for where they are, half sizes are no less than 0, a
  measurement has a coordinate system and a type (`Measurement` fills in what a condition leaves open), and a box
  has its reference point inside (`Straddles`). The last is more than a type. OpenSCENARIO puts the
  reference point of a vehicle on its rear axle, inside its box, but nothing checks that; with a box beside its
  reference point the gap of an action and the distance of a condition are of different sides.
- `ConditionsAssumption` (`Questions`): what a condition reads is of the type the code reads it with, and the values it
  is compared with ascend.
- `DocumentsAssumption` (`Questions`): what is written of a map is a tree of elements, those of one name in a list; the
  `s`, `length` and offset of an element are numbers or nothing, and a link is not nothing. Nothing is said of
  the numbers, the ids, the order, or of what is missing.
- `ProfilesAssumption` (`Questions`): a profile has an entry, and speeds, times and limits are numbers where they are
  there at all. Nothing is said of their signs.
- `NoneAssumption` (`Questions`): the value that stands for "nothing there" is no number.

TLC evaluates each of them on the instance of a run.

| theorem | module | says |
|---|---|---|
| `TypeCorrect` | `SchedulerProofs` | `[]TypeOK`: the cursor never leaves the tree |
| `TreeStaysCoherent`, `ScopeStaysExclusive`, `RearmedStaysFresh` | `SchedulerProofs` | `TreeCoherent`, `ExclusiveScope`, `RearmedIsFresh` |
| `StartsOnce`, `StopsBeforeStarts` | `SchedulerProofs` | `OneStartPerEvaluation`, `StopWinsAfterFirst` |
| `EveryTransitionReported`, `TransitionSeenWhenLast` | `SchedulerProofs` | `ReportedUnlessRearmed`, `LastTransitionSeen` |
| `CompleteStaysFinal` | `SchedulerProofs` | the action property `CompleteIsFinal` |
| `HeldStaysPolled` | `SchedulerProofs` | `HeldIsPolled`, for a host that answers Complete or Running (`HostPolls`) |
| `HistoryIsFaithful` | `TriggerProofs` | the inductive invariant of a history |
| `TriggerAnswerIsSampleAndHold` | `TriggerProofs` | the action property `AnswerIsSampleAndHold` |
| `StopIsNeverEarly` | `TriggerProofs` | evaluating the stop trigger twice never makes it hold when once would not |
| `StopCountsOnce` | `TriggerProofs` | `StopAnswersAsIfOnce`, if no stop condition has both an edge and a delay (`StopIsSteady`) |
| `OwnershipInvariant` | `OwnershipProofs` | the inductive invariant itself |
| `OwnershipTypeCorrect`, `DomainsStayExclusive`, `OwnersStayEquipped`, `OwnersStayInProgress` | `OwnershipProofs` | `TypeOK`, `DomainsExclusive`, `OwnerEquipped`, `OwnersInProgress` |
| `MarkersInvariant` | `OwnershipProofs` | the inductive invariant of the markers |
| `SupersededStayOut`, `DeletedStayOut` | `OwnershipProofs` | `SupersededStaysOut`, `DeletedStaysOut`, if no entity is both deleted and added (`NoReturn`) |
| `MarksKeepPurpose` | `OwnershipProofs` | `MarksHavePurpose`, if no speed refers to an entity that is deleted (`ReferencesStay`) |
| `BulkActionsFallBackTogether` | `OwnershipProofs` | `BulkFallsBackTogether`, under both and if a bulk action has an actor once (`ActorsDiffer`) |
| `LosersStayTold` | `OwnershipProofs` | `LosersAreTold`, if no entity is both deleted and added (`NoReturn`) |
| `EngineStands` | `EngineProofs` | the inductive invariant of an engine |
| `NoRunLeavesATrace`, `ControllersFollowTheClock` | `EngineProofs` | `ClosedForgets`, `SignalsFollowCycle` |
| `OdometerFollowsPosition` | `EngineProofs` | `OdometerMeetsPosition`, if no entity goes backwards or is teleported after init (`OnwardOnly`) |
| `ForcedStatesStand` | `EngineProofs` | the action property `ForcedStands`, if all phases of a controller set the same signals (`SameSignals`) |
| `SoundScenariosRun` | `ValidationProofs` | what validation finds no error in can be run |
| `DanglingReferencesReport` | `ValidationProofs` | a semantic error is found exactly when a reference leads nowhere |
| `AcceptedStaysRunnable`, `DanglingStaysSemantic` | `QuestionsProofs` | `AcceptedIsRunnable`, `DanglingIsSemantic` |
| `DistanceStaysTheRoom` | `QuestionsProofs` | `DistanceIsTheRoom` |
| `CollisionTimesAreKept` | `QuestionsProofs` | `TimeToCollisionIsKept`, for what is not measured along a road |
| `AnswersStayCoherent` | `QuestionsProofs` | `AnswersAreCoherent` |
| `DynamicsStayWithin` | `QuestionsProofs` | `WithinDynamics` |
| `OnlyTheReplacedAreDropped` | `QuestionsProofs` | `DroppedOnlyIfReplaced` |
| `HandleStands` | `CApiProofs` | the inductive invariant of a handle |
| `OnlyRunnableRuns`, `BorrowedStands` | `CApiProofs` | `RunsRunnable`, `DiagnosticsStand` |
| `LoadsReport` | `CApiProofs` | the action property `LoadReportsItself` |
| `RunIsWhatWasAuthored` | `CApiProofs` | `RunsWhatWasAuthored`: `CApi` implements `Session` |

### 4.1 The executor

`TypeOK` is not inductive: while an element is being entered the cursor must be known to
be below `top`, or "back to the parent" could leave the tree. `TypeInv` adds `CursorBelowTop`, and the
lemmas on intervals (a sibling's subtree starts where the last one ends, subtrees nest or are disjoint)
carry the rest. `TreeCoherent` needs strengthenings. `Coherent` states standby for whole subtrees
(`StandbySubtree`) and a budget for waiting groups (`GroupBudget`: a group that waits has not used it
up, or has not executed), without which a group could complete over children that never started; it
includes `ExclusiveScope`, which is inductive with it because an event starts only after its siblings
were stopped or found idle, and `RearmedIsFresh`, the freshness of standby subtrees. `Walking` says what
the walk knows where it stands: the parent of the element visited is running, and all that
`enter_running()` has yet to reach is still in standby. `IInv` is the three together, and the proof has one
lemma per action.

What one evaluation does needs `EInv` beside it. `Logged` relates the log of the evaluation to the records:
what was logged last of an element is what it shows unless a group took it back (`LastStands`), a waiting act
or group took nothing and nothing below it did (`WaitingUnmarked`), nothing started twice, and nothing below
an element that was stopped had started before (`StopsStand`). `Ahead` is the knowledge about what the walk
has not reached: what it will enter took nothing, and the events, acts and groups ahead whose start would be
tried have not started, so that a start can only be the first. Both hold because the walk visits
the elements in document order: `EventAhead` and `ActAhead` say of each value of `pc` what is ahead.
`AllReported` holds between two evaluations. With this the theorem that a stop wins is about the visit of
`update()`, and that a re-arming group clears the stamps of its subtree is the one exception named in each.
`HeldIsPolled` is an invariant of its own (`Polled`), true only under `HostPolls`: the executor drops an
action that answers Ongoing.

### 4.2 Triggers

`Faithful` relates, for each condition, the record of the code to `past`, all of its evaluations. It says
that the history holds the edges of a suffix of them, and that what was pruned cannot be selected again: if
anything was, the first entry kept lies at or before now - delay, and time never goes back. From it follows that
the entry the code selects is the one the reference selects from `past`. The doubled evaluation
of the stop trigger needs a second invariant, `EvaluatedInPairs`: the evaluations of its conditions come in
pairs of one time and one raw value, between which nothing changes, so the second edge of a pair is never
there; `AnswersStand` keeps the answers of the two apart from those of the reference. `StopIsSteady` is not a
convenience: without it the statement is false, and that is finding `delayed_stop`.

### 4.3 Ownership

`OwnershipInv` is `TypeOK`, `Sound` of every entity's record, and every owner polled.
`Sound` lists what an owner implies (its kind, its actor, an active entity, a domain the engine has, its
controller or transition, not retired) and `Paired`: a timed trajectory owns both domains or neither.
Inside one call the record passes through states that are not sound: `Vacated` is what holds after the
longitudinal owner is retired and before the next one is installed. `Descends` and `Shrinks` say that
superseding, with the cascade over bulk siblings, only ever takes ownership away, so that no owner
appears whose event is not polled. Each `Apply...` action then is a lemma that its result is sound and
that it adds no owner but the action called.

`MarkersInv` is about what losing a domain leaves behind. `Walk` holds of every storyboard: the calls of a visit are
those of one event, in its order (`Visited`), markers stand on the record of their actor (`MarksPlaced`), and an
axis that waits to be dissolved has no lateral owner (`AxisUsed`). `Told` says that whatever has lost its domain and
is still polled is marked or off the road, so that `LosersAreTold` is read off it; `MarksPolled` that no marker
outlives its execution; `FiresUnmarked` that while an event fires none of its instances still to be called has a marked sibling, without
which the later instances of a bulk action could install themselves after the first was superseded. `Supersedes`
and `YieldsTo` say of one record, and `Handed` and `Settled` of all, what a call takes and what it marks, the
cascade over the bulk group included; `MarkersStep` puts the calls together and `QuietStep` is the storyboard's side.

None of the three hypotheses is there for the proof. Each excludes something the code does:

- `NoReturn`: deleting an entity wipes its markers, and an action that is still polled drives the entity that
  is back. That is finding `re_add`.
- `ReferencesStay`: a superseded relative speed whose reference has left completes before its marker is looked at
  (E 3029), and the marker stays.
- `ActorsDiffer`: nothing stops an XML group from naming an actor twice, through `EntityRef` and a selection
  (`read_storyboard.cpp:206-222`). Two instances then have one actor, the second supersedes the first,
  and with it, the cascade, itself.
The scenario of run `conflicts` satisfies all three. That of `leaving` has a deletion, a return and a speed that
refers to the deleted entity, so there the invariants it checks, `MarksHavePurpose` among them, are TLC's result.

### 4.4 The engine

The engine is one record, and a call a composition of functions on it. `Changes(e, f, S)` says that f is e but
for the members in S, and each function has a lemma that names what it may write: the frame of every step
follows by composing them. `Standing` is what any state satisfies: the record has its members, an anchor of
the time of day is not ahead of the clock, and an engine that is not initialized equals a new one but for what
the host may stage (`Forgotten`); `ClosedForgets` is its reading. `Cyclic` is about the controllers: each
one's cumulative ends are the sums of its phases, its anchor is an integer, and the phase it applied last is the one in which
`now` lies (`InPhase`). `ControllersFollowTheClock` rests on three facts: partial sums of natural durations
ascend, so that the phase index is well defined for any cycle, with phases of length zero and of length zero
altogether (`PhaseIndexHolds`); a controller's start offset is found by following references that validation
shows not to go round; and an init action or a fired action may restart a controller's phase but leaves anchor and phase
in agreement (`RestartCycles`). `Carried` says that the evaluation of the storyboard, in which any action may fire, keeps all of this.

`Tracked` is about the odometers. While init places entities, each is at one of its entrances with nothing travelled
(`AtEntrance`); from its first observation on, what it has travelled is the way from an entrance to its last
sample, and it is not behind that sample (`Metered`). `OnwardOnly` is needed: an odometer adds distances, so it
counts a way back too, and a teleport during the run is not travelled at all.

For `ForcedStatesStand`, `TickSignals`, `RestartSignals` and `StepAccounts` say who may have written a signal. When the
controllers look as before, none but one that was restarted can have entered a phase, and the phase it
restarted in sets its own signals again. `SameSignals` is needed: if a phase of length 0 is
restarted in two evaluations of one time, the second step enters the next phase and the restart undoes it, so the
controllers look unchanged, but a signal that only the next phase sets would keep the state it was given.

### 4.5 Validation

`findings` is a concatenation of the findings of each check, so a list without an error (`Faultless`) is one all of whose
parts are. `ScenarioChecked` goes through the checks in the order of `init` and turns every one
that found nothing into what it means: `ActionStands`, `ConditionStands`, `ElementStands`, `ControllerStands`,
together `Stands`. `SoundScenariosRun` then derives what is not checked anywhere as such.
No chain of controllers leads back to its start: the code walks from each controller as many steps as there
are controllers, the proof has to find the ring that the walk would be in. And the path of every element is its own, though only siblings are compared: of two
elements with one path take the first (`LeastNatural`), and their parents are an earlier such pair, or they are
siblings of one name.

`DanglingReferencesReport` is about the other direction too. `Resolves` (`Questions`) says of a scenario that each
entity, named value, phase, element and controller it refers to is there, without a word of how the checks
find out. The proof brings it into the order of the checks (`Refers`) and goes through them again: each
check adds the finding of a reference exactly when its own part of `Refers` fails (`ActionRefers`,
`ConditionRefers`, `TriggersRefer`, `ElementsRefer`, `ControllersRefer`), and no other check adds one. An error that hides
a later check would be the exception, and the ifs and early returns of the checks are where that could be:
an action that keeps a gap or a lateral distance looks its entity up whatever else is wrong with it.

### 4.6 The pure parts

`Questions` is proved about as `QuestionsProofs` has it: a state is a question, or a question with its answer
(`Put`), so an invariant is a fact about one operator, for every scenario, network, pair of entities, condition
and profile of the types of the code (the assumptions of `Questions` above). What lowering makes of a program is
a constant of `Questions`, `lowered`, which `QuestionsMC` gives its value: `Lowering` and `Composition` are
recursive, and no module with a theorem may reach them.

`AnswersStayCoherent` first shows that everything a condition can measure is a whole number or nothing: a nearest
foot on a road (`Closest` takes the least of a finite set), an extent, a distance, a speed of approach, a date. A
rule and a value then can only meet one number (`OneNumber`), and two numbers that are compared as squares compare
as themselves. Of dates that needs the days of a year to ascend by months, of texts that a numeral
compares by its number and never else. The two kinds that are compared with another kind come last. Who
reaches a position on the flat is within the straight distance. And an entity that moves ahead in its own frame
closes on a point no faster than it moves, in every coordinate system the frame is of, so that its headway is no
longer than its time to collision (`ClosesNoFaster`, `SlowerTakesLonger`).

`DistanceStaysTheRoom` compares the code's separating axes and corners with the room along the axes of the world.
Boxes stand on quarter turns, so their axes are the world's (`AxesAreTheWorlds`), what they cover of an axis is its
middle and half its width or height (`ShadowsAre`), and they touch exactly when neither axis separates them
(`BoxesTouch`). Otherwise the least distance of a corner from the other box is at least what either is past the other,
and one corner attains it (`CornersArePast`, `BoxesAreApartBy`), since one of two intervals that do not overlap has an end next to
the other (`EndsArePast`). For gaps, `OverlapIsBetween` shows that the side on which the code looks for the other box is the one it
is on, because reference points lie inside their boxes; along and across a road it goes by the extents.

`CollisionTimesAreKept` is about two spans on an axis that keep their paces. `SpansCollide`: if the room between them,
as a square, is that of the rate of closing for a number of seconds, the room is used up when they are over
and is not at any second before. Going on changes neither the axis, which is the first entity's heading or the
world's, nor a box (`GoesOn`), so `measure_distance` moves with the entities (`StretchesShift`). Measured along a road this is
not so in general: on a road that bends, what goes straight on leaves the road, and no time is kept. The
runs ask it of roads on which it is; the theorem leaves roads out.

`DynamicsStayWithin` goes through the entries of a profile in the order of the fold that builds its controller
(`ProfilesFold`). Each segment is no steeper than its limits (`SlopesHold`, from what `durations` gives by limits, `DurationsAreEnough`, and
the peak of a shape, `BentRises`), whatever time was asked for, and starts at the speed the last ends at (`StartsAre`). A
second of the profile lies in one segment, or across the end of one and the start of others of which some may have no
length (`LevelAcross`, `SecondsAreWithin`); the controller that is advanced by that many seconds is at the right place
of the right one (`Driven`, `ThroughOneMore`).

`OnlyTheReplacedAreDropped` is about a reader that goes on after each defect. Every list of a document is gone through
in order, in the code by a loop and here by a fold, inside one another to the depth of four; `Goes` is
the list of what each element leaves, and each level has an invariant of what was read so far, which holds of nothing
read and outlives one element more: `LineSoFar`, `WidthsSoFar`, `LanesSoFar`, `SectionsSoFar`, `RoadsSoFar`, `JunctionsSoFar`.
Each has two halves. What was taken is fit for queries, whatever was written: pieces are end to end because the
next one is laid where their lengths reach, sections and widths ascend because a number below the last one is refused,
and every lane but the centre has a width from the start. And as long as nothing was found, what was taken is what was
written: as many pieces and sections, a road and a junction for every id, which needs that an id of a road or
a junction that is there already is a finding of its own, and every lane with its type, its widths and its references,
but for one whose id a later lane of the section has, which the reader overwrites (`Held` says it of the places
read so far, `LanesHold` that one more keeps it). That findings are only ever added carries the second half through the levels. A junction is
kept as exactly the connections that were written, each with all of its links (`Connected`).

### 4.7 The C interface

`HandleInv` joins the two: the engine is `Standing`, the scenario under construction is `Handed` (`Formed`, and
with a maneuver where it has a story: what builders and loaders make), and what runs is
`Runnable`. One lemma per builder shows that the action it appends is typed and that the list it
extends stays a list; the default chain of elements keeps the tree a tree. An `init` goes through
`SoundScenariosRun`: this is where the invariant needs `Formed`. `Faithful` says of every call what it does to the
run: it goes on, starts with what is authored now, ticks or ends; that is the step of `Session`
the call maps to. `LoadsReport` needs that findings without an error do not change which error is the first
(`FirstErrorAfter`), and that an engine without a run answers with the first error it reports
(`OutcomeReports`), which holds although warnings of the run are appended behind because those are never errors.

### 4.8 Only model-checked

- `ActsComplete` and `AxisLetGo`: liveness under fairness is out of the prover's reach.
- `TimeToCollisionIsKept` along a road (4.6).
- `RouteIsShortest`, `RoundTrip`: what searches over lanes and sections leave in general is a matter of the
  networks that documents can describe. `RoundTrip` is not true of
  every network that could be read (two roads may cross, and the nearest is then another than the one
  a position is on), and `RouteIsShortest` takes its ways up to a length that covers the network of the run.
- `ReadsAsWritten`, `LoweredAsComposed`: the readers of nested documents and expressions, lowering and
  composition are recursive operators, or compared with one.

The theorems of the library on induction take an operator as a parameter, which the provers cannot
instantiate. `InductionFacts` states what is needed of induction with sets in their place: a set that holds 0
and is closed under successor holds the naturals, a set of naturals has a least element, a function on an
interval defined from its predecessor exists and is the one. With it partial sums, rings of references and
paths are reasoned about. The folds of the community modules choose a recursive function on sets of
indices. `FoldRecursion` shows that such a function exists for a step given as a table, and
`FoldSteps` that any such function goes through the intervals from the first on; a fold over a sequence becomes the last of a
list of partial results (`ProfilesFold`, `SpansFold`, `LengthsFold`). A table needs the values a step may be given;
for documents, whose parts are of no bounded set, `SetsCome` builds the function from one set of indices to the next
and `SetsGo` reads it off, once for each kind of element (`Read`).

## 5. Findings

| run | what the code does | what it says |
|---|---|---|
| `delayed_stop` | the storyboard's stop trigger is evaluated twice at one time (S 263, S 525); the second sample of a delayed edge is false and wins, so the storyboard never stops | `scheduler.h:124`: every condition exactly once; `triggers.md:83` |
| `re_add` | an action whose actor is deleted and added again before its next poll drives it again (E 2653) | E 2641 |
| `clean_slate` | an entity that is deleted and added again keeps the time it was off the road and at the end of it (E 2660) | `engine.h:546`: a clean slate |
| `catalog_mark` | a controller entry, or an entry without declarations, leaves the mark "declarations applied", and the next, unrelated declarations of the document are skipped (`parameters.cpp:206`) | `reader_context.h:148`: the reader that runs next takes it; `parameters.h:33` |

`StopAnswersAsIfOnce` holds in `event_trigger` and fails in `delayed_stop`: a delayed *level* survives
the second evaluation, a delayed *edge* does not. `ReadsAsWritten` holds in `questions` and fails in
`catalog_mark`.

Met while reading and modelled as the code has it, without a run of their own:

- *Executor.* A step of a completed storyboard does not move the evaluation counter (S 240), and the last
  transitions are reported again at every further step, against `scheduler.h:218`. In the first evaluation
  elements start, and fire actions, before the stop triggers are checked (S 256-263), against
  `scheduler.h:118`; `StopWinsAfterFirst` is what remains true. A group that re-arms takes the transitions
  of its descendants back in the evaluation in which they happened (`ReportedUnlessRearmed`). An element that
  starts and ends in one evaluation keeps the end only. `stop_cascade()` does not name actions that answered
  Ongoing; `HeldIsPolled` is for a host that never does, as the engine. An event without a trigger that may
  execute more than once executes once and then waits for ever (documented in `storyboard.md`).
- *Ownership.* A Step-shaped lateral action supersedes the running owner (E 3160), against ADR-0025:122,
  `storyboard.md:181` and `osc-xml-coverage.md:150` (it "does **not** override a running one"); `conflicts` has
  one, and `LosersAreTold` is what holds of it. A
  superseded relative speed whose reference has left completes without taking its marker back (E 3029), and
  its next execution ends before it began, against `engine.h:429`; in `leaving` nothing supersedes the one
  action whose reference leaves, so `MarksHavePurpose` does not meet this marker. The integrate phase skips host-controlled entities, so an axis of theirs that waits to be
  dissolved stays.
- *Engine.* `last_dt_` is never reset (E 2159): an action that keeps a distance and fires in the evaluation
  at t = 0 of a second run closes the gap over a step of the first, although `engine.h:799-803` says that it
  is 0 during init; `ClosedForgets` excepts it. `ir/scenario.h:61-64` promises the document order for
  controllers, which tick in the order of their names (E 2697-2701).
- *C API.* A borrowed string lives until the next getter (`capi.cpp:1281, 1915, 1933, 2049`), against
  `capi.h:874-878`. A document that loads while the engine runs replaces the scenario although the call
  fails (`capi.cpp:1994-2003`). Building on a loaded scenario whose first group has no maneuver takes the
  front of an empty vector (`capi.cpp:403`).
- *Gaps.* Of overlapping boxes the signed gap an action keeps is 0 (E 1671, `distance_measure.cpp:368`),
  where E 1634-1636 speaks of the overlap. The speed of approach is that of the reference points. In a tight
  bend the nearest foot of a point may lie on another piece than the point.
- *Roads.* A lane with an id that is taken overwrites the other without a finding (`reader.cpp:282`), against
  `reader.cpp:92-93` and `reader.h:33-36` (nothing is dropped silently); `questions` has such documents, and
  `DroppedOnlyIfReplaced` names this as the one thing a silent reading may leave out. A section beyond the road's
  length is taken without a finding. A lane's weight in the route search is its whole road, so the first way to a lane
  is the shortest and the branch that takes a lane out of the frontier again is never taken.
- *XML.* `try_resolve` compares what is written where `resolve` resolves parameters first
  (`catalog.cpp:161-172`, `182-185`), so an object reference with `entryName="$car"` is never found, against
  `reader_context.h:107-110`. A declared value is converted by way of its text, so `${6 / 2}`, a double, is
  accepted for an integer (`parameters.cpp:254-276`; `62-64` says never). Integers are computed without a
  check of their range. The references of a document are indexed by plain element names, the last type of a
  name winning (`validate.cpp:172-189, 209-227`): a qualified reference that the engine would resolve
  (`element_ref.cpp:22-53`) is refused. The declarations of a controller in place are never read.
- *DSL.* The end of a parallel composition of timed and untimed members is a time and a completion; a timed
  member, a `wait` or a duration that follows counts from the time alone and drops the completion
  (`lower.cpp:1197-1202, 1217-1221, 1243-1247`), so that what comes after may start before the untimed member
  has ended. ADR-0031:61 has an absolute time only "when every preceding phase had a concrete duration", and
  `osc-dsl-coverage.md:57` says that a member starts when its predecessor ends. Nothing is reported.
  `lower.h` says that a program that was not checked is rejected; only one without a root is
  (`lower.cpp:1349-1353`). A file that cannot be read is InvalidArgument (`load.cpp:296-303`), NotFound in
  `load.h:95`.

## 6. What is not modelled

- *DSL frontend before lowering*: the lexer, parser, name resolution, constant expressions, the loading of
  imports, and the parts of the standard library that are only checked. Of lowering, the values that are
  bound (sizes, categories, coordinates, signs of offsets) and what a program declares of its own: behaviors
  and modifiers that are not of the library lower to a warning, members inherited from a base scenario are
  not read by the code.
- *Floating point*: rounding, determinism, NaN texts. Curved clothoids, arcs, spirals and NURBS are read and
  validated; only straight pieces have poses.
- *Expressions*: trigonometry is not in the language; overflow is not modelled; the model has no powers with
  fractions in the exponent.
- *Attributes of actions, conditions and geometry in XML*: they are texts that are read in order; which
  enumerator or range they need is left to `Validation` by its outcome.
- *What init actions leave of ownership*: the runs of `Ownership` start after `init`, with no action in
  progress. `Engine` has what they leave of values.
- *Composition of the executor with ownership and with the engine*: each leaves free what the other decides.
- *Wording of diagnostics, getters that only read, notifications other than transitions, Python bindings,
  command-line tools*: formatting and forwarding.

## 7. Plan

Done: the executor, triggers, ownership, the engine with its signal controllers, validation, the C interface
and its refinement of `Session`, conditions, geometry, motion, roads, the XML frontend, the lowering of the
DSL, and the proofs of section 4. Next:

1. A proof, where TLC agrees: the search for a route is Dijkstra's.
2. `StoryboardOwnership`: `Scheduler` composed with `Ownership`, in place of the free visits. Property: an
   event ends when its actions have completed or been superseded, and only then.
3. `StoryboardTriggers`: `Scheduler` composed with `Trigger`, so that answers come from histories that the
   walk advances and re-arms. Property: a trigger that waits is evaluated in every step.
4. The attribute readers of actions and conditions, as far as they decide which object is built.
