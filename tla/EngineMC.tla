------------------------------ MODULE EngineMC ------------------------------
(***************************************************************************)
(* Scenarios for Engine, each small enough to be run to the end twice: one  *)
(* of signal controllers, one of entities, one of values, one with defects.  *)
(***************************************************************************)
EXTENDS Engine

VARIABLE loaded   \* the scenario this host loads
mcVars == <<vars, loaded>>

Light(name, duration, states) == [name |-> name, duration |-> duration, states |-> states]
Controller(name, reference, delay, phases) ==
  [name |-> name, reference |-> reference, delay |-> delay, phases |-> phases]
Act(kind, who, value) == [kind |-> kind, who |-> who, value |-> value]
Named(kind, name, value) == [kind |-> kind, name |-> name, value |-> value]
Update(weather, time) ==
  [kind |-> "environment", update |-> [weather |-> weather, road |-> None, timeOfDay |-> time]]

\* A host may step by nothing, and by less than nothing.
Durations == {-1, 0, 1, 3}
\* Names and values are numbers, so that TLC can put all actions in one set.
Red == 0  Green == 1  Dark == 2  Override == 3       \* signal states
Main == 1  Side == 2  Lamp == 3                       \* controllers
S == 1  T == 2                                        \* signals
Both(state) == (S :> state) @@ (T :> state)
Car == 1  Host == 2                                   \* entities
V == 1  P == 2                                        \* a variable, a parameter

\* The crossing's second controller follows the first and shares a signal with
\* it; the third follows the second and its cycle has no length.
Crossing ==
  [NoScenario EXCEPT
     !.controllers =
        <<Controller(Main, None, None, <<Light(1, 2, S :> Green), Light(2, 1, S :> Red)>>),
          Controller(Side, Main, 1, <<Light(1, 0, Both(Red)), Light(2, 1, Both(Green)),
                                      Light(3, 1, Both(Dark))>>),
          Controller(Lamp, Side, 1, <<Light(1, 0, 3 :> Green)>>)>>,
     !.actions = {Named("signal", S, Override), Named("phase", Side, 1),
                  Named("phase", Lamp, 1), Named("phase", Main, 2)}]
\* A car the engine drives off the road, and one the host moves.
Driven ==
  [NoScenario EXCEPT
     !.entities = Car :> "engine",
     !.init = <<Act("setSpeed", Car, 1)>>,
     !.actions = {Act("delete", Car, 0), Act("add", Car, 1), Act("setSpeed", Car, 0),
                  Act("keepGap", Car, 0)}]
Hosted ==
  [NoScenario EXCEPT
     !.entities = (Car :> "engine") @@ (Host :> "host"),
     !.actions = {Act("delete", Host, 0), Act("setSpeed", Host, 1), Act("setSpeed", Car, 1),
                  Act("visibility", Host, 0)}]
Values ==
  [NoScenario EXCEPT
     !.variables = V :> 1, !.parameters = P :> 1, !.entities = Car :> "engine",
     !.init = <<Named("modifyVariable", V, 1)>>,
     !.actions = {Named("setVariable", V, 0), Named("modifyVariable", V, 0),
                  Named("setParameter", P, Text), Named("modifyParameter", P, 0),
                  Update(1, None), Update(None, [epoch |-> 5, animated |-> FALSE]),
                  Act("assignController", Car, 0)}]
Broken == [NoScenario EXCEPT
            !.defects = <<Warning("DeprecatedFeature"), Error("SemanticError")>>]

AllScenarios == {Crossing, Driven, Hosted, Values, Broken}
DrivenOnly == {Driven}
PollStates == {[x |-> 1, speed |-> 1]}

---------------------------------------------------------------------------

\* A host loads one scenario, over and over, and broken ones in between; only
\* the host of Values stages, and only where there is a road is there a gateway.
Stages(scn) == scn.variables # <<>>
Attaches(scn) == scn.entities # <<>> /\ ~Stages(scn)
OneHost ==
  /\ engine'.scenario \in {loaded, NoScenario}
  /\ ~Stages(loaded) => /\ engine'.user_defined_values = <<>> /\ ~engine'.date.set
                        /\ engine'.lane_width = DefaultLaneWidth
  /\ Attaches(loaded) \/ ~gateway'
  /\ Stages(loaded) => engine'.now <= 1
  /\ loaded.controllers = <<>> => engine'.signal_states = <<>>

MCInit == Init /\ loaded \in {scn \in Scenarios : ~has_errors(scn.defects)}
MCNext == Next /\ OneHost /\ UNCHANGED loaded
MCSpec == MCInit /\ [][MCNext]_mcVars
=============================================================================
