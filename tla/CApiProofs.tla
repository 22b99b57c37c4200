----------------------------- MODULE CApiProofs -----------------------------
(***************************************************************************)
(* Proofs about the C interface, for every host: whatever is authored,       *)
(* loaded, refused or interrupted, what runs is what was authored when the   *)
(* run started and can be run, what the host borrows stands, and a load       *)
(* reports itself.                                                            *)
(***************************************************************************)
EXTENDS CApi, EngineProofs, ValidationProofs

---------------------------------------------------------------------------
(* The actions that builders make.                                             *)

LEMMA HeldFacts ==
  ASSUME NEW q, NEW kind, NEW rest
  PROVE  /\ Held(q, kind, rest).kind = kind /\ Against(q, kind, rest).kind = kind
         /\ "position" \in DOMAIN Held(q, kind, rest) <=> "position" \in DOMAIN rest
         /\ "ref" \in DOMAIN Held(q, kind, rest) <=> "ref" \in DOMAIN rest
         /\ "position" \in DOMAIN Against(q, kind, rest) <=> "position" \in DOMAIN rest
         /\ "ref" \in DOMAIN Against(q, kind, rest)
<1>1. /\ DOMAIN Held(q, kind, rest) = {"kind", "who", "ill", "value"} \cup DOMAIN rest
      /\ Held(q, kind, rest).kind = kind
  BY DEF Held, Aimed, Over
<1>2. /\ DOMAIN Against(q, kind, rest) = {"ref"} \cup DOMAIN Held(q, kind, rest)
      /\ Against(q, kind, rest).kind = Held(q, kind, rest).kind
  <2>1. "kind" \in DOMAIN Held(q, kind, rest)
    BY <1>1
  <2> DEFINE held == Held(q, kind, rest)
  <2> HIDE DEF held
  <2> QED
    BY <2>1 DEF Against, Over, held
<1> QED
  BY <1>1, <1>2

\* An action that is held at a position has one as the builders make it.
LEMMA PlacedAction ==
  ASSUME NEW q, NEW kind, NEW ref, NEW ill
  PROVE  LET held == Held(q, kind, [position |-> At(ref, ill)])
         IN /\ held.kind = kind /\ "position" \in DOMAIN held /\ "ref" \notin DOMAIN held
            /\ held.position.frame \in {"world", "relative"}
<1> DEFINE rest == [position |-> At(ref, ill)]
<1>1. DOMAIN rest = {"position"} /\ rest.position.frame \in {"world", "relative"}
  BY DEF At
<1> HIDE DEF rest
<1>2. "position" \notin {"kind", "who", "ill", "value"}
  OBVIOUS
<1>3. Held(q, kind, rest).position = rest.position
  BY <1>1, <1>2 DEF Held, Aimed, Over
<1> USE DEF rest
<1>4. LET held == Held(q, kind, rest)
      IN held.kind = kind /\ "position" \in DOMAIN held /\ "ref" \notin DOMAIN held
  BY <1>1, HeldFacts
<1> QED
  BY <1>1, <1>3, <1>4

\* A call that is taken makes an action as the representation types it.
Typed(a) == a # None => TypedAction(a)

LEMMA BuildersType ==
  ASSUME NEW q
  PROVE  /\ Typed(speed_action(q)) /\ Typed(speed_profile_action(q)) /\ Typed(teleport_action(q))
         /\ Typed(lane_change_action(q)) /\ Typed(lane_offset_action(q))
         /\ Typed(lateral_distance_action(q)) /\ Typed(longitudinal_distance_action(q))
         /\ Typed(route_action(q)) /\ Typed(acquire_position_action(q))
         /\ Typed(trajectory_action(q)) /\ Typed(clothoid_action(q)) /\ Typed(nurbs_action(q))
         /\ Typed(assign_controller_action(q)) /\ Typed(activate_controller_action(q))
         /\ Typed(visibility_action(q))
         /\ \A kind \in {"setVariable", "setParameter"} : Typed(set_action(q, kind))
         /\ \A kind \in {"modifyVariable", "modifyParameter"} : Typed(modify_action(q, kind))
         /\ Typed(add_entity_action(q)) /\ Typed(delete_entity_action(q))
         /\ Typed(environment_action(q))
         /\ \A kind \in {"signal", "phase"} : Typed(signal_action(q, kind))
         /\ Typed(custom_command_action(q))
<1>1. Typed(speed_action(q)) /\ Typed(speed_profile_action(q))
  BY HeldFacts DEF Typed, TypedAction, Referring, Keeping, Given, speed_action, speed_profile_action
<1>2. Typed(teleport_action(q)) /\ Typed(acquire_position_action(q)) /\ Typed(add_entity_action(q))
  BY PlacedAction DEF Typed, TypedAction, Referring, Keeping, Given, teleport_action,
     acquire_position_action, add_entity_action
<1>3. Typed(lane_change_action(q)) /\ Typed(lane_offset_action(q))
  BY HeldFacts DEF Typed, TypedAction, Referring, Keeping, Given, lane_change_action, lane_offset_action
<1>4. Typed(lateral_distance_action(q)) /\ Typed(longitudinal_distance_action(q))
  BY HeldFacts DEF Typed, TypedAction, Referring, Keeping, Given, lateral_distance_action,
     longitudinal_distance_action
<1>5. Typed(route_action(q)) /\ Typed(assign_controller_action(q))
  BY HeldFacts DEF Typed, TypedAction, Referring, Keeping, Given, route_action, assign_controller_action
<1>6. /\ Typed(trajectory_action(q)) /\ Typed(nurbs_action(q))
      /\ Typed(clothoid_action(q))
  BY HeldFacts DEF Typed, TypedAction, Referring, Keeping, Given, trajectory_action, nurbs_action, clothoid_action,
     Trajectory
<1>7. /\ Typed(activate_controller_action(q)) /\ Typed(visibility_action(q))
      /\ Typed(delete_entity_action(q))
  BY DEF Typed, TypedAction, Referring, Keeping, Given, Aimed, activate_controller_action, visibility_action,
     delete_entity_action
<1>8. /\ \A kind \in {"setVariable", "setParameter"} : Typed(set_action(q, kind))
      /\ \A kind \in {"modifyVariable", "modifyParameter"} : Typed(modify_action(q, kind))
  BY DEF Typed, TypedAction, Referring, Keeping, Given, Named, set_action, modify_action
<1>9. /\ Typed(environment_action(q)) /\ Typed(custom_command_action(q))
      /\ \A kind \in {"signal", "phase"} : Typed(signal_action(q, kind))
  BY DEF Typed, TypedAction, Referring, Keeping, Given, environment_action, custom_command_action, signal_action
<1> QED
  BY <1>1, <1>2, <1>3, <1>4, <1>5, <1>6, <1>7, <1>8, <1>9

LEMMA ActionTyped ==
  ASSUME NEW q
  PROVE  Typed(action(q))
<1>1. \/ action(q) \in {speed_action(q), speed_profile_action(q), teleport_action(q),
                        lane_change_action(q), lane_offset_action(q), lateral_distance_action(q),
                        longitudinal_distance_action(q), route_action(q),
                        acquire_position_action(q), trajectory_action(q), clothoid_action(q),
                        nurbs_action(q), assign_controller_action(q),
                        activate_controller_action(q), visibility_action(q),
                        add_entity_action(q), delete_entity_action(q), environment_action(q),
                        custom_command_action(q)}
      \/ q.call \in {"setVariable", "setParameter"} /\ action(q) = set_action(q, q.call)
      \/ q.call \in {"modifyVariable", "modifyParameter"} /\ action(q) = modify_action(q, q.call)
      \/ q.call \in {"signal", "phase"} /\ action(q) = signal_action(q, q.call)
  BY DEF action
<1> QED
  BY <1>1, BuildersType

---------------------------------------------------------------------------
(* The scenario under construction.                                            *)

\* An element that may take the place n of a storyboard.
Placed(e, n) ==
  /\ e.parent \in 1 .. n - 1
  /\ Listed(e.triggers) /\ Listed(e.actors) /\ Listed(e.actions)
  /\ \A trigger \in Range(e.triggers) :
       /\ Listed(trigger) /\ \A group \in Range(trigger) : Listed(group)
       /\ \A group \in Range(trigger) : \A c \in Range(group) :
            c.expression # None => TypedCondition(c.expression)
  /\ e.type # "event" => e.actions = <<>>
  /\ \A a \in Range(e.actions) : Typed(a)

\* A storyboard stays a storyboard when elements are added to it.
LEMMA AddedIsFormed ==
  ASSUME NEW scn, Formed(scn), NEW new, NEW X, NEW added \in Seq(X),
         new.entities = scn.entities, new.init = scn.init, new.controllers = scn.controllers,
         new.elements = scn.elements \o added,
         \A i \in 1 .. Len(added) : Placed(added[i], Len(scn.elements) + i)
  PROVE  Formed(new)
<1> DEFINE old == scn.elements
           all == new.elements
<1>1. /\ old \in Seq(Range(old)) /\ Len(old) \in Nat /\ DOMAIN old = 1 .. Len(old)
      /\ Len(added) \in Nat /\ DOMAIN added = 1 .. Len(added)
  BY DEF Formed, Listed
<1>2. all = old \o added
  OBVIOUS
<1> HIDE DEF old, all
<1>3. Len(all) = Len(old) + Len(added) /\ DOMAIN all = 1 .. Len(all) /\ Listed(all)
  <2> DEFINE Y == Range(old) \cup X
  <2>1. old \in Seq(Y) /\ added \in Seq(Y)
    BY <1>1
  <2> HIDE DEF Y
  <2>2. all \in Seq(Y) /\ Len(all) = Len(old) + Len(added)
    BY <1>2, <2>1
  <2>3. Len(all) \in Nat /\ DOMAIN all = 1 .. Len(all) /\ \A i \in 1 .. Len(all) : all[i] \in Range(all)
    BY <2>2 DEF Range
  <2>4. all \in Seq(Range(all))
    BY <2>2, <2>3
  <2> QED
    BY <2>2, <2>3, <2>4 DEF Listed
<1>4. \A i \in 1 .. Len(old) : all[i] = old[i]
  BY <1>1, <1>2
<1>5. \A i \in 1 .. Len(added) : all[Len(old) + i] = added[i]
  BY <1>1, <1>2
<1>6. \A n \in 1 .. Len(all) :
        n \in 1 .. Len(old) \/ \E i \in 1 .. Len(added) : n = Len(old) + i
  <2> SUFFICES ASSUME NEW n \in 1 .. Len(all), n \notin 1 .. Len(old)
               PROVE  \E i \in 1 .. Len(added) : n = Len(old) + i
    OBVIOUS
  <2>1. n - Len(old) \in 1 .. Len(added) /\ n = Len(old) + (n - Len(old))
    BY <1>1, <1>3
  <2> QED
    BY <2>1
<1>7. Listed(all)
  BY <1>3
<1>8. \A n \in 1 .. Len(old) : TypedElement(scn, n)
  BY <1>1 DEF Formed, old
<1>9. ASSUME NEW n \in DOMAIN all
      PROVE  TypedElement(new, n)
  <2>1. CASE n \in 1 .. Len(old)
    <3>1. all[n] = old[n] /\ TypedElement(scn, n)
      BY <1>4, <1>8, <2>1
    <3> QED
      BY <3>1 DEF TypedElement, all, old
  <2>2. CASE n \notin 1 .. Len(old)
    <3>1. PICK i \in 1 .. Len(added) : n = Len(old) + i
      BY <1>3, <1>6, <2>2
    <3>2. all[n] = added[i] /\ Placed(added[i], n)
      BY <1>5, <3>1 DEF old
    <3> QED
      BY <3>2 DEF TypedElement, Placed, all
  <2> QED
    BY <2>1, <2>2
<1>10. \A element \in Range(all) :
         element \in Range(old) \/ \E i \in 1 .. Len(added) : element = added[i]
  <2> SUFFICES ASSUME NEW n \in 1 .. Len(all)
               PROVE  all[n] \in Range(old) \/ \E i \in 1 .. Len(added) : all[n] = added[i]
    BY <1>3 DEF Range
  <2> QED
    BY <1>1, <1>4, <1>5, <1>6 DEF Range
<1>11. ASSUME NEW a \in AllActions(new) \ {None}
       PROVE  TypedAction(a)
  <2>1. CASE a \in Range(new.init)
    BY <2>1 DEF Formed, AllActions
  <2>2. CASE a \notin Range(new.init)
    <3>1. PICK element \in Range(all) : a \in Range(element.actions)
      BY <2>2 DEF AllActions, all
    <3>2. CASE element \in Range(old)
      BY <3>1, <3>2 DEF Formed, AllActions, old
    <3>3. CASE element \notin Range(old)
      BY <1>10, <3>1, <3>3 DEF Placed, Typed
    <3> QED
      BY <3>2, <3>3
  <2> QED
    BY <2>1, <2>2
<1>12. ASSUME NEW c \in AllConditions(new)
       PROVE  TypedCondition(c)
  <2>1. PICK element \in Range(all) : \E trigger \in Range(element.triggers) :
          \E group \in Range(trigger) : \E held \in Range(group) : c = held.expression /\ c # None
    BY DEF AllConditions, all
  <2>2. CASE element \in Range(old)
    <3>1. c \in AllConditions(scn)
      BY <2>1, <2>2 DEF AllConditions, old
    <3> QED
      BY <3>1 DEF Formed
  <2>3. CASE element \notin Range(old)
    BY <1>10, <2>1, <2>3 DEF Placed
  <2> QED
    BY <2>2, <2>3
<1> QED
  BY <1>7, <1>9, <1>11, <1>12 DEF Formed, all

\* What is under construction, and what a document holds.
Handed(scn) == DOMAIN scn = DOMAIN Blank /\ Formed(scn) /\ HasManeuver(scn)

LEMMA Alone ==
  ASSUME NEW x
  PROVE  Listed(<<x>>) /\ Range(<<x>>) = {x} /\ Listed(<<>>) /\ Range(<<>>) = {}
<1>1. Range(<<x>>) = {x}
  BY DEF Range
<1>2. <<x>> \in Seq({x})
  OBVIOUS
<1>3. Range(<<>>) = {}
  BY DEF Range
<1>4. <<>> \in Seq({})
  OBVIOUS
<1> QED
  BY <1>1, <1>2, <1>3, <1>4 DEF Listed

LEMMA BareElement ==
  ASSUME NEW type, type # "event", NEW name, NEW parent, NEW n, parent \in 1 .. n - 1
  PROVE  Placed(Element(type, name, parent), n)
BY Alone DEF Placed, Element

LEMMA BlankIsHanded == Handed(Blank)
<1> DEFINE e == Element("storyboard", 0, 0)
<1>1. /\ Blank.entities = <<>> /\ Blank.init = <<>> /\ Blank.controllers = <<>>
      /\ Blank.elements = <<e>>
  BY DEF Blank
<1>2. e.triggers = <<>> /\ e.actors = <<>> /\ e.actions = <<>> /\ e.type = "storyboard"
  BY DEF Element
<1> HIDE DEF e
<1>3. DOMAIN Blank.elements = {1} /\ Blank.elements[1] = e /\ Len(Blank.elements) = 1
  BY <1>1
<1>4. Listed(<<>>) /\ Range(<<>>) = {} /\ Listed(<<e>>) /\ Range(<<e>>) = {e}
  BY Alone
<1>5. AllActions(Blank) = {} /\ AllConditions(Blank) = {}
  BY <1>1, <1>2, <1>4 DEF AllActions, AllConditions
<1>6. TypedElement(Blank, 1)
  BY <1>2, <1>3, <1>4 DEF TypedElement
<1>7. Formed(Blank)
  BY <1>1, <1>3, <1>4, <1>5, <1>6 DEF Formed
<1>8. HasManeuver(Blank)
  <2>1. <<e>> # <<>>
    OBVIOUS
  <2> QED
    BY <1>1, <1>3, <2>1 DEF HasManeuver
<1> QED
  BY <1>7, <1>8 DEF Handed

ScenarioMembers == {"entities", "init", "controllers", "parameters", "variables", "elements"}
LEMMA BlankMembers == DOMAIN Blank = ScenarioMembers
BY DEF Blank, ScenarioMembers

\* What a scenario becomes when elements are added to its storyboard.
LEMMA AddedIsHanded ==
  ASSUME NEW scn, Handed(scn), NEW X, NEW added \in Seq(X), NEW new,
         new = [scn EXCEPT !.elements = scn.elements \o added],
         \A i \in 1 .. Len(added) : Placed(added[i], Len(scn.elements) + i),
         Len(scn.elements) = 1 => \E i \in 1 .. Len(added) : added[i].type = "maneuver"
  PROVE  Handed(new) /\ Len(new.elements) = Len(scn.elements) + Len(added)
<1> DEFINE old == scn.elements
           all == new.elements
<1>1. /\ DOMAIN new = DOMAIN Blank /\ all = old \o added
      /\ new.entities = scn.entities /\ new.init = scn.init
      /\ new.controllers = scn.controllers
  BY BlankMembers DEF Handed, ScenarioMembers
<1>2. Formed(new)
  <2>1. Formed(scn)
    BY DEF Handed
  <2> QED
    BY <1>1, <2>1, AddedIsFormed
<1>3. /\ old \in Seq(Range(old)) /\ Len(old) \in Nat /\ DOMAIN old = 1 .. Len(old)
      /\ old # <<>> /\ Len(added) \in Nat
  BY DEF Handed, Formed, Listed, HasManeuver
<1>4. Len(old) # 0
  BY <1>3
<1>5. Len(old) > 1 =>
        \E n \in DOMAIN old \ {1} : old[n].type = "maneuver"
  BY DEF Handed, HasManeuver
<1> HIDE DEF old, all
<1>6. /\ Len(all) = Len(old) + Len(added) /\ DOMAIN all = 1 .. Len(all)
      /\ \A i \in 1 .. Len(old) : all[i] = old[i]
      /\ \A i \in 1 .. Len(added) : all[Len(old) + i] = added[i]
  <2> DEFINE Y == Range(old) \cup X
  <2>1. old \in Seq(Y) /\ added \in Seq(Y)
    BY <1>3
  <2> HIDE DEF Y
  <2> QED
    BY <1>1, <2>1
<1>7. HasManeuver(new)
  <2>1. Len(all) # 0 /\ all # <<>>
    BY <1>3, <1>4, <1>6
  <2>2. CASE Len(old) > 1
    <3>1. PICK n \in DOMAIN old \ {1} : old[n].type = "maneuver"
      BY <1>5, <2>2
    <3>2. n \in DOMAIN all \ {1} /\ all[n].type = "maneuver"
      BY <1>3, <1>6, <3>1
    <3> QED
      BY <2>1, <3>2 DEF HasManeuver, all
  <2>3. CASE ~ (Len(old) > 1)
    <3>1. Len(old) = 1
      BY <1>3, <1>4, <2>3
    <3>2. PICK i \in 1 .. Len(added) : added[i].type = "maneuver"
      BY <3>1 DEF old
    <3>3. Len(old) + i \in DOMAIN all \ {1} /\ all[Len(old) + i].type = "maneuver"
      BY <1>3, <1>6, <3>1, <3>2
    <3> QED
      BY <2>1, <3>3 DEF HasManeuver, all
  <2> QED
    BY <2>2, <2>3
<1> QED
  BY <1>1, <1>2, <1>6, <1>7 DEF Handed, old, all

LEMMA ChainIsHanded ==
  ASSUME NEW scn, Handed(scn)
  PROVE  Handed(WithChain(scn)) /\ Len(WithChain(scn).elements) > 1
<1> DEFINE added == <<Element("story", 0, 1), Element("act", 0, 2), Element("group", 0, 3),
                      Element("maneuver", 0, 4)>>
           X == {Element("story", 0, 1), Element("act", 0, 2), Element("group", 0, 3),
                 Element("maneuver", 0, 4)}
<1>1. CASE Len(scn.elements) > 1
  BY <1>1 DEF WithChain
<1>2. CASE ~ (Len(scn.elements) > 1)
  <2>1. scn.elements \in Seq(Range(scn.elements)) /\ scn.elements # <<>>
    BY DEF Handed, Formed, Listed, HasManeuver
  <2>2. Len(scn.elements) = 1
    <3> DEFINE old == scn.elements
    <3>1. old \in Seq(Range(old)) /\ old # <<>> /\ ~ (Len(old) > 1)
      BY <1>2, <2>1
    <3> HIDE DEF old
    <3>2. Len(old) \in Nat /\ Len(old) # 0
      BY <3>1
    <3>3. Len(old) = 1
      BY <3>1, <3>2, SMTT(30)
    <3> QED
      BY <3>3 DEF old
  <2>3. WithChain(scn) = [scn EXCEPT !.elements = scn.elements \o added]
    BY <1>2 DEF WithChain
  <2>4. added \in Seq(X) /\ Len(added) = 4
    OBVIOUS
  <2>5. /\ Placed(added[1], 2) /\ Placed(added[2], 3) /\ Placed(added[3], 4)
        /\ Placed(added[4], 5)
    BY BareElement
  <2>6. added[4].type = "maneuver"
    BY DEF Element
  <2> HIDE DEF added, X
  <2>7. \A i \in 1 .. Len(added) : i = 1 \/ i = 2 \/ i = 3 \/ i = 4
    BY <2>4
  <2>8. \A i \in 1 .. Len(added) : Placed(added[i], Len(scn.elements) + i)
    BY <2>2, <2>5, <2>7
  <2>9. \E i \in 1 .. Len(added) : added[i].type = "maneuver"
    BY <2>4, <2>6
  <2>10. /\ Handed(WithChain(scn))
         /\ Len(WithChain(scn).elements) = Len(scn.elements) + Len(added)
    BY <2>3, <2>4, <2>8, <2>9, AddedIsHanded
  <2> QED
    BY <2>2, <2>4, <2>10
<1> QED
  BY <1>1, <1>2

LEMMA ManeuverIsThere ==
  ASSUME NEW scn, Handed(scn), Len(scn.elements) > 1
  PROVE  Maneuver(scn) \in 1 .. Len(scn.elements)
<1> DEFINE found == {n \in DOMAIN scn.elements : scn.elements[n].type = "maneuver"}
<1>1. Len(scn.elements) \in Nat /\ DOMAIN scn.elements = 1 .. Len(scn.elements)
  BY DEF Handed, Formed, Listed
<1>2. found \subseteq Nat /\ found # {}
  BY <1>1 DEF Handed, HasManeuver
<1>3. PICK n \in found : \A k \in found : n <= k
  <2> HIDE DEF found
  <2> QED
    BY <1>2, LeastNatural
<1>4. \A k \in 1 .. n - 1 : scn.elements[k].type # "maneuver"
  BY <1>1, <1>3
<1> QED
  BY <1>1, <1>3, <1>4 DEF Maneuver

LEMMA EventIsPlaced ==
  ASSUME NEW q, NEW name, NEW parent, NEW n, parent \in 1 .. n - 1
  PROVE  Placed([Element("event", name, parent) EXCEPT
                   !.triggers = <<Time(q)>>, !.count = q.count, !.actions = <<action(q)>>], n)
<1> DEFINE e == [Element("event", name, parent) EXCEPT
                   !.triggers = <<Time(q)>>, !.count = q.count, !.actions = <<action(q)>>]
           condition == [expression |-> [by |-> "value", kind |-> "simulationTime", ill |-> q.late],
                         delay |-> 0]
           group == <<condition>>
<1>1. /\ e.parent = parent /\ e.type = "event" /\ e.actors = <<>>
      /\ e.triggers = <<Time(q)>> /\ e.actions = <<action(q)>>
  BY DEF Element
<1>2. Time(q) = <<group>>
  BY DEF Time
<1>3. TypedCondition(condition.expression)
  BY DEF TypedCondition
<1> HIDE DEF e, condition
<1>4. /\ Listed(e.triggers) /\ Range(e.triggers) = {<<group>>}
      /\ Listed(e.actors)
      /\ Listed(e.actions) /\ Range(e.actions) = {action(q)}
  BY <1>1, <1>2, Alone
<1>5. /\ Listed(<<group>>) /\ Range(<<group>>) = {group}
      /\ Listed(group) /\ Range(group) = {condition}
  BY Alone
<1> HIDE DEF group
<1>6. Placed(e, n)
  BY <1>1, <1>3, <1>4, <1>5, ActionTyped DEF Placed
<1> QED
  BY <1>6 DEF e

LEMMA EventIsHanded ==
  ASSUME NEW scn, Handed(scn), NEW q
  PROVE  Handed(append_storyboard_event(scn, q))
<1> DEFINE chain == WithChain(scn)
           name == Cardinality({n \in Events(chain) : chain.elements[n].parent = Maneuver(chain)}) + 1
           event == [Element("event", name, Maneuver(chain)) EXCEPT
                       !.triggers = <<Time(q)>>, !.count = q.count, !.actions = <<action(q)>>]
<1>1. append_storyboard_event(scn, q) = [chain EXCEPT !.elements = Append(chain.elements, event)]
  BY DEF append_storyboard_event
<1> HIDE DEF name
<1>2. Handed(chain) /\ Len(chain.elements) > 1
  BY ChainIsHanded
<1>3. Maneuver(chain) \in 1 .. Len(chain.elements) /\ Len(chain.elements) \in Nat
  <2> HIDE DEF chain
  <2>1. Listed(chain.elements)
    BY <1>2 DEF Handed, Formed
  <2>2. Len(chain.elements) \in Nat
    BY <2>1 DEF Listed
  <2> QED
    BY <1>2, <2>2, ManeuverIsThere
<1>4. Placed(event, Len(chain.elements) + 1)
  <2>1. Maneuver(chain) \in 1 .. (Len(chain.elements) + 1) - 1
    BY <1>3
  <2> QED
    BY <2>1, EventIsPlaced
<1> HIDE DEF chain, event
<1>5. <<event>> \in Seq({event}) /\ Len(<<event>>) = 1 /\ <<event>>[1] = event
  OBVIOUS
<1>6. Append(chain.elements, event) = chain.elements \o <<event>>
  <2> DEFINE Y == Range(chain.elements) \cup {event}
  <2>1. chain.elements \in Seq(Y) /\ event \in Y
    BY <1>2 DEF Handed, Formed, Listed
  <2> HIDE DEF Y
  <2> QED
    BY <2>1
<1>7. \A i \in 1 .. Len(<<event>>) : Placed(<<event>>[i], Len(chain.elements) + i)
  BY <1>4, <1>5
<1>8. Len(chain.elements) # 1
  <2> DEFINE many == Len(chain.elements)
  <2>1. many > 1 /\ many \in Nat
    BY <1>2, <1>3
  <2> HIDE DEF many
  <2>2. many # 1
    BY <2>1
  <2> QED
    BY <2>2 DEF many
<1> QED
  BY <1>1, <1>2, <1>5, <1>6, <1>7, <1>8, AddedIsHanded

\* A declaration leaves the storyboard and the init actions alone.
LEMMA DeclaredIsHanded ==
  ASSUME NEW scn, Handed(scn), NEW new, DOMAIN new = DOMAIN Blank,
         new.init = scn.init, new.elements = scn.elements, Listed(new.entities),
         Listed(new.controllers), \A c \in Range(new.controllers) : Listed(c.phases)
  PROVE  Handed(new)
<1>1. \A n : TypedElement(new, n) <=> TypedElement(scn, n)
  BY DEF TypedElement
<1>2. AllActions(new) = AllActions(scn) /\ AllConditions(new) = AllConditions(scn)
  BY DEF AllActions, AllConditions
<1>3. HasManeuver(new)
  BY DEF Handed, HasManeuver
<1>4. Formed(new)
  BY <1>1, <1>2 DEF Handed, Formed
<1> QED
  BY <1>3, <1>4 DEF Handed

LEMMA AppendedIsListed ==
  ASSUME NEW s, Listed(s), NEW x
  PROVE  Listed(Append(s, x)) /\ Range(Append(s, x)) \subseteq Range(s) \cup {x}
<1> DEFINE Y == Range(s) \cup {x}
           t == Append(s, x)
<1>1. s \in Seq(Y) /\ x \in Y
  BY DEF Listed
<1> HIDE DEF Y
<1>2. t \in Seq(Y)
  BY <1>1
<1> HIDE DEF t
<1>3. Range(t) \subseteq Y
  BY <1>2 DEF Range
<1>4. Len(t) \in Nat /\ DOMAIN t = 1 .. Len(t) /\ \A i \in 1 .. Len(t) : t[i] \in Range(t)
  BY <1>2 DEF Range
<1>5. t \in Seq(Range(t))
  BY <1>2, <1>4
<1> QED
  BY <1>3, <1>5 DEF Listed, Y, t

LEMMA BuildersHand ==
  ASSUME Handed(scenario), NEW q \in Requests, Build(q)
  PROVE  Handed(scenario') /\ UNCHANGED <<engine, gateway, published, value_buffer, lent, check>>
<1>1. \/ scn_engine_add_entity(q) \/ scn_engine_set_parameter(q) \/ scn_engine_declare_variable(q)
      \/ scn_engine_declare_traffic_signal_controller(q) \/ scn_engine_add_action(q)
  BY DEF Build
<1>2. /\ DOMAIN scenario = ScenarioMembers /\ DOMAIN Blank = ScenarioMembers
      /\ Listed(scenario.entities) /\ Listed(scenario.controllers)
      /\ \A c \in Range(scenario.controllers) : Listed(c.phases)
  BY BlankMembers DEF Handed, Formed
<1>3. CASE scn_engine_add_entity(q)
  <2> DEFINE entity == [id |-> q.who, mode |-> q.mode, object |-> q.object, box |-> q.box,
                        limits |-> q.box]
             new == [scenario EXCEPT !.entities = Append(scenario.entities, entity)]
  <2>1. /\ scenario' = scenario \/ scenario' = new
        /\ UNCHANGED <<engine, gateway, published, value_buffer, lent, check>>
    BY <1>3 DEF scn_engine_add_entity, Builder
  <2> HIDE DEF entity
  <2>2. /\ DOMAIN new = ScenarioMembers /\ new.init = scenario.init
        /\ new.elements = scenario.elements /\ new.controllers = scenario.controllers
        /\ new.entities = Append(scenario.entities, entity)
    BY <1>2 DEF ScenarioMembers
  <2> HIDE DEF new
  <2>3. Listed(new.entities) /\ Listed(new.controllers)
    BY <1>2, <2>2, AppendedIsListed
  <2>4. Handed(new)
    BY <1>2, <2>2, <2>3, DeclaredIsHanded
  <2> QED
    BY <2>1, <2>4
<1>4. CASE scn_engine_set_parameter(q)
  <2> DEFINE values == With(scenario.parameters, q.name, q.value)
             new == [scenario EXCEPT !.parameters = values]
  <2>1. /\ scenario' = scenario \/ scenario' = new
        /\ UNCHANGED <<engine, gateway, published, value_buffer, lent, check>>
    BY <1>4 DEF scn_engine_set_parameter, Builder
  <2> HIDE DEF values
  <2>2. /\ DOMAIN new = ScenarioMembers /\ new.init = scenario.init
        /\ new.elements = scenario.elements /\ new.controllers = scenario.controllers
        /\ new.entities = scenario.entities
    BY <1>2 DEF ScenarioMembers
  <2> HIDE DEF new
  <2>3. Handed(new)
    BY <1>2, <2>2, DeclaredIsHanded
  <2> QED
    BY <2>1, <2>3
<1>5. CASE scn_engine_declare_variable(q)
  <2> DEFINE values == With(scenario.variables, q.name, q.value)
             new == [scenario EXCEPT !.variables = values]
  <2>1. /\ scenario' = scenario \/ scenario' = new
        /\ UNCHANGED <<engine, gateway, published, value_buffer, lent, check>>
    BY <1>5 DEF scn_engine_declare_variable, Builder
  <2> HIDE DEF values
  <2>2. /\ DOMAIN new = ScenarioMembers /\ new.init = scenario.init
        /\ new.elements = scenario.elements /\ new.controllers = scenario.controllers
        /\ new.entities = scenario.entities
    BY <1>2 DEF ScenarioMembers
  <2> HIDE DEF new
  <2>3. Handed(new)
    BY <1>2, <2>2, DeclaredIsHanded
  <2> QED
    BY <2>1, <2>3
<1>6. CASE scn_engine_declare_traffic_signal_controller(q)
  <2> DEFINE controller == [name |-> q.name, reference |-> q.ref,
                            delay |-> IF q.delay < 0 THEN None ELSE q.delay,
                            phases |-> q.phases]
             new == [scenario EXCEPT !.controllers = Append(scenario.controllers, controller)]
  <2>1. /\ scenario' = scenario \/ scenario' = new
        /\ UNCHANGED <<engine, gateway, published, value_buffer, lent, check>>
    BY <1>6 DEF scn_engine_declare_traffic_signal_controller, Builder
  <2>2. Listed(controller.phases)
    BY RequestsAssumption
  <2> HIDE DEF controller
  <2>3. /\ DOMAIN new = ScenarioMembers /\ new.init = scenario.init
        /\ new.elements = scenario.elements /\ new.entities = scenario.entities
        /\ new.controllers = Append(scenario.controllers, controller)
    BY <1>2 DEF ScenarioMembers
  <2> HIDE DEF new
  <2>4. Listed(new.controllers) /\ \A c \in Range(new.controllers) : Listed(c.phases)
    BY <1>2, <2>2, <2>3, AppendedIsListed
  <2>5. Handed(new)
    BY <1>2, <2>3, <2>4, DeclaredIsHanded
  <2> QED
    BY <2>1, <2>5
<1>7. CASE scn_engine_add_action(q)
  <2>1. /\ scenario' \in {scenario, WithChain(scenario), append_storyboard_event(scenario, q)}
        /\ UNCHANGED <<engine, gateway, published, value_buffer, lent, check>>
    BY <1>7 DEF scn_engine_add_action, Builder
  <2> QED
    BY <2>1, ChainIsHanded, EventIsHanded
<1> QED
  BY <1>1, <1>3, <1>4, <1>5, <1>6, <1>7

---------------------------------------------------------------------------
(* Starting what was authored.                                                 *)

LEMMA DescribedFacts ==
  ASSUME NEW scn, Formed(scn)
  PROVE  /\ Described(scn).defects = findings(scn) /\ findings(scn) \in Seq(Diagnostic)
         /\ Len(Described(scn).init) \in Nat
         /\ ~ has_errors(findings(scn)) => Described(scn).authored = scn /\ Runnable(scn)
<1>1. findings(scn) \in Seq(Diagnostic)
  <2>1. Finding \subseteq Diagnostic
    BY DEF Finding
  <2> HIDE DEF Finding
  <2> QED
    BY <2>1, ScenarioChecked DEF Findings
<1>2. Len(scn.init) \in Nat
  BY DEF Formed, Listed
<1> DEFINE found == findings(scn)
           cast == [id \in ids(scn) |-> (CHOOSE e \in Range(scn.entities) : e.id = id).mode]
           fired == UNION {Range(scn.elements[n].actions) : n \in Events(scn)}
           sound == [NoScenario EXCEPT
                      !.authored = scn, !.defects = found, !.entities = cast,
                      !.controllers = scn.controllers, !.variables = scn.variables,
                      !.parameters = scn.parameters, !.init = scn.init, !.actions = fired]
           bare == [NoScenario EXCEPT !.defects = found]
<1>3. Described(scn) = IF has_errors(found) THEN bare ELSE sound
  BY DEF Described
<1> HIDE DEF cast, fired, found
<1>4. bare.defects = found /\ bare.init = <<>> /\ Len(<<>>) \in Nat
  BY DEF NoScenario
<1>5. sound.defects = found /\ sound.init = scn.init /\ sound.authored = scn
  BY DEF NoScenario
<1> HIDE DEF bare, sound
<1>6. /\ Described(scn).defects = found /\ Len(Described(scn).init) \in Nat
      /\ ~ has_errors(found) => Described(scn).authored = scn
  BY <1>2, <1>3, <1>4, <1>5
<1> QED
  BY <1>1, <1>6, SoundScenariosRun DEF found

\* An engine that is told to run a scenario goes on, or starts it.
Starts(e, f, scn) ==
  /\ ~ e.initialized /\ ~ has_errors(findings(scn))
  /\ f.initialized /\ f.scenario.authored = scn /\ f.now = 0 /\ Runnable(scn)
GoesOn(e, f) == f.initialized = e.initialized /\ f.scenario = e.scenario /\ f.now = e.now

LEMMA OutcomeIsFaithful ==
  ASSUME NEW e, Standing(e), NEW scn, Formed(scn), NEW o \in init_outcomes(e, Described(scn))
  PROVE  Standing(o.engine) /\ (GoesOn(e, o.engine) \/ Starts(e, o.engine, scn))
<1> DEFINE d == Described(scn)
<1>1. /\ d.defects = findings(scn) /\ Len(d.init) \in Nat
      /\ ~ has_errors(findings(scn)) => d.authored = scn /\ Runnable(scn)
  BY DescribedFacts
<1> HIDE DEF d
<1>2. o \in init_outcomes(e, d)
  BY DEF d
<1>3. /\ Standing(o.engine)
      /\ \/ Changes(e, o.engine, {"diagnostics"})
         \/ /\ ~ e.initialized /\ ~ has_errors(d.defects)
            /\ o.engine.initialized /\ o.engine.scenario = d /\ o.engine.now = 0
  BY <1>1, <1>2, OutcomeStands
<1>4. Changes(e, o.engine, {"diagnostics"}) => GoesOn(e, o.engine)
  BY DEF Changes, Members, GoesOn
<1> QED
  BY <1>1, <1>3, <1>4 DEF Starts

---------------------------------------------------------------------------
(* Every call.                                                                 *)

HandleInv ==
  /\ Standing(engine) /\ Handed(scenario)
  /\ engine.initialized => Runnable(engine.scenario.authored)

Ticks(e, f) ==
  e.initialized /\ f.initialized /\ f.scenario = e.scenario /\ e.now \in Int /\ f.now >= e.now
Ends(e, f) == e.initialized /\ ~ f.initialized /\ f.now = 0

\* What a call does to the scenario under construction and to the one that runs.
Faithful ==
  \/ GoesOn(engine, engine')
  \/ Starts(engine, engine', scenario')
  \/ (Ticks(engine, engine') \/ Ends(engine, engine')) /\ scenario' = scenario
Kept == HandleInv' /\ Faithful

LEMMA StoodGoesOn ==
  ASSUME HandleInv, Stood(engine, engine'), Handed(scenario')
  PROVE  Kept
BY DEF HandleInv, Kept, Faithful, Stood, GoesOn

LEMMA StartedIsKept ==
  ASSUME HandleInv, Handed(scenario'), Standing(engine'),
         GoesOn(engine, engine') \/ Starts(engine, engine', scenario')
  PROVE  Kept
BY DEF HandleInv, Kept, Faithful, GoesOn, Starts

LEMMA BuildIsKept ==
  ASSUME HandleInv, NEW q \in Requests, Build(q)
  PROVE  Kept
<1>1. Handed(scenario') /\ engine' = engine
  BY BuildersHand DEF HandleInv
<1>2. Stood(engine, engine')
  BY <1>1, SameStands DEF HandleInv
<1> QED
  BY <1>1, <1>2, StoodGoesOn

LEMMA InitIsKept ==
  ASSUME HandleInv, scn_engine_init
  PROVE  Kept
<1>1. PICK o \in init_outcomes(engine, Described(scenario)) :
        engine' = o.engine /\ scenario' = scenario
  BY DEF scn_engine_init, init
<1>2. Formed(scenario) /\ Standing(engine) /\ Handed(scenario)
  BY DEF HandleInv, Handed
<1>3. Standing(o.engine) /\ (GoesOn(engine, o.engine) \/ Starts(engine, o.engine, scenario))
  BY <1>2, OutcomeIsFaithful
<1> QED
  BY <1>1, <1>2, <1>3, StartedIsKept

LEMMA StepIsKept ==
  ASSUME HandleInv, NEW dt \in Steps, scn_engine_step(dt)
  PROVE  Kept
<1>1. dt \in Int /\ Standing(engine) /\ engine.now \in Int
  BY StepsAssumption DEF HandleInv, Standing
<1>2. step(dt) /\ scenario' = scenario
  BY DEF scn_engine_step
<1>3. /\ Standing(engine')
      /\ \/ engine' = engine
         \/ /\ dt >= 0 /\ engine.initialized /\ engine'.initialized
            /\ engine'.scenario = engine.scenario /\ engine'.now = engine.now + dt
  BY <1>1, <1>2, StepStands
<1>4. CASE engine' = engine
  BY <1>2, <1>4, SameStands, StoodGoesOn DEF HandleInv
<1>5. CASE engine' # engine
  <2>1. Ticks(engine, engine')
    BY <1>1, <1>3, <1>5 DEF Ticks
  <2> QED
    BY <1>2, <1>3, <2>1 DEF HandleInv, Kept, Faithful, Ticks
<1> QED
  BY <1>4, <1>5

LEMMA CloseIsKept ==
  ASSUME HandleInv, scn_engine_close
  PROVE  Kept
<1>1. close /\ scenario' = scenario /\ Standing(engine)
  BY DEF scn_engine_close, HandleInv
<1>2. /\ Standing(engine')
      /\ \/ ~ engine.initialized /\ engine' = engine
         \/ engine.initialized /\ ~ engine'.initialized /\ engine'.now = 0
  BY <1>1, CloseStands
<1>3. CASE engine' = engine
  BY <1>1, <1>3, SameStands, StoodGoesOn DEF HandleInv
<1>4. CASE engine.initialized /\ ~ engine'.initialized /\ engine'.now = 0
  BY <1>1, <1>2, <1>4 DEF HandleInv, Kept, Faithful, Ends
<1> QED
  BY <1>2, <1>3, <1>4

\* Whatever a load does to the engine, it reports by its diagnostics alone.
LEMMA LoadOutcome ==
  ASSUME Standing(engine), NEW document \in Documents, load_xml(document)
  PROVE  \/ /\ has_errors(document.findings) /\ scenario' = scenario
            /\ Stood(engine, engine')
            /\ engine'.diagnostics = document.findings \o <<>>
            /\ status' = first_error_code(document.findings)
         \/ /\ ~ has_errors(document.findings) /\ scenario' = document.scenario
            /\ \E o \in init_outcomes(engine, Described(document.scenario)) :
                 /\ Stood(o.engine, engine')
                 /\ engine'.diagnostics = document.findings \o o.engine.diagnostics
                 /\ status' = o.status
<1>0. Formed(document.scenario)
  BY DocumentsAssumption
<1>1. CASE has_errors(document.findings)
  <2> DEFINE cleared == [engine EXCEPT !.diagnostics = <<>>]
  <2>0. PICK o \in {[status |-> first_error_code(document.findings), engine |-> cleared]} :
          /\ scenario' = scenario /\ status' = o.status
          /\ engine' = [o.engine EXCEPT !.diagnostics = document.findings \o @]
    BY <1>1 DEF load_xml
  <2>00. o.status = first_error_code(document.findings) /\ o.engine = cleared
    <3> HIDE DEF cleared
    <3> QED  OBVIOUS
  <2>1. /\ scenario' = scenario /\ status' = first_error_code(document.findings)
        /\ engine' = [cleared EXCEPT !.diagnostics = document.findings \o cleared.diagnostics]
    <3> HIDE DEF cleared
    <3> QED  BY <2>0, <2>00
  <2>2. cleared.diagnostics = <<>>
    BY DEF Standing, Shaped, Members
  <2>3. /\ engine' = [engine EXCEPT !.diagnostics = document.findings \o <<>>]
        /\ engine'.diagnostics = document.findings \o <<>>
    BY <2>1, <2>2 DEF Standing, Shaped, Members
  <2>4. Changes(engine, engine', {"diagnostics"})
    BY <2>3, OneMember DEF Standing, Members
  <2>5. Stood(engine, engine')
    BY <2>4, ChangesMore, StagedStands
  <2> QED
    BY <1>1, <2>1, <2>3, <2>5
<1>2. CASE ~ has_errors(document.findings)
  <2>1. PICK o \in init_outcomes(engine, Described(document.scenario)) :
          /\ scenario' = document.scenario /\ status' = o.status
          /\ engine' = [o.engine EXCEPT !.diagnostics = document.findings \o o.engine.diagnostics]
    BY <1>2 DEF load_xml
  <2>2. Standing(o.engine)
    BY <1>0, OutcomeIsFaithful
  <2>3. /\ Changes(o.engine, engine', {"diagnostics"})
        /\ engine'.diagnostics = document.findings \o o.engine.diagnostics
    BY <2>1, <2>2, OneMember DEF Standing, Shaped, Members
  <2>4. Stood(o.engine, engine')
    BY <2>2, <2>3, ChangesMore, StagedStands
  <2> QED
    BY <1>2, <2>1, <2>3, <2>4
<1> QED
  BY <1>1, <1>2

LEMMA LoadIsKept ==
  ASSUME HandleInv, NEW document \in Documents, load_xml(document)
  PROVE  Kept
<1>0. Standing(engine) /\ Handed(scenario)
  BY DEF HandleInv
<1>1. Handed(document.scenario) /\ Formed(document.scenario)
  BY DocumentsAssumption DEF Handed
<1>2. CASE scenario' = scenario /\ Stood(engine, engine')
  BY <1>0, <1>2, StoodGoesOn
<1>3. ASSUME scenario' = document.scenario,
             NEW o \in init_outcomes(engine, Described(document.scenario)),
             Stood(o.engine, engine')
      PROVE  Kept
  <2>1. /\ Standing(o.engine)
        /\ GoesOn(engine, o.engine) \/ Starts(engine, o.engine, document.scenario)
    BY <1>0, <1>1, OutcomeIsFaithful
  <2>2. /\ Standing(engine')
        /\ GoesOn(engine, engine') \/ Starts(engine, engine', document.scenario)
    BY <1>3, <2>1 DEF Stood, GoesOn, Starts
  <2> QED
    BY <1>1, <1>3, <2>2, StartedIsKept
<1> QED
  BY <1>0, <1>2, <1>3, LoadOutcome

LEMMA CallIsKept ==
  ASSUME HandleInv, [CNext]_capiVars
  PROVE  Kept
<1>0. Standing(engine) /\ Handed(scenario)
  BY DEF HandleInv
<1>1. ASSUME engine' = engine, scenario' = scenario
      PROVE  Kept
  BY <1>0, <1>1, SameStands, StoodGoesOn
<1>2. ASSUME Stood(engine, engine'), scenario' = scenario
      PROVE  Kept
  BY <1>0, <1>2, StoodGoesOn
<1>3. ASSUME NEW q \in Requests, Build(q)
      PROVE  Kept
  BY <1>3, BuildIsKept
<1>4. CASE scn_engine_init
  BY <1>4, InitIsKept
<1>5. CASE scn_engine_close
  BY <1>5, CloseIsKept
<1>6. CASE scn_engine_clear_diagnostics
  BY <1>0, <1>2, <1>6, SettersStand DEF scn_engine_clear_diagnostics
<1>7. ASSUME NEW dt \in Steps, scn_engine_step(dt)
      PROVE  Kept
  BY <1>7, StepIsKept
<1>8. ASSUME NEW i \in 1..2, scn_engine_diagnostic_at(i)
      PROVE  Kept
  BY <1>1, <1>8 DEF scn_engine_diagnostic_at
<1>9. ASSUME NEW document \in Documents, load_xml(document)
      PROVE  Kept
  BY <1>9, LoadIsKept
<1>10. ASSUME NEW getter \in Getters, read_string(getter)
       PROVE  Kept
  BY <1>1, <1>10 DEF read_string
<1>11. ASSUME NEW id, ask(id)
       PROVE  Kept
  BY <1>1, <1>11 DEF ask, handleVars
<1>12. ASSUME NEW name \in UserNames, NEW value \in UserValues, scn_engine_set(name, value)
       PROVE  Kept
  <2>1. scenario' = scenario
    BY <1>12 DEF scn_engine_set, handleVars
  <2>2. Stood(engine, engine')
    BY <1>0, <1>12, SettersStand DEF scn_engine_set
  <2> QED
    BY <1>2, <2>1, <2>2
<1>13. ASSUME NEW installed \in BOOLEAN, scn_engine_set_callbacks(installed)
       PROVE  Kept
  <2>1. scenario' = scenario /\ engine' = engine
    BY <1>13 DEF scn_engine_set_callbacks, set_gateway, handleVars
  <2> QED
    BY <1>1, <2>1
<1>14. ASSUME NEW source \in Sources, scn_check_dsl(source)
       PROVE  Kept
  BY <1>1, <1>14 DEF scn_check_dsl
<1>15. CASE scn_dsl_check_destroy
  BY <1>1, <1>15 DEF scn_dsl_check_destroy, vars
<1>16. CASE UNCHANGED capiVars
  BY <1>1, <1>16 DEF capiVars, vars, handleVars
<1> QED
  BY <1>3, <1>4, <1>5, <1>6, <1>7, <1>8, <1>9, <1>10, <1>11, <1>12, <1>13, <1>14, <1>15, <1>16
  DEF CNext

LEMMA HandleBegins == CInit => HandleInv
<1>1. Fresh.initialized = FALSE
  BY DEF Fresh
<1>2. SUFFICES ASSUME CInit
               PROVE  HandleInv
  OBVIOUS
<1>3. engine = Fresh /\ scenario = Blank
  BY <1>2 DEF CInit, Init
<1> QED
  BY <1>1, <1>3, FreshStands, BlankIsHanded DEF HandleInv

\* The inductive invariant of a handle: its engine stands, its scenario is one
\* that calls and loaders can have made, and what runs can be run.
THEOREM HandleStands == CSpec => []HandleInv
<1>1. HandleInv /\ [CNext]_capiVars => HandleInv'
  BY CallIsKept DEF Kept
<1> QED
  BY <1>1, HandleBegins, PTL DEF CSpec

\* Whatever builder calls and documents have made of a scenario, one that the
\* engine runs is one in which every name, path and reference resolves.
THEOREM OnlyRunnableRuns == CSpec => []RunsRunnable
<1>1. HandleInv => RunsRunnable
  BY DEF HandleInv, RunsRunnable
<1> QED
  BY <1>1, HandleStands, PTL

\* The handle implements a session: what runs is what was authored when the run
\* started, and no edit, load, failure or refusal reaches it before it ends.
THEOREM RunIsWhatWasAuthored == CSpec => RunsWhatWasAuthored
<1>1. CInit => Handle!Init
  BY DEF CInit, Init, Fresh, Handle!Init, Running
<1>2. HandleInv /\ [CNext]_capiVars => [Handle!Next]_<<scenario, Running, engine.now>>
  <2> SUFFICES ASSUME HandleInv, [CNext]_capiVars
               PROVE  Handle!Next
    OBVIOUS
  <2>1. Faithful
    BY CallIsKept DEF Kept
  <2>2. CASE GoesOn(engine, engine')
    <3>1. UNCHANGED <<Running, engine.now>>
      BY <2>2 DEF GoesOn, Running
    <3> QED
      BY <3>1 DEF Handle!Next, Handle!Edit
  <2>3. CASE Starts(engine, engine', scenario')
    <3>1. Running = {} /\ Running' = {scenario'} /\ engine'.now = 0
      BY <2>3 DEF Starts, Running
    <3> QED
      BY <3>1 DEF Handle!Next, Handle!Start
  <2>4. CASE Ticks(engine, engine') /\ scenario' = scenario
    <3>1. Running # {} /\ Running' = Running /\ engine'.now >= engine.now
      BY <2>4 DEF Ticks, Running
    <3> QED
      BY <2>4, <3>1 DEF Handle!Next, Handle!Tick
  <2>5. CASE Ends(engine, engine') /\ scenario' = scenario
    <3>1. Running # {} /\ Running' = {} /\ engine'.now = 0
      BY <2>5 DEF Ends, Running
    <3> QED
      BY <2>5, <3>1 DEF Handle!Next, Handle!Stop
  <2> QED
    BY <2>1, <2>2, <2>3, <2>4, <2>5 DEF Faithful
<1> QED
  BY <1>1, <1>2, HandleStands, PTL DEF CSpec, RunsWhatWasAuthored, Handle!Spec

---------------------------------------------------------------------------
(* What the host has borrowed.                                                 *)

\* What is lent is forgotten, or read again where the findings did not change.
LEMMA LentStands ==
  ASSUME HandleInv, DiagnosticsStand, [CNext]_capiVars
  PROVE  DiagnosticsStand'
<1>0. Standing(engine) /\ Shaped(engine)
  BY DEF HandleInv, Standing
<1>1. ASSUME lent' = None
      PROVE  DiagnosticsStand'
  BY <1>1 DEF DiagnosticsStand
<1>2. ASSUME lent' = lent, engine'.diagnostics = engine.diagnostics
      PROVE  DiagnosticsStand'
  BY <1>2 DEF DiagnosticsStand
<1>3. ASSUME NEW q \in Requests, Build(q)
      PROVE  DiagnosticsStand'
  <2>1. lent' = lent /\ engine' = engine
    BY <1>3 DEF Build, scn_engine_add_entity, scn_engine_set_parameter, scn_engine_declare_variable,
                scn_engine_declare_traffic_signal_controller, scn_engine_add_action, Builder
  <2> QED
    BY <1>2, <2>1
<1>4. CASE scn_engine_init
  BY <1>1, <1>4 DEF scn_engine_init, Forgetting
<1>5. CASE scn_engine_close
  BY <1>0, <1>2, <1>5, CloseStands DEF scn_engine_close, Forgetting
<1>6. CASE scn_engine_clear_diagnostics
  BY <1>1, <1>6 DEF scn_engine_clear_diagnostics, Forgetting
<1>7. ASSUME NEW dt \in Steps, scn_engine_step(dt)
      PROVE  DiagnosticsStand'
  BY <1>1, <1>7 DEF scn_engine_step, Forgetting
<1>8. ASSUME NEW i \in 1..2, scn_engine_diagnostic_at(i)
      PROVE  DiagnosticsStand'
  <2>1. CASE i \in DOMAIN engine.diagnostics
    <3>1. /\ lent' = [index |-> i, finding |-> engine.diagnostics[i]]
          /\ engine' = engine
      BY <1>8, <2>1 DEF scn_engine_diagnostic_at
    <3> QED
      BY <2>1, <3>1 DEF DiagnosticsStand
  <2>2. CASE i \notin DOMAIN engine.diagnostics
    BY <1>2, <1>8, <2>2 DEF scn_engine_diagnostic_at
  <2> QED
    BY <2>1, <2>2
<1>9. ASSUME NEW document \in Documents, load_xml(document)
      PROVE  DiagnosticsStand'
  BY <1>1, <1>9 DEF load_xml, Forgetting
<1>10. ASSUME NEW getter \in Getters, read_string(getter)
       PROVE  DiagnosticsStand'
  BY <1>2, <1>10 DEF read_string
<1>11. ASSUME NEW id, ask(id)
       PROVE  DiagnosticsStand'
  BY <1>2, <1>11 DEF ask, handleVars
<1>12. ASSUME NEW name \in UserNames, NEW value \in UserValues, scn_engine_set(name, value)
       PROVE  DiagnosticsStand'
  <2>1. lent' = lent
    BY <1>12 DEF scn_engine_set, handleVars
  <2>2. engine'.diagnostics = engine.diagnostics
    BY <1>0, <1>12 DEF scn_engine_set, set_variable, set_user_defined_value,
                       set_traffic_signal_state, Call, Shaped, Members
  <2> QED
    BY <1>2, <2>1, <2>2
<1>13. ASSUME NEW installed \in BOOLEAN, scn_engine_set_callbacks(installed)
       PROVE  DiagnosticsStand'
  BY <1>2, <1>13 DEF scn_engine_set_callbacks, set_gateway, handleVars
<1>14. ASSUME NEW source \in Sources, scn_check_dsl(source)
       PROVE  DiagnosticsStand'
  BY <1>2, <1>14 DEF scn_check_dsl
<1>15. CASE scn_dsl_check_destroy
  BY <1>2, <1>15 DEF scn_dsl_check_destroy, vars
<1>16. CASE UNCHANGED capiVars
  BY <1>2, <1>16 DEF capiVars, vars, handleVars
<1> QED
  BY <1>3, <1>4, <1>5, <1>6, <1>7, <1>8, <1>9, <1>10, <1>11, <1>12, <1>13, <1>14, <1>15, <1>16
  DEF CNext

\* A diagnostic that the host has borrowed reads the same for as long as the
\* host may keep it, through builder calls, setters, getters and close.
THEOREM BorrowedStands == CSpec => []DiagnosticsStand
<1>1. CInit => DiagnosticsStand
  BY DEF CInit, DiagnosticsStand
<1>2. HandleInv /\ DiagnosticsStand /\ [CNext]_capiVars => DiagnosticsStand'
  BY LentStands
<1> QED
  BY <1>1, <1>2, HandleStands, PTL DEF CSpec

---------------------------------------------------------------------------
(* What a load reports.                                                        *)

\* Findings without an error do not change which error comes first.
LEMMA FirstErrorAfter ==
  ASSUME NEW a \in Seq(Diagnostic), NEW b \in Seq(Diagnostic), ~ has_errors(a)
  PROVE  first_error_code(a \o b) = first_error_code(b)
<1> DEFINE n == Len(a)
           all == a \o b
<1>1. /\ n \in Nat /\ Len(b) \in Nat /\ DOMAIN a = 1 .. n /\ DOMAIN b = 1 .. Len(b)
      /\ DOMAIN all = 1 .. n + Len(b)
      /\ \A i \in DOMAIN a : all[i] = a[i]
      /\ \A i \in DOMAIN b : i + n \in DOMAIN all /\ all[i + n] = b[i]
  OBVIOUS
<1> HIDE DEF n, all
<1>2. \A i \in DOMAIN a : a[i].severity # "error"
  BY DEF has_errors, errors
<1>3. errors(b) \subseteq Nat /\ errors(all) \subseteq Nat
  BY <1>1 DEF errors
<1>4. \A i \in Nat : i \in errors(b) <=> i + n \in errors(all)
  <2> SUFFICES ASSUME NEW i \in Nat
               PROVE  i \in errors(b) <=> i + n \in errors(all)
    OBVIOUS
  <2>1. i \in errors(b) => i + n \in errors(all)
    BY <1>1 DEF errors
  <2>2. ASSUME i + n \in errors(all)
        PROVE  i \in errors(b)
    <3>1. i + n \in DOMAIN all /\ all[i + n].severity = "error"
      BY <2>2 DEF errors
    <3>2. i + n \notin DOMAIN a
      BY <1>1, <1>2, <3>1
    <3>3. i \in DOMAIN b
      BY <1>1, <3>1, <3>2
    <3> QED
      BY <1>1, <3>1, <3>3 DEF errors
  <2> QED
    BY <2>1, <2>2
<1>5. \A j \in errors(all) : j - n \in errors(b) /\ j - n \in Nat
  <2> SUFFICES ASSUME NEW j \in errors(all)
               PROVE  j - n \in errors(b) /\ j - n \in Nat
    OBVIOUS
  <2>1. j \in DOMAIN all /\ all[j].severity = "error"
    BY DEF errors
  <2>2. j \notin DOMAIN a
    BY <1>1, <1>2, <2>1
  <2>3. j - n \in Nat /\ (j - n) + n = j
    BY <1>1, <2>1, <2>2
  <2> QED
    BY <1>4, <2>3
<1>6. CASE errors(b) = {}
  <2>1. errors(all) = {}
    BY <1>5, <1>6
  <2> QED
    BY <1>6, <2>1 DEF first_error_code, has_errors, all
<1>7. CASE errors(b) # {}
  <2> DEFINE leads(S, i) == i \in S /\ \A j \in S : i <= j
             f == CHOOSE i \in errors(b) : \A j \in errors(b) : i <= j
             g == CHOOSE i \in errors(all) : \A j \in errors(all) : i <= j
  <2>1. \E i \in errors(b) : \A j \in errors(b) : i <= j
    BY <1>3, <1>7, LeastNatural
  <2>2. f \in errors(b) /\ \A j \in errors(b) : f <= j
    BY <2>1
  <2> HIDE DEF f
  <2>3. f + n \in errors(all) /\ \A j \in errors(all) : f + n <= j
    <3>1. f \in Nat /\ f + n \in errors(all)
      BY <1>3, <1>4, <2>2
    <3>2. ASSUME NEW j \in errors(all)
          PROVE  f + n <= j
      <4>1. j \in Nat /\ j - n \in Nat /\ f <= j - n
        BY <1>3, <1>5, <2>2
      <4> QED
        BY <1>1, <3>1, <4>1
    <3> QED
      BY <3>1, <3>2
  <2>4. g \in errors(all) /\ \A j \in errors(all) : g <= j
    BY <2>3
  <2> HIDE DEF g
  <2>5. g = f + n
    BY <1>1, <1>3, <2>2, <2>3, <2>4
  <2>6. all[g] = b[f]
    BY <1>1, <2>2, <2>5 DEF errors
  <2>7. first_error_code(b) = b[f].code
    BY <1>7 DEF first_error_code, has_errors, f
  <2>8. first_error_code(all) = all[g].code
    BY <2>3 DEF first_error_code, has_errors, g
  <2> QED
    BY <2>6, <2>7, <2>8 DEF all
<1> QED
  BY <1>6, <1>7

LEMMA NoErrorIsOk ==
  ASSUME NEW found, Clean(found)
  PROVE  first_error_code(found) = "Ok"
BY DEF Clean, first_error_code

\* An engine that does not run reports the findings about what it is given, and
\* answers with the first error among them.
LEMMA OutcomeReports ==
  ASSUME NEW e, Standing(e), ~ e.initialized, NEW scn, Formed(scn),
         NEW o \in init_outcomes(e, Described(scn))
  PROVE  /\ o.engine.diagnostics \in Seq(Diagnostic)
         /\ o.status = first_error_code(o.engine.diagnostics)
<1> DEFINE d == Described(scn)
<1>1. d.defects \in Seq(Diagnostic) /\ Len(d.init) \in Nat
  BY DescribedFacts
<1>2. Shaped(e) /\ Anchored(e) /\ e.now = 0 /\ "diagnostics" \in DOMAIN e
  BY DEF Standing, Forgotten, Members, Staged, Fresh, Shaped
<1> HIDE DEF d
<1>3. o \in init_outcomes(e, d)
  BY DEF d
<1>4. CASE has_errors(d.defects)
  <2> DEFINE f == [e EXCEPT !.diagnostics = d.defects]
  <2>1. f.diagnostics = d.defects
    BY <1>2
  <2> HIDE DEF f
  <2>2. o \in {[status |-> first_error_code(d.defects), engine |-> f]}
    BY <1>3, <1>4 DEF init_outcomes, f
  <2>3. o.status = first_error_code(d.defects) /\ o.engine = f
    BY <2>2
  <2> QED
    BY <1>1, <2>1, <2>3
<1>5. CASE ~ has_errors(d.defects)
  <2>1. PICK started \in Evaluations(Run(e, d)) : o = [status |-> "Ok", engine |-> started]
    BY <1>3, <1>5 DEF init_outcomes
  <2>2. Clean(started.diagnostics)
    BY <1>1, <1>2, <1>5, RunBegins DEF Clean
  <2>3. o.status = "Ok" /\ o.engine = started
    BY <2>1
  <2> QED
    BY <2>2, <2>3, NoErrorIsOk DEF Clean
<1> QED
  BY <1>4, <1>5

LEMMA PrefixOfJoined ==
  ASSUME NEW a \in Seq(Diagnostic), NEW b \in Seq(Diagnostic)
  PROVE  IsPrefix(a, a \o b) /\ a \o <<>> = a
<1>1. a \o b \in Seq(Diagnostic) /\ Len(a \o b) = Len(a) + Len(b)
  OBVIOUS
<1>2. a = SubSeq(a \o b, 1, Len(a))
  OBVIOUS
<1>3. a \o <<>> = a
  OBVIOUS
<1> QED
  BY <1>1, <1>2, <1>3 DEF IsPrefix

\* The diagnostics after a load are those of this load, the loader's first, and
\* the status is their first error's, unless the engine runs and the document
\* could be read.
THEOREM LoadsReport == CSpec => LoadReportsItself
<1>1. ASSUME HandleInv, NEW document \in Documents, load_xml(document),
             has_errors(document.findings) \/ ~ engine.initialized
      PROVE  /\ IsPrefix(document.findings, engine'.diagnostics)
             /\ has_errors(document.findings) => engine'.diagnostics = document.findings
             /\ status' = first_error_code(engine'.diagnostics)
  <2>0. /\ Standing(engine) /\ document.findings \in Seq(Diagnostic)
        /\ Formed(document.scenario) /\ <<>> \in Seq(Diagnostic)
    BY <1>1, DocumentsAssumption DEF HandleInv
  <2>1. CASE has_errors(document.findings)
    <3>1. /\ engine'.diagnostics = document.findings \o <<>>
          /\ status' = first_error_code(document.findings)
      BY <1>1, <2>0, <2>1, LoadOutcome
    <3> QED
      BY <2>0, <3>1, PrefixOfJoined
  <2>2. CASE ~ has_errors(document.findings)
    <3>1. PICK o \in init_outcomes(engine, Described(document.scenario)) :
            /\ engine'.diagnostics = document.findings \o o.engine.diagnostics
            /\ status' = o.status
      BY <1>1, <2>0, <2>2, LoadOutcome
    <3>2. /\ o.engine.diagnostics \in Seq(Diagnostic)
          /\ o.status = first_error_code(o.engine.diagnostics)
      BY <1>1, <2>0, <2>2, OutcomeReports
    <3> QED
      BY <2>0, <2>2, <3>1, <3>2, PrefixOfJoined, FirstErrorAfter
  <2> QED
    BY <2>1, <2>2
<1>2. HandleInv /\ [CNext]_capiVars =>
        [\A document \in Documents :
           load_xml(document) /\ (has_errors(document.findings) \/ ~engine.initialized) =>
             /\ IsPrefix(document.findings, engine'.diagnostics)
             /\ has_errors(document.findings) => engine'.diagnostics = document.findings
             /\ status' = first_error_code(engine'.diagnostics)]_capiVars
  BY <1>1
<1> QED
  BY <1>2, HandleStands, PTL DEF CSpec, LoadReportsItself
=============================================================================
