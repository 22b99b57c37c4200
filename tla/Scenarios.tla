------------------------------ MODULE Scenarios ------------------------------
(***************************************************************************)
(* Scenarios with one thing to find: any one action, any one condition, any  *)
(* two entities, controllers that refer to each other in any way, any names  *)
(* of the elements of a storyboard.                                           *)
(***************************************************************************)
EXTENDS Validation

refs == {1, 3}    \* the first of two entities, and one that nobody declares
names == {1, 2}   \* a declared name and another

E(id) == [id |-> id, mode |-> "engine", object |-> "vehicle", box |-> "ok", limits |-> "ok"]
P(name) == [name |-> name, duration |-> 1, states |-> <<>>]
C(name, reference) ==
  [name |-> name, reference |-> reference, delay |-> None, phases |-> <<P(1)>>]
Element(type, parent, name) ==
  [type |-> type, name |-> name, parent |-> parent, triggers |-> <<>>, count |-> 1,
   actors |-> <<>>, actions |-> <<>>]
Done == [kind |-> "custom"]
Types == <<"storyboard", "story", "act", "group", "maneuver", "event", "event", "act">>
Parents == <<0, 1, 2, 3, 4, 5, 5, 2>>
Storyboard(named) ==
  [n \in DOMAIN named |->
     [Element(Types[n], Parents[n], named[n]) EXCEPT
        !.actions = IF Types[n] = "event" THEN <<Done>> ELSE <<>>]]
Base ==
  [entities |-> <<E(1), E(2)>>, init |-> <<>>, controllers |-> <<C(1, None)>>,
   variables |-> <<0>>, parameters |-> <<0>>,
   elements |-> Storyboard(<<0, 1, 1, 1, 1, 1, 2>>)]

Action == PrivateAction(refs) \cup GlobalAction(refs, names) \cup {None}
WithAction ==
  <<{[Base EXCEPT !.init = <<a>>] : a \in Action},
    {[Base EXCEPT !.elements[7].actions = <<a, Done>>] : a \in Action},
    {[Base EXCEPT !.elements[5].actors = actors] : actors \in {<<1>>, <<2, 3>>}}>>

Paths == UNION {[1 .. n -> names] : n \in 0 .. 3}
Expressions == Condition(refs, names, Paths)
WithCondition ==
  <<{[Base EXCEPT !.elements[n].triggers = <<<<<<[expression |-> c, delay |-> 0]>>>>>>] :
       n \in {1, 6}, c \in Expressions},
    {[Base EXCEPT !.elements[3].triggers = <<trigger>>] :
       trigger \in {<<>>, <<<<>>>>, <<<<[expression |-> None, delay |-> 0]>>>>,
                    <<<<[expression |-> [by |-> "value", kind |-> "phase", name |-> 1, value |-> 2],
                         delay |-> -1]>>, <<>>>>}}>>

WithEntities ==
  <<{[Base EXCEPT !.entities = <<a, b>>] :
       a \in {E(1), E(None)}, b \in {e \in Entity(refs) : e.mode = "engine"}}>>
WithControllers ==
  <<{[Base EXCEPT !.controllers = <<c>>] :
       c \in TrafficSignalController(names, [{1} -> Phase(names)])},
    {[Base EXCEPT !.controllers = <<C(1, r[1]), C(2, r[2]), C(3, r[3])>>] :
       r \in [1 .. 3 -> Optional(1 .. 4)]},
    {[Base EXCEPT !.controllers = <<C(1, None), C(n, 1), C(2, n)>>] : n \in Optional(1 .. 2)},
    {[Base EXCEPT !.controllers = <<C(1, None), [C(1, None) EXCEPT !.phases = <<P(2)>>]>>, !.init = <<a>>] :
       a \in TrafficSignalControllerAction(names)}>>
\* A second event of a name, and a second act, whose names may repeat.
WithNames ==
  <<{[Base EXCEPT !.elements = Storyboard(<<0, 1, n[1], 1, 1, n[2], n[3], n[4]>>)] :
       n \in [1 .. 4 -> Optional(names)]}>>

\* A sequence of sets, because a set of all of them takes long to build.
AnyOneThing == WithAction \o WithCondition \o WithEntities \o WithControllers \o WithNames
=============================================================================
