------------------------------ MODULE Programs ------------------------------
(***************************************************************************)
(* Programs to lower: any two members and a composition of two in sequence,   *)
(* any movement or modifier with any two arguments, any declarations.          *)
(***************************************************************************)
EXTENDS Lowering

Num(n) == [Unfixed EXCEPT !.number = n]
Lit(name) == [Unfixed EXCEPT !.enum = name]
Path(names) == [Unfixed EXCEPT !.path = names]
Named(name, v) == [name |-> name, value |-> v]
Lasting(v) == <<Named("duration", v)>>

Invoked(label, actor, name, arguments, modifiers) ==
  [kind |-> "invocation", label |-> label, actor |-> actor, name |-> name, arguments |-> arguments,
   modifiers |-> modifiers, until |-> 0]
Composed(operator, members, arguments) ==
  [kind |-> "composition", label |-> None, operator |-> operator, members |-> members,
   arguments |-> arguments]
Waiting(elapsed) == [kind |-> "wait", label |-> None, elapsed |-> elapsed]
Stands(label, arguments) == Invoked(label, "ego", "remain_stationary", arguments, <<>>)
Tuned(name, arguments) == <<[name |-> name, arguments |-> arguments]>>

Types == [sedan |-> "vehicle"]
Field(name, type) == [name |-> name, type |-> type]
Cast == <<Field("ego", "sedan"), Field("lead", "vehicle"), Field("walker", "person"),
          Field("sign", "stationary_object"), Field("dog", "animal"), Field("roads", "map"),
          Field("place", "osc_actor")>>
Keep(left, right) == [kind |-> "keep", equality |-> TRUE, sides |-> <<left, right>>]
Kept == <<Keep(Path(<<"ego", "bounding_box", "length">>), Num(4)),
          Keep(Num(3), Path(<<"spot", "x">>))>>
Does(member) == [kind |-> "do", member |-> member]
Scenario(name, members) ==
  [space |-> "demo", name |-> name, resolved |-> TRUE, fields |-> Cast, members |-> members]
Program(members) == [parsed |-> TRUE, types |-> Types, scenarios |-> <<Scenario("go", members)>>]
Asking(members, entry_point, alternative) ==
  [program |-> Program(members),
   options |-> [entry_point |-> entry_point, alternative |-> alternative]]

---------------------------------------------------------------------------
(* Compositions.                                                                *)

\* Phases that end at a time, and phases that end when their actions do; labels
\* that are the same, or that a generated name may come to.
Timed == {Waiting(3), Stands(<<"a">>, Lasting(Num(2))),
          Invoked(None, "ego", "drive", Lasting(Num(2)), <<>>),
          Invoked(None, "ego", "drive", Lasting(Num(2)),
                  Tuned("speed", <<Named("speed", Num(1)), Named("at", Lit("end"))>>))}
Untimed == {Stands(<<"a">>, <<>>), Stands(None, <<>>), Stands(<<"a", 2>>, <<>>)}
Idle == {Invoked(None, "ego", "drive", <<>>, <<>>)}
Unrealised == {Waiting(None), [kind |-> "emit", label |-> None], Stands(None, Lasting(Unfixed)),
               Invoked(None, "ghost", "drive", <<>>, <<>>),
               [Stands(<<"a">>, <<>>) EXCEPT !.until = 1],
               Composed("parallel", <<>>, <<Named("overlap", Lit("end"))>>)}
Leaves == Timed \cup Untimed \cup Idle
Outer == {Waiting(3), Stands(<<"a">>, Lasting(Num(2))), Stands(<<"a">>, <<>>)}
Pairs == {Composed(op, <<m, n>>, d) :
            op \in {"serial", "parallel"}, m, n \in Leaves, d \in {<<>>, Lasting(Num(4))}}
         \cup {Composed("one_of", <<m, Waiting(3)>>, <<>>) : m \in Leaves}

\* The end of a join is a time and a completion at once.  What is timed after
\* it counts from the time alone (lower.cpp:1197-1202, 1217-1221, 1243-1247).
Mixed(pair) ==
  /\ pair.operator = "parallel" /\ pair.arguments = <<>>
  /\ \E i, j \in 1 .. 2 : pair.members[i] \in Untimed /\ pair.members[j] \notin Untimed
Sequences ==
  {<<m, pair, n>> : m \in Outer, pair \in Pairs, n \in Outer}
  \cup {<<m, n>> : m, n \in Leaves \cup Unrealised}
Counted(members) ==
  \A i \in 1 .. Len(members) - 1 :
    members[i].kind = "composition" /\ members[i].arguments = <<>> /\ Len(members[i].members) = 2
    => ~(Mixed(members[i]) /\ members[i + 1] \in Timed)
Compositions ==
  {Asking(<<Does(Composed("serial", members, <<>>))>>, None, None) :
     members \in {members \in Sequences : Counted(members)}}
  \cup {Asking(<<Does(Composed(op, <<pair, Stands(<<"b">>, <<>>)>>, d))>>, None, None) :
          op \in {"parallel", "one_of"}, pair \in Pairs, d \in {<<>>, Lasting(Num(7))}}
  \cup {Asking(<<Does(Composed("one_of", <<m, n>>, <<>>))>>, None, label) :
          m, n \in Leaves, label \in {<<"a">>, <<"c">>}}

---------------------------------------------------------------------------
(* Movements and modifiers.                                                     *)

\* What some parameter may take, and what none does.
Values ==
  [speed |-> {Num(2)}, target |-> {Num(2), Num(-1)}, rate_profile |-> {Lit("asap"), Lit("smooth")},
   rate_peak |-> {Num(0), Num(2)}, position |-> {Path(<<"spot">>), Path(<<"lead">>)},
   route_point |-> {Num(2)}, side |-> {Lit("left"), Lit("inside")}, distance |-> {Num(2), Num(-1)},
   reference |-> {Path(<<"lead">>), Path(<<"spot">>)}, direction |-> {Lit("ahead"), Lit("left")},
   ahead_of |-> {Path(<<"lead">>)}, behind |-> {Path(<<"lead">>)},
   slower_than |-> {Path(<<"lead">>), Path(<<"spot">>)}, side_of |-> {Path(<<"lead">>)},
   lane |-> {Num(2)}, at |-> {Lit("start"), Lit("end")}]
\* Any of the parameters with any of its values, by name; one in the order of the
\* parameters; one that is named twice.
Some(order) ==
  FoldLeft(LAMBDA lists, p : lists \cup {Append(l, Named(p, v)) : l \in lists, v \in Values[p]},
           {<<>>}, SelectSeq(order, LAMBDA p : p \in DOMAIN Values))
  \cup {<<Named(None, v)>> : v \in {Num(2), Lit("left"), Path(<<"spot">>), Unfixed}}
  \cup {<<Named(p, v), Named(p, Unfixed)>> :
          p \in Range(order), v \in {Num(2), Lit("left"), Path(<<"lead">>)}}
Names(table) == UNION {DOMAIN table[t] : t \in DOMAIN table}
Drives(arguments, modifiers) == Invoked(<<"a">>, "ego", "drive", arguments, modifiers)
Lists(order) == IF order = None THEN {<<>>} ELSE Some(order)
Invocations ==
  UNION {{Invoked(None, actor, name, arguments, <<>>) :
            arguments \in Lists(lookup_behavior_on(Types @@ Actors, "sedan", name))} :
           actor \in {"ego", "walker"}, name \in Names(Movements) \cup {"overtake"}}
Tunings ==
  UNION {{Drives(IF span = None THEN <<>> ELSE Lasting(Num(span)), Tuned(name, arguments)) :
            arguments \in Lists(lookup_modifier(Types @@ Actors, "sedan", name))} :
           span \in {None, 0, 2}, name \in Names(Modifiers) \cup DOMAIN PlainModifiers}
Spot == Kept \o <<Keep(Path(<<"roads", "map_file">>), [Unfixed EXCEPT !.text = "kept"])>>
InvocationQuestions ==
  <<{Asking(Append(Spot, Does(m)), None, None) : m \in Invocations},
    {Asking(Append(Kept, Does(m)), None, None) : m \in Tunings}>>

---------------------------------------------------------------------------
(* Declarations.                                                                *)

Setting_ == [kind |-> "set_map_file", arguments |-> <<Named(None, [Unfixed EXCEPT !.text = "set"])>>]
Sides == {Num(-1), Path(<<"lead", "bounding_box", "width">>), Unfixed}
Entries ==
  {[program |-> [parsed |-> p, types |-> Types,
                 scenarios |-> SubSeq(<<[Scenario("go", <<Does(Waiting(1))>>) EXCEPT !.resolved = r],
                                        [Scenario("stay", <<>>) EXCEPT !.fields = <<>>]>>, 1, n)],
    options |-> [entry_point |-> e, alternative |-> None]] :
     p, r \in BOOLEAN, n \in 0 .. 2, e \in {None, <<"go">>, <<"demo", "stay">>, <<"demo">>}}
Declarations ==
  Entries
  \cup {Asking(<<[Keep(l, r) EXCEPT !.equality = e], Setting_, Does(Stands(None, <<>>))>>, None, None) :
          l, r \in Sides, e \in BOOLEAN}

AnyProgram == <<Compositions, Declarations>> \o InvocationQuestions
=============================================================================
