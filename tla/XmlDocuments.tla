---------------------------- MODULE XmlDocuments ----------------------------
(***************************************************************************)
(* Scenario documents to load: two nested scopes and the global one, each      *)
(* with parameters of two names; catalogs of entries with parameters of the    *)
(* same names, in files that hide each other; and, one thing at a time, what    *)
(* is wrong with the form of a document.                                         *)
(***************************************************************************)
EXTENDS Expressions, TLC

Text(form, text, name, tokens) == [form |-> form, text |-> text, name |-> name, tokens |-> tokens]
Plain(spelling) == Text("plain", spelling, None, <<>>)
Number(n) == Plain(Spelled(2 * n))
Half(n) == Plain(Spelled(n))
Word(n) == Plain(Spelling("name", n))
Ref(name) == Text("reference", None, name, <<>>)
Misnamed == Text("misnamed", None, None, <<>>)
Token(op) == [op |-> op, text |-> None, name |-> None]
Digit(n) == [Token("number") EXCEPT !.text = Spelled(2 * n)]
Param(name) == [Token("parameter") EXCEPT !.name = name]
Formula(tokens) == Text("expression", None, None, tokens)
Plus(name, n) == Formula(<<Param(name), Digit(n), Token("+")>>)

Declared(name, type, value) ==
  [name |-> name, type |-> Plain(Spelling("type", type)), value |-> value, groups |-> <<>>]
Whole(name, value) == Declared(name, 2, value)
Real(name, value) == Declared(name, 5, value)
Str(name, value) == Declared(name, 7, value)
Constraint(rule, value) == [rule |-> rule, value |-> value]

Mention(kind, name, type) == [kind |-> kind, name |-> name, type |-> type]
Action(private, actor, texts) ==
  [private |-> private, actor |-> actor, reference |-> None, texts |-> texts, mentions |-> <<>>]
Says(texts) == Action(TRUE, None, texts)
Name(n) == Spelling("name", n)
Event(n, actions) ==
  [name |-> Name(n), priority |-> "parallel", mentions |-> <<>>, actions |-> actions]
Maneuver(declarations, texts) ==
  [name |-> Name(11), declarations |-> declarations, events |-> <<Event(12, <<Says(texts)>>)>>]
Group(references, maneuvers) ==
  [name |-> Name(13), actors |-> <<"car">>, references |-> references, maneuvers |-> maneuvers]
Act(groups) == [name |-> Name(14), mentions |-> <<>>, groups |-> groups]
Story(n, declarations, groups) ==
  [name |-> Name(n), declarations |-> declarations, acts |-> <<Act(groups)>>]

Entry(element, n, declarations, texts, events) ==
  [element |-> element, name |-> Name(n), declarations |-> declarations, texts |-> texts,
   events |-> events]
File(n, entries) ==
  [name |-> n, opens |-> TRUE, well_formed |-> TRUE, catalog |-> Name(1), entries |-> entries]
Path(files) == [relative |-> FALSE, exists |-> TRUE, files |-> files]
Location(kind, path) == [kind |-> kind, path |-> path]
Reference(n, assignments) ==
  [catalog |-> Word(1), entry |-> Word(n), assignments |-> assignments]
Set(name, value) == [name |-> name, value |-> value]

Object(object, reference, controllers) ==
  [name |-> "car", object |-> object, reference |-> reference, controllers |-> controllers]
Vehicle(declarations, texts) ==
  [element |-> "Vehicle", declarations |-> declarations, texts |-> texts]
Car == Object(Vehicle(None, <<Number(4)>>), None, <<>>)
Header(major, minor) ==
  [rev_major |-> major, rev_minor |-> minor, given |-> {"author", "date", "description"}, iso8601 |-> TRUE,
   others |-> 0]
InOrder == <<"ParameterDeclarations", "CatalogLocations", "Entities", "Storyboard">>
Root(declarations, locations, car, stories) ==
  [header |-> Header(1, 2), children |-> InOrder, locations |-> locations, declarations |-> declarations,
   variables |-> <<>>, entities |-> [objects |-> <<car>>, selections |-> <<>>],
   storyboard |-> [init |-> <<Action(TRUE, "car", <<Number(1)>>)>>, stories |-> stories, mentions |-> <<>>]]
Loading(root) ==
  [stored |-> TRUE, opens |-> TRUE, xosc |-> TRUE, root |-> root, code |-> None, base |-> "here"]

---------------------------------------------------------------------------
(* Scopes.                                                                     *)

Lists ==
  {<<>>, <<Whole("p", Number(1))>>, <<Whole("q", Ref("p"))>>, <<Whole("p", Ref("q"))>>,
   <<Real("p", Number(2)), Real("q", Plus("p", 1))>>}
Globals == Lists \cup {<<Str("p", Word(3))>>, <<Whole("p", Half(3))>>}
Uses == {Number(7), Ref("p"), Ref("q"), Plus("p", 2), Misnamed}
OneManeuver(global, outer, inner, use) ==
  Root(global, <<>>, Car, <<Story(15, outer, <<Group(<<>>, <<Maneuver(inner, <<use>>)>>)>>)>>)
Scopes ==
  {Loading([OneManeuver(g, o, i, use) EXCEPT !.children = order]) :
     g \in Globals, o \in Lists \cup {None}, i \in Lists \cup {None}, use \in Uses,
     order \in {InOrder, <<"Entities", "Storyboard", "ParameterDeclarations">>}}
\* A scope ends with its element.
Neighbours ==
  {Loading(Root(g, <<>>, [Car EXCEPT !.object.declarations = o, !.object.texts = <<use>>,
                                     !.controllers = <<[reference |-> None, texts |-> <<use>>]>>],
                <<Story(15, i, <<Group(<<>>, <<Maneuver(None, <<use>>)>>)>>),
                  Story(16, None, <<Group(<<>>, <<Maneuver(None, <<Number(5), use>>)>>)>>)>>)) :
     g \in Lists, o \in Lists, i \in Lists, use \in Uses}

---------------------------------------------------------------------------
(* Declarations and expressions.                                               *)

Operands == {Digit(0), Digit(3), Token("pi"), Param("p"),
             [Token("boolean") EXCEPT !.text = Spelling("boolean", 1)]}
Formulas ==
  {<<a, Token(op)>> : a \in Operands, op \in (Unary \ {"sqrt"}) \cup {"+"}}
  \cup {<<a, b, Token(op)>> : a \in Operands, b \in Operands, op \in Binary}
  \cup {<<Digit(7), Digit(2), Token("/"), Token(op)>> : op \in Unary \ {"sqrt"}}
  \cup {<<a, Token("sqrt")>> : a \in {Digit(0), Digit(9)}}
  \cup {<<Digit(9), Token("negate"), Token("sqrt")>>, <<Digit(0), Digit(1), Token("negate"), Token("pow")>>}
Calculated ==
  {Loading(OneManeuver(<<Real("p", Half(5)), Declared("q", type, Formula(f))>>, None, None, Ref("q"))) :
     type \in {2, 5, 6}, f \in Formulas}
Limits == {<<>>, <<<<Constraint("greaterThan", Number(0)), Constraint("lessThan", Ref("q"))>>>>,
           <<<<Constraint("equalTo", Number(1))>>, <<Constraint("notEqualTo", Number(2))>>>>,
           <<<<Constraint("greaterOrEqual", Misnamed)>>>>, <<<<Constraint("lessOrEqual", Word(1))>>>>}
Constrained ==
  {Loading(OneManeuver(<<Whole("q", Number(3)), [name |-> name, type |-> type, value |-> value, groups |-> limits]>>,
                       None, None, Ref("p"))) :
     name \in {"p", None}, type \in {Plain(Spelling("type", i)) : i \in 1 .. 8} \cup {Word(1), Misnamed},
     limits \in Limits,
     value \in {Number(-1), Number(1), Number(2), Number(65536), Half(5), Word(2), Ref("r"),
                Plain(Spelling("boolean", 0))}}

---------------------------------------------------------------------------
(* Catalogs: every entry declares a parameter.                                 *)

P(n) == <<Whole("p", Number(n))>>
Vehicles(n) == <<Entry("Vehicle", 1, P(n), <<Ref("p")>>, <<>>)>>
Directories ==
  {{}, {File(1, Vehicles(1))}, {File(2, Vehicles(1)), File(1, Vehicles(2))},
   {[File(1, Vehicles(1)) EXCEPT !.opens = FALSE], File(2, Vehicles(2))},
   {[File(1, Vehicles(1)) EXCEPT !.well_formed = FALSE], File(2, Vehicles(2))},
   {[File(1, Vehicles(1)) EXCEPT !.catalog = None], File(2, Vehicles(2))},
   {[File(1, Vehicles(1)) EXCEPT !.catalog = Name(2)]},
   {File(1, Vehicles(1) \o Vehicles(2))},
   {File(1, <<Entry("Pedestrian", 1, P(1), <<Ref("p")>>, <<>>)>>)}}
Paths == {Path(files) : files \in Directories}
         \cup {[Path({File(1, Vehicles(1))}) EXCEPT !.relative = TRUE],
               [Path({File(1, Vehicles(1))}) EXCEPT !.exists = FALSE], None}
Located ==
  {[Loading(Root(<<>>, locations, Object(None, Reference(n, <<>>), <<>>), <<>>)) EXCEPT !.base = base] :
     locations \in {<<Location("Vehicle", path)>> : path \in Paths \ {None}}
                   \cup {<<Location("Pedestrian", path), Location("Vehicle", Path({File(3, Vehicles(3))}))>> :
                           path \in Paths \ {None}}
                   \cup {<<Location("Vehicle", path), Location("Vehicle", Path({File(1, Vehicles(1))}))>> : path \in Paths}
                   \cup {<<>>},
     n \in {1, 2}, base \in {None, "here"}}

Assignments ==
  {<<>>, <<Set("p", Number(9))>>, <<Set("p", Ref("q"))>>, <<Set("q", Number(9))>>, <<Set("p", Ref("p"))>>,
   <<Set("p", Plus("q", 1)), Set("p", Number(6))>>, <<Set("p", Word(1))>>, <<Set("p", Misnamed)>>}
EntryLists == {P(1), <<Whole("p", Ref("q"))>>, <<Whole("p", Number(2)), Whole("q", Plus("p", 1))>>}
\* Entries of each kind that say the same.
Catalogs(of, use) ==
  <<Location("Vehicle", Path({File(1, <<Entry("Vehicle", 1, of, <<use, Number(2)>>, <<>>)>>)})),
    Location("Maneuver", Path({File(1, <<Entry("Maneuver", 1, of, <<>>, <<Event(17, <<Says(<<use>>)>>)>>),
                                        Entry("Maneuver", 2, P(4), <<>>, <<Event(17, <<Says(<<Ref("p")>>)>>)>>)>>)})),
    Location("Controller", Path({File(1, <<Entry("Controller", 1, of, <<use>>, <<>>)>>)}))>>
Constants_ == <<Whole("q", Number(5)), Str("r", Word(1))>>
Referring ==
  {Loading(Root(Constants_, Catalogs(of, use), Object(None, Reference(1, assigned), <<>>),
                <<Story(15, list, <<Group(references, <<Maneuver(P(8), <<Ref("p")>>)>>)>>)>>)) :
     of \in EntryLists, use \in Uses, assigned \in {<<>>} \cup {<<Set("p", Number(9))>>}, list \in {None, P(3)},
     references \in {<<>>}
       \cup {<<Reference(2, <<>>), [Reference(1, a) EXCEPT !.entry = entry]>> :
               a \in Assignments, entry \in {Word(1), Ref("r"), Ref("p"), Word(3)}}}
Assigned ==
  {Loading(Root(Constants_, Catalogs(of, use), Object(None, Reference(1, assigned), <<>>), <<>>)) :
     of \in EntryLists, use \in Uses, assigned \in Assignments}
\* The entry of a controller is the last element with declarations.
Controlling(list, of, use, assigned, controllers, actions) ==
  Loading(Root(Constants_, Catalogs(of, use), [Car EXCEPT !.controllers = controllers],
               <<Story(15, list, <<Group(<<>>, <<[Maneuver(None, <<>>) EXCEPT
                                                   !.events = <<Event(12, actions)>>]>>)>>)>>))
Controller(assigned) == [reference |-> Reference(1, assigned), texts |-> <<>>]
Controlled ==
  {Controlling(None, of, use, a, <<Controller(a)>>, <<Says(<<Ref("q")>>)>>) :
     of \in EntryLists, use \in Uses, a \in Assignments}
  \cup {Controlling(list, of, use, a, <<>>, <<Says(<<Ref("q")>>), Controller(a) @@ Says(<<>>)>>) :
          list \in {None, P(3)}, of \in EntryLists, use \in Uses, a \in Assignments}
Readings ==
  <<Scopes, Neighbours, Calculated, Constrained, Located, Referring, Assigned, Controlled>>

\* The same with declarations that follow the entry of a controller.
Marked ==
  {Controlling(P(3), of, use, <<>>, <<Controller(<<>>)>>, <<Says(<<Ref("p")>>)>>) :
     of \in EntryLists \cup {None}, use \in Uses}

---------------------------------------------------------------------------
(* Form: one thing is changed in a document that is in order.                  *)

Ordinary ==
  OneManeuver(<<Whole("p", Number(1))>>, None, <<Whole("q", Ref("p"))>>, Ref("q"))
Empty == [Root(<<>>, <<>>, Car, <<>>) EXCEPT !.entities.objects = <<>>, !.storyboard.init = <<>>]
Headers ==
  {None} \cup {Header(major, minor) : major \in {None, 0, 1, 2}, minor \in {None, -1, 0, 3, 4, 65536}}
  \cup {[Header(1, 3) EXCEPT !.given = {"author", "date"}], [Header(1, 3) EXCEPT !.iso8601 = FALSE],
        [Header(1, 3) EXCEPT !.others = 1]}
Orders ==
  {<<>>, <<"Storyboard", "Entities">>, <<"RoadNetwork", "Unknown", "MonitorDeclarations">>, <<"Catalog">>,
   <<"Catalog", "Storyboard">>, <<"RoadNetwork", "Catalog">>, <<"ParameterValueDistribution">>,
   <<"VariableDeclarations", "ParameterDeclarations">>}
Variables == {Whole("v", Number(1)), Whole("v", Half(1)), Whole("v", Ref("p")), Str("v", Misnamed),
              [Whole("v", Number(1)) EXCEPT !.type = Word(1)]}
Heads ==
  {[Empty EXCEPT !.header = h] : h \in Headers}
  \cup {[Empty EXCEPT !.children = order, !.locations = at, !.variables = <<v>>, !.declarations = P(2)] :
          order \in Orders, v \in Variables, at \in {<<>>, <<Location("Route", None)>>}}

Named(name) == [Car EXCEPT !.name = name]
Walker(name) == [Named(name) EXCEPT !.object.element = "Pedestrian"]
Everyone == <<Car, Walker("one"), Walker("two")>>
Select(name, members) == [name |-> name, members |-> members]
Member(ref, type) == [ref |-> ref, type |-> type]
Selections ==
  {<<>>, <<Select("all", <<Member(None, "Vehicle"), Member("one", None)>>)>>,
   <<Select("all", <<Member("one", None), Member(None, "Pedestrian")>>),
     Select("most", <<Member("all", None), Member("two", None)>>)>>,
   <<Select("all", <<Member("nobody", None)>>)>>}
Crowds ==
  {[Ordinary EXCEPT !.entities = [objects |-> objects, selections |-> selections],
                    !.storyboard.stories[1].acts[1].groups[1].actors = actors] :
     objects \in {Everyone, Reverse(Everyone), <<Car, Named("one"), Walker("two"), Named("one")>>,
                  <<Car, [Named("one") EXCEPT !.object = None], Walker("two")>>},
     selections \in Selections, actors \in {<<>>, <<"car">>, <<"all">>, <<"most">>, <<"nobody">>}}

Mentions ==
  {Mention("entity", name, None) : name \in {"car", "all", "p"}}
  \cup {Mention(kind, name, None) : kind \in {"parameter", "variable"}, name \in {"p", "q", "v"}}
  \cup {Mention("element", Name(n), type) : n \in 11 .. 18, type \in {"story", "act", "maneuver", "event"}}
Mentioning ==
  {[Ordinary EXCEPT !.children = <<"VariableDeclarations">> \o InOrder, !.variables = <<Whole("v", Number(1))>>,
                    !.storyboard.mentions = IF place = 1 THEN <<m>> ELSE <<>>,
                    !.storyboard.init[1].mentions = IF place = 2 THEN <<m>> ELSE <<>>,
                    !.storyboard.stories[1].acts[1].mentions = IF place = 3 THEN <<m>> ELSE <<>>,
                    !.storyboard.stories[1].acts[1].groups[1].maneuvers[1].events[1].mentions =
                       IF place = 4 THEN <<m>> ELSE <<>>] : m \in Mentions, place \in 1 .. 4}

First(actions) == [Event(12, actions) EXCEPT !.priority = "overwrite"]
Events ==
  {<<>>, <<First(<<>>)>>, <<[First(<<Says(<<Ref("q")>>)>>) EXCEPT !.priority = "now"]>>,
   <<First(<<Says(<<Ref("q")>>), Action(FALSE, None, <<Number(3)>>)>>)>>,
   <<First(<<Says(<<Misnamed>>), Says(<<Ref("q")>>)>>)>>,
   <<Event(12, <<Says(<<Number(1)>>)>>), Event(18, <<Says(<<>>)>>)>>,
   <<Event(12, <<Says(<<Number(1)>>)>>), Event(12, <<Says(<<>>)>>)>>}
Plots ==
  {[Ordinary EXCEPT !.header = Header(1, minor), !.storyboard.init = init,
                    !.storyboard.stories[1].acts[1].groups[1].maneuvers[1].events = events] :
     minor \in {2, 3}, events \in Events,
     init \in {<<Action(TRUE, "car", <<Number(1)>>), Action(FALSE, None, <<Ref("p")>>)>>,
               <<Action(TRUE, "nobody", <<>>), Action(FALSE, None, <<Ref("q")>>)>>}}
Twice ==
  {[Ordinary EXCEPT !.storyboard.stories = @ \o @],
   [Ordinary EXCEPT !.storyboard.stories[1].acts = @ \o @],
   [Ordinary EXCEPT !.storyboard.stories[1].acts = <<>>],
   [Ordinary EXCEPT !.storyboard.stories[1].acts[1].groups = @ \o @],
   [Ordinary EXCEPT !.storyboard.stories[1].acts[1].groups = <<>>],
   [Ordinary EXCEPT !.storyboard.stories[1].acts[1].groups[1].maneuvers = @ \o @],
   [Ordinary EXCEPT !.storyboard.stories[1].acts[1].groups[1].maneuvers = <<>>]}
Roots == Heads \cup Crowds \cup Mentioning \cup Plots \cup Twice
Loadings ==
  <<{Loading(root) : root \in Roots},
    {[Loading(root) EXCEPT !.stored = stored, !.opens = opens, !.xosc = ~opens, !.code = "ParseError"] :
       root \in {None, Ordinary}, stored \in BOOLEAN, opens \in BOOLEAN}>>
=============================================================================
