------------------------------- MODULE Loader -------------------------------
(***************************************************************************)
(* Loading a scenario document: its header, the children of its root in their *)
(* order, and the references of the finished scenario.                         *)
(***************************************************************************)
EXTENDS Readers

NoDocument ==
  [kind |-> None, parameters |-> <<>>, variables |-> <<>>, entities |-> <<>>, init |-> <<>>,
   stories |-> <<>>, stop |-> <<>>]
ReadContext(base) ==
  [found |-> <<>>, frames |-> <<Frame(FALSE)>>, applied |-> FALSE, referenced |-> {}, minor |-> 0,
   base |-> base, directories |-> NoDirectories, selections |-> <<>>, bulk |-> 0, doc |-> NoDocument]

---------------------------------------------------------------------------
(* The header.                                                                 *)

MaxRevision == 65535
Revision(revision) ==
  IF revision = None THEN <<Error("ParseError")>>
  ELSE When(revision \notin 0 .. MaxRevision, Error("ValidationError"))
revisions(header) == Revision(header.rev_major) \o Revision(header.rev_minor)
is_supported(header) == header.rev_major = 1 /\ header.rev_minor <= 3
described(header) ==
  [i \in 1 .. Cardinality({"author", "date", "description"} \ header.given) |-> Error("ValidationError")]
  \o When("date" \in header.given /\ ~header.iso8601, Warning("ValidationError"))
  \o [i \in 1 .. header.others |-> Warning("UnsupportedFeature")]
read_file_header(header) ==
  IF header = None THEN <<Error("ValidationError")>>
  ELSE IF revisions(header) # <<>> THEN revisions(header)
  ELSE IF ~is_supported(header)
       THEN <<Error(IF header.rev_major = 1 THEN "UnsupportedFeature" ELSE "ValidationError")>>
  ELSE described(header)

---------------------------------------------------------------------------
(* The references of the finished scenario.                                    *)

NamesOf(seq) == [i \in DOMAIN seq |-> seq[i].name]
\* One finding for every further element of a name.
check_unique_names(seq) ==
  [i \in 1 .. Len(seq) - Cardinality(Range(NamesOf(seq))) |-> Error("ValidationError")]

\* The elements of a storyboard, parents first; two of one name are one.
Inside(type, seq, inner(_)) ==
  FlattenSeq([i \in DOMAIN seq |-> <<<<seq[i].name, type>>>> \o inner(seq[i])])
Elements(doc) ==
  Inside("story", doc.stories, LAMBDA s :
    Inside("act", s.acts, LAMBDA a :
      Inside("group", a.groups, LAMBDA g :
        Inside("maneuver", g.maneuvers, LAMBDA m :
          Inside("event", m.events, LAMBDA e : <<>>)))))
index_storyboard(doc) ==
  FoldLeft(LAMBDA types, e : (e[1] :> e[2]) @@ types, <<>>, Elements(doc))

Known(ctx, elements, m) ==
  CASE m.kind = "entity" -> m.name \in EntitiesNamed(ctx) \cup DOMAIN ctx.selections
    [] m.kind = "variable" -> m.name \in DOMAIN ctx.doc.variables
    [] m.kind = "parameter" -> m.name \in DOMAIN ctx.doc.parameters
    [] m.kind = "element" -> m.name \in DOMAIN elements /\ elements[m.name] = m.type
check_mentions(ctx, elements, mentions) ==
  EachOf(mentions, LAMBDA m : When(~Known(ctx, elements, m), Error("SemanticError")))
EntityMention(name) == [kind |-> "entity", name |-> name, type |-> None]
MentionsOf(action) == When(action.actor # None, EntityMention(action.actor)) \o action.mentions

check_actions(ctx, elements, actions) ==
  EachOf(actions, LAMBDA a : check_mentions(ctx, elements, MentionsOf(a)))
check_maneuver(ctx, elements, maneuver) ==
  check_unique_names(maneuver.events)
  \o EachOf(maneuver.events, LAMBDA e : check_mentions(ctx, elements, e.mentions)
                                        \o check_actions(ctx, elements, e.actions))
check_group(ctx, elements, group) ==
  check_unique_names(group.maneuvers)
  \o check_mentions(ctx, elements, [i \in DOMAIN group.actors |-> EntityMention(group.actors[i])])
  \o EachOf(group.maneuvers, LAMBDA m : check_maneuver(ctx, elements, m))
check_act(ctx, elements, act) ==
  check_unique_names(act.groups) \o check_mentions(ctx, elements, act.mentions)
  \o EachOf(act.groups, LAMBDA g : check_group(ctx, elements, g))
check_story(ctx, elements, story) ==
  check_unique_names(story.acts) \o EachOf(story.acts, LAMBDA a : check_act(ctx, elements, a))

Acts(doc) == FlattenSeq([i \in DOMAIN doc.stories |-> doc.stories[i].acts])
Groups(doc) == FlattenSeq([i \in DOMAIN Acts(doc) |-> Acts(doc)[i].groups])
EventsIn(group) == FlattenSeq([i \in DOMAIN group.maneuvers |-> group.maneuvers[i].events])
ActionsIn(group) == FlattenSeq([i \in DOMAIN EventsIn(group) |-> EventsIn(group)[i].actions])
Mentioning(seq, kind) == {m.name : m \in {m \in UNION {Range(x.mentions) : x \in Range(seq)} : m.kind = kind}}
MentionedAs(doc, kind) ==
  Mentioning(Acts(doc) \o doc.init \o <<[mentions |-> doc.stop]>>, kind)
  \cup UNION {Mentioning(EventsIn(g), kind) \cup Mentioning(ActionsIn(g), kind) : g \in Range(Groups(doc))}
Unused(names) == [i \in 1 .. Cardinality(names) |-> Warning("ValidationError")]
references(ctx, elements) ==
  check_unique_names(ctx.doc.entities) \o check_unique_names(ctx.doc.stories)
  \o check_actions(ctx, elements, ctx.doc.init)
  \o EachOf(ctx.doc.stories, LAMBDA s : check_story(ctx, elements, s))
  \o check_mentions(ctx, elements, ctx.doc.stop)
  \o Unused(DOMAIN ctx.doc.parameters \ (ctx.referenced \cup MentionedAs(ctx.doc, "parameter")))
  \o Unused(DOMAIN ctx.doc.variables \ MentionedAs(ctx.doc, "variable"))
validate_document(ctx) ==
  IF ctx.doc.kind # "Scenario" THEN ctx
  ELSE [ctx EXCEPT !.found = @ \o references(ctx, index_storyboard(ctx.doc))]

---------------------------------------------------------------------------
(* The definition.                                                             *)

KindOf ==
  [name \in {"ParameterDeclarations", "VariableDeclarations", "MonitorDeclarations",
             "CatalogLocations", "RoadNetwork", "Entities", "Storyboard"} |-> "Scenario"]
  @@ ("Catalog" :> "Catalog" @@ "ParameterValueDistribution" :> "ParameterValueDistribution")

\* The parameters of the outermost frame are those of the scenario.
Global(ctx) == [ctx EXCEPT !.doc.parameters = [p \in DOMAIN declared(ctx) |-> to_text(declared(ctx)[p])] @@ @]
Variable(name, type, read) ==
  IF read.out = None THEN read.ctx
  ELSE IF type = None THEN Invalid(read.ctx)
  ELSE IF parse_typed(read.out, type) = None THEN Invalid(read.ctx)
  ELSE [read.ctx EXCEPT !.doc.variables = (name :> read.out) @@ @]
read_variable(declaration, typed) ==
  IF typed.out = None THEN typed.ctx
  ELSE Variable(declaration.name, parse_value_type(typed.out),
                require_string(typed.ctx, declaration.value))
read_variable_declarations(ctx, declarations) ==
  FoldLeft(LAMBDA c, d : read_variable(d, require_string(c, d.type)), ctx, declarations)
read_scenario_element(ctx, element, node) ==
  CASE element = "ParameterDeclarations" -> Global(read_parameter_declarations(ctx, node.declarations))
    [] element = "VariableDeclarations" -> read_variable_declarations(ctx, node.variables)
    [] element = "Entities" -> read_entities(ctx, node.entities)
    [] element = "Storyboard" -> read_storyboard(ctx, node.storyboard)
    [] element \in {"CatalogLocations", "RoadNetwork"} -> ctx
    [] element = "MonitorDeclarations" -> Report(ctx, Warning("UnsupportedFeature"))

Classify(ctx, kind) == [ctx EXCEPT !.doc.kind = IF @ = None THEN kind ELSE @]
read_child(ctx, element, node) ==
  IF element \notin DOMAIN KindOf THEN Report(ctx, Warning("UnsupportedFeature"))
  ELSE IF ctx.doc.kind \notin {None, KindOf[element]} THEN Report(ctx, Error("ValidationError"))
  ELSE CASE KindOf[element] = "ParameterValueDistribution" ->
              Report(Classify(ctx, KindOf[element]), Error("UnsupportedFeature"))
         [] KindOf[element] = "Catalog" ->
              Report(Classify(ctx, KindOf[element]), Warning("UnsupportedFeature"))
         [] OTHER -> read_scenario_element(Classify(ctx, KindOf[element]), element, node)
Classified(ctx) == IF ctx.doc.kind = None THEN Invalid(ctx) ELSE ctx
\* Locations are read before everything else, wherever they are listed.
read_definition(ctx, root) ==
  Classified(FoldLeft(LAMBDA c, element : read_child(c, element, root),
                      read_catalog_locations(ctx, root.locations), root.children))

Loaded(ctx, root) ==
  IF has_errors(ctx.found) THEN ctx ELSE validate_document(read_definition(ctx, root))
\* A root is None where the text is no document or the root has another name.
load_buffer(root, code, base) ==
  IF root = None THEN Report(ReadContext(base), Error(code))
  ELSE Loaded([ReadContext(base) EXCEPT !.found = read_file_header(root.header),
                                        !.minor = IF root.header = None THEN 0 ELSE root.header.rev_minor],
              root)
\* A document in memory has no directory, and a file has what is found in it.
Noted(file, ctx) == [ctx EXCEPT !.found = When(file.stored /\ ~file.xosc, Warning("ValidationError")) \o @]
load_file(file) ==
  IF file.stored /\ ~file.opens THEN Report(ReadContext(None), Error("ParseError"))
  ELSE Noted(file, load_buffer(file.root, file.code, IF file.stored THEN file.base ELSE None))
=============================================================================
