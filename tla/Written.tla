------------------------------ MODULE Written ------------------------------
(***************************************************************************)
(* What a scenario document says, by the text alone: the parameters in scope  *)
(* at an element are those of the elements around it, the nearest of a name,    *)
(* and in a catalog entry those it declares, as its reference assigns them.      *)
(* No frames are pushed and nothing is remembered from one element to another.  *)
(***************************************************************************)
EXTENDS Loader

Shown(value) == IF value = None THEN None ELSE to_text(value)
\* The meaning of a text among parameters; None where it has none.
Means(text, env) ==
  IF text = None \/ env = None THEN None
  ELSE CASE text.form = "plain" -> text.text
         [] text.form = "misnamed" -> None
         [] text.form = "reference" -> Shown(ValueIn(env, text.name))
         [] text.form = "expression" -> Shown(evaluate_expression(text.tokens, env))
Meanings(texts, env) == [i \in DOMAIN texts |-> Means(texts[i], env)]

\* The limits on a value, each with what it means.
Limits(groups, env) ==
  [g \in DOMAIN groups |-> [c \in DOMAIN groups[g] |-> <<groups[g][c].rule, Means(groups[g][c].value, env)>>]]
Fits(text, limits) ==
  /\ \A g \in Range(limits) : \A c \in Range(g) : c[2] # None
  /\ limits = <<>> \/ \E g \in Range(limits) : \A c \in Range(g) : compare_values(text, c[1], c[2])
Fitting_(value, limits) == IF value = None THEN None ELSE IF Fits(value.text, limits) THEN value ELSE None
\* None where the type or the value has no meaning, or they do not go together.
ValueOf(type, text) ==
  IF None \in {type, text} THEN None
  ELSE IF parse_value_type(type) = None THEN None ELSE parse_typed(text, parse_value_type(type))
Bind(env, name, value) == IF name = None \/ value = None THEN None ELSE (name :> value) @@ env
Declaring(env, d) ==
  Bind(env, d.name, Fitting_(ValueOf(Means(d.type, env), Means(d.value, env)), Limits(d.groups, env)))
Among(env, declarations) ==
  IF declarations = None THEN env
  ELSE FoldLeft(LAMBDA e, d : IF e = None THEN None ELSE Declaring(e, d), env, declarations)

---------------------------------------------------------------------------
(* Catalogs: of entries of one name, that of the first file is meant.          *)

First(seq, has(_)) == seq[CHOOSE i \in DOMAIN seq : has(seq[i]) /\ \A j \in 1 .. i - 1 : ~has(seq[j])]
Meant(path, catalog, name) ==
  LET of(f) == f.opens /\ f.well_formed /\ f.catalog = catalog /\ \E e \in Range(f.entries) : e.name = name
      files == ByFileName({f \in path.files : of(f)})
  IN IF files = <<>> THEN None ELSE First(files[1].entries, LAMBDA e : e.name = name)
Directory(root, kind) ==
  LET of(l) == l.kind = kind
  IN IF ~\E l \in Range(root.locations) : of(l) THEN None ELSE First(root.locations, of).path
Reachable(path, base) == path # None /\ path.exists /\ (path.relative => base # None)
OfKind(entry, kind) == IF entry = None THEN None ELSE IF entry.element = kind THEN entry ELSE None
EntryIn(path, reference, base, kind, env) ==
  IF ~Reachable(path, base) THEN None
  ELSE OfKind(Meant(path, Means(reference.catalog, env), Means(reference.entry, env)), kind)
EntryOf(doc, reference, kind, env) == EntryIn(Directory(doc.root, kind), reference, doc.base, kind, env)
\* An entry's own parameters, as the reference assigns them where it stands.
Reassign(own, name, text) ==
  IF own = None \/ text = None THEN None
  ELSE IF name \notin DOMAIN own THEN own ELSE Bind(own, name, parse_typed(text, own[name].type))
Assigning(reference, entry, env) ==
  FoldLeft(LAMBDA own, a : Reassign(own, a.name, Means(a.value, env)),
           Among(<<>>, entry.declarations), reference.assignments)
TextsOf(entry, reference, env) ==
  IF entry = None THEN <<None>> ELSE Meanings(entry.texts, Assigning(reference, entry, env))

---------------------------------------------------------------------------
(* What each part of a scenario says, for whoever acts in it.                  *)

\* The first kind of object that has the entry.
Held(entries) == IF \A i \in DOMAIN entries : entries[i] = None THEN None ELSE First(entries, LAMBDA e : e # None)
ObjectEntry(doc, reference, env) ==
  Held([i \in DOMAIN Candidates |-> EntryOf(doc, reference, Candidates[i], env)])
ObjectTexts(doc, node, env) ==
  IF node.object # None THEN Meanings(node.object.texts, Among(env, node.object.declarations))
  ELSE IF node.reference = None THEN <<>>
  ELSE TextsOf(ObjectEntry(doc, node.reference, env), node.reference, env)
ActionTexts(doc, node, env) ==
  IF node.reference # None
  THEN TextsOf(EntryOf(doc, node.reference, "Controller", env), node.reference, env)
  ELSE Meanings(node.texts, env)
Each(seq, says(_)) == [i \in DOMAIN seq |-> says(seq[i])]
EventTexts(doc, events, env) ==
  EachOf(events, LAMBDA e : Each(e.actions, LAMBDA a : ActionTexts(doc, a, env)))
\* The events in a group, each with the parameters around it.
Scene(events, env) == [events |-> events, env |-> env]
SceneOf(entry, reference, env) ==
  IF entry = None THEN Scene(<<[actions |-> <<[reference |-> None, texts |-> <<None>>]>>]>>, <<>>)
  ELSE Scene(entry.events, Assigning(reference, entry, env))
Scenes(doc, group, env) ==
  Each(group.references, LAMBDA r : SceneOf(EntryOf(doc, r, "Maneuver", env), r, env))
  \o Each(group.maneuvers, LAMBDA m : Scene(m.events, Among(env, m.declarations)))
GroupTexts(doc, group, env) ==
  EachOf(Scenes(doc, group, env), LAMBDA scene : EventTexts(doc, scene.events, scene.env))
StoryTexts(doc, story, env) ==
  EachOf(story.acts, LAMBDA a : Each(a.groups, LAMBDA g : GroupTexts(doc, g, Among(env, story.declarations))))

\* The global parameters are in scope in what follows them.
Globals(doc, element) ==
  LET places == {i \in DOMAIN doc.root.children : doc.root.children[i] = element}
  IN IF \E i \in places : \E j \in 1 .. i - 1 : doc.root.children[j] = "ParameterDeclarations"
     THEN Among(<<>>, doc.root.declarations) ELSE <<>>
WrittenObjects(doc) ==
  Each(doc.root.entities.objects, LAMBDA o : ObjectTexts(doc, o, Globals(doc, "Entities")))
WrittenInit(doc) ==
  EachOf(doc.root.entities.objects,
         LAMBDA o : Each(o.controllers, LAMBDA c : ActionTexts(doc, c, Globals(doc, "Entities"))))
  \o Each(doc.root.storyboard.init, LAMBDA a : ActionTexts(doc, a, Globals(doc, "Storyboard")))
WrittenGroups(doc) ==
  EachOf(doc.root.storyboard.stories, LAMBDA s : StoryTexts(doc, s, Globals(doc, "Storyboard")))
WrittenIn(doc) ==
  [globals |-> Among(<<>>, doc.root.declarations), objects |-> WrittenObjects(doc), init |-> WrittenInit(doc),
   groups |-> WrittenGroups(doc)]
Meaningful(written) ==
  /\ written.globals # None
  /\ \A texts \in Range(written.objects \o written.init \o FlattenSeq(written.groups)) : None \notin Range(texts)

\* What was read, of an object, at init and in each group.
ReadObjects(ctx) == Each(ctx.doc.entities, LAMBDA e : IF e.object = None THEN <<>> ELSE e.object.texts)
ReadInit(ctx) == Each(ctx.doc.init, LAMBDA a : a.texts)
ReadGroup(group, who) ==
  Each(SelectSeq(ActionsIn(group), LAMBDA a : a.actor \in {who, None}), LAMBDA a : a.texts)
SameGroup(read, texts) == \A who \in Range(read.actors) : ReadGroup(read, who) = texts
SameGroups(read, written) ==
  Len(read) = Len(written) /\ \A i \in DOMAIN written : SameGroup(read[i], written[i])
Same(ctx, written) ==
  /\ ReadObjects(ctx) = written.objects
  /\ ReadInit(ctx) = written.init
  /\ SameGroups(Groups(ctx.doc), written.groups)
\* Where only the meaning of the texts can be wrong, meaning is what it takes to load.
SaysWhatIsWritten(ctx, written, formed) ==
  /\ formed => (first_error(ctx) = "Ok") = Meaningful(written)
  /\ first_error(ctx) = "Ok" /\ ctx.doc.kind = "Scenario" => Same(ctx, written)
=============================================================================
