------------------------------ MODULE Readers ------------------------------
(***************************************************************************)
(* Reading the entities and the storyboard of a scenario document.  An element *)
(* keeps the attributes that are read of it in texts, its declarations or       *)
(* None, and what its actions and triggers mention.                              *)
(***************************************************************************)
EXTENDS Catalogs

Leave(read) == Read(pop(read.ctx), read.out)
\* The parts of an element: those that were read, and were they all.
NoneYet(ctx) == Read(ctx, [ok |-> TRUE, parts |-> <<>>])
With(reads, read) ==
  Read(read.ctx, [ok |-> reads.out.ok /\ read.out # None,
                  parts |-> IF read.out = None THEN reads.out.parts
                            ELSE Append(reads.out.parts, read.out)])
\* An element that needs a part and has none is reported; one that lost a part is lost.
Whole(reads, needed, element) ==
  IF needed /\ reads.out.parts = <<>> THEN Failed(reads.ctx, "ValidationError")
  ELSE Read(reads.ctx, IF reads.out.ok THEN element ELSE None)

---------------------------------------------------------------------------
(* Entities.                                                                   *)

\* A vehicle, a pedestrian or a miscellaneous object.
read_object(ctx, node) == Leave(require_all(ParameterFrame(ctx, node), node.texts))
ObjectOf(read, element) ==
  Read(read.ctx, IF read.out = None THEN None ELSE [element |-> element, texts |-> read.out])
Candidates == <<"Vehicle", "Pedestrian", "MiscObject">>
\* The first kind that holds the entry takes it.
TryKind(found, reference) ==
  IF found.out = None THEN [ctx |-> found.ctx, out |-> None, held |-> FALSE]
  ELSE Leave(ObjectOf(read_object(CatalogEntryScope(found.ctx, reference, found.out), found.out),
                      found.out.element)) @@ [held |-> TRUE]
Unheld(tried) == IF tried.held THEN tried ELSE Failed(tried.ctx, "SemanticError")
read_catalog_object(ctx, reference) ==
  Unheld(FoldLeft(LAMBDA r, kind : IF r.held THEN r
                                   ELSE TryKind(try_resolve(r.ctx, reference, kind, kind), reference),
                  [ctx |-> ctx, out |-> None, held |-> FALSE], Candidates))

\* The attributes of a controller, read where its entry's parameters are in scope.
ControllerEntry(read, reference) ==
  IF read.out = None THEN read
  ELSE Leave(require_all(CatalogEntryScope(read.ctx, reference, read.out), read.out.texts))
read_controller(ctx, node) ==
  IF node.reference # None
  THEN ControllerEntry(resolve(ctx, node.reference, "Controller", "Controller"), node.reference)
  ELSE require_all(ctx, node.texts)
\* What an object declares to control it is assigned to it at init.
Assigned(ctx, entity, read) ==
  IF read.out = None THEN read.ctx
  ELSE [read.ctx EXCEPT !.doc.init = Append(@, [actor |-> entity, bulk |-> 0, texts |-> read.out,
                                               mentions |-> <<>>])]
read_object_controllers(ctx, entity, controllers) ==
  FoldLeft(LAMBDA c, node : Assigned(c, entity, read_controller(c, node)), ctx, controllers)

Declare(read, node) ==
  [read_object_controllers(read.ctx, node.name, node.controllers)
     EXCEPT !.doc.entities = Append(@, [name |-> node.name, object |-> read.out])]
read_scenario_object(ctx, node) ==
  Declare(IF node.object # None THEN ObjectOf(read_object(ctx, node.object), node.object.element)
          ELSE IF node.reference # None THEN read_catalog_object(ctx, node.reference)
          ELSE Read(ctx, None), node)

EntitiesNamed(ctx) == {e.name : e \in Range(ctx.doc.entities)}
OfType(ctx, type) ==
  LET entities == SelectSeq(ctx.doc.entities, LAMBDA e : e.object # None /\ e.object.element = type)
  IN [i \in DOMAIN entities |-> entities[i].name]
AddEach(members, names) ==
  FoldLeft(LAMBDA m, name : IF name \in Range(m) THEN m ELSE Append(m, name), members, names)
Select(read, member) ==
  IF member.type # None THEN Read(read.ctx, AddEach(read.out, OfType(read.ctx, member.type)))
  ELSE IF member.ref \in DOMAIN read.ctx.selections
       THEN Read(read.ctx, AddEach(read.out, read.ctx.selections[member.ref]))
  ELSE IF member.ref \in EntitiesNamed(read.ctx) THEN Read(read.ctx, AddEach(read.out, <<member.ref>>))
  ELSE Read(Report(read.ctx, Error("SemanticError")), read.out)
add_entity_selection(name, read) == [read.ctx EXCEPT !.selections = (name :> read.out) @@ @]
read_entity_selection(ctx, node) ==
  add_entity_selection(node.name, FoldLeft(Select, Read(ctx, <<>>), node.members))
\* Selections come after the objects, wherever they are listed.
read_entities(ctx, node) ==
  FoldLeft(read_entity_selection, FoldLeft(read_scenario_object, ctx, node.objects), node.selections)

---------------------------------------------------------------------------
(* The storyboard.                                                             *)

\* One action for one actor; None where it cannot be read.
Acting(read, actor, bulk, action) ==
  Read(read.ctx, IF read.out = None THEN None
                 ELSE [actor |-> actor, bulk |-> bulk, texts |-> read.out,
                       mentions |-> action.mentions])
read_private_action(ctx, action, actor, bulk) ==
  Acting(read_controller(ctx, action), actor, bulk, action)
read_global_action(ctx, action) == Acting(require_all(ctx, action.texts), None, 0, action)
\* A private action is read once for each actor, and they share a number.
ForEachActor(reads, action, actors) ==
  FoldLeft(LAMBDA r, actor : With(r, read_private_action(r.ctx, action, actor, reads.ctx.bulk + 1)),
           [reads EXCEPT !.ctx.bulk = @ + 1], actors)
read_event_action(reads, action, actors) ==
  IF ~action.private THEN With(reads, read_global_action(reads.ctx, action))
  ELSE IF actors = <<>> THEN [reads EXCEPT !.ctx = Report(@, Error("ValidationError"))]
  ELSE ForEachActor(reads, action, actors)

Priorities == {"override", "overwrite", "skip", "parallel"}
Priority(ctx, event) ==
  IF event.priority \notin Priorities THEN Report(ctx, Error("ParseError"))
  ELSE IF event.priority = "overwrite" /\ ctx.minor >= 3 THEN Report(ctx, Warning("DeprecatedFeature"))
  ELSE ctx
\* An action that cannot be read does not lose the event; a last one does.
EventOf(reads, event) ==
  Whole([reads EXCEPT !.out.ok = event.priority \in Priorities], TRUE,
        [name |-> event.name, mentions |-> event.mentions, actions |-> reads.out.parts])
read_event(ctx, event, actors) ==
  EventOf(FoldLeft(LAMBDA r, action : read_event_action(r, action, actors),
                   NoneYet(Priority(ctx, event)), event.actions), event)

ManeuverOf(reads, node) == Whole(reads, TRUE, [name |-> node.name, events |-> reads.out.parts])
read_maneuver(ctx, node, actors) ==
  Leave(ManeuverOf(FoldLeft(LAMBDA r, event : With(r, read_event(r.ctx, event, actors)),
                            NoneYet(ParameterFrame(ctx, node)), node.events), node))

Actors(ctx, names) ==
  FlattenSeq([i \in DOMAIN names |-> IF names[i] \in DOMAIN ctx.selections THEN ctx.selections[names[i]]
                                     ELSE <<names[i]>>])
\* Where a maneuver is: in a catalog or in place.
Locate(ctx, place) ==
  IF place.reference = None THEN Read(ctx, place.maneuver)
  ELSE resolve(ctx, place.reference, "Maneuver", "Maneuver")
Enter(ctx, reference, entry) == IF reference = None THEN ctx ELSE CatalogEntryScope(ctx, reference, entry)
LeaveEntry(reference, read) == IF reference = None THEN read ELSE Leave(read)
ManeuverAt(found, reference, actors) ==
  IF found.out = None THEN found
  ELSE LeaveEntry(reference, read_maneuver(Enter(found.ctx, reference, found.out), found.out, actors))
ReadManeuvers(ctx, places, actors) ==
  FoldLeft(LAMBDA r, place : With(r, ManeuverAt(Locate(r.ctx, place), place.reference, actors)),
           NoneYet(ctx), places)
\* Maneuvers from catalogs come before those in place.
Places(node) ==
  [i \in DOMAIN node.references |-> [reference |-> node.references[i], maneuver |-> None]]
  \o [i \in DOMAIN node.maneuvers |-> [reference |-> None, maneuver |-> node.maneuvers[i]]]
GroupOf(reads, node, actors) ==
  Whole(reads, FALSE, [name |-> node.name, actors |-> actors, maneuvers |-> reads.out.parts])
GroupFor(ctx, node, actors) == GroupOf(ReadManeuvers(ctx, Places(node), actors), node, actors)
read_maneuver_group(ctx, node) == GroupFor(ctx, node, Actors(ctx, node.actors))

ActOf(reads, node) ==
  Whole(reads, TRUE, [name |-> node.name, mentions |-> node.mentions, groups |-> reads.out.parts])
read_act(ctx, node) ==
  ActOf(FoldLeft(LAMBDA r, group : With(r, read_maneuver_group(r.ctx, group)), NoneYet(ctx), node.groups),
        node)
StoryOf(reads, node) == Whole(reads, TRUE, [name |-> node.name, acts |-> reads.out.parts])
read_story(ctx, node) ==
  Leave(StoryOf(FoldLeft(LAMBDA r, act : With(r, read_act(r.ctx, act)),
                         NoneYet(ParameterFrame(ctx, node)), node.acts), node))

read_init(ctx, node) ==
  FoldLeft(LAMBDA r, action : With(r, IF action.private
                                      THEN read_private_action(r.ctx, action, action.actor, 0)
                                      ELSE read_global_action(r.ctx, action)),
           NoneYet(ctx), SelectSeq(node, LAMBDA a : ~a.private) \o SelectSeq(node, LAMBDA a : a.private))
Stories(reads, node) ==
  FoldLeft(LAMBDA r, story : With(r, read_story(r.ctx, story)),
           NoneYet([reads.ctx EXCEPT !.doc.init = @ \o reads.out.parts]), node.stories)
Storyboard(reads, node) ==
  [reads.ctx EXCEPT !.doc.stories = reads.out.parts, !.doc.stop = node.mentions]
read_storyboard(ctx, node) == Storyboard(Stories(read_init(ctx, node.init), node), node)
=============================================================================
