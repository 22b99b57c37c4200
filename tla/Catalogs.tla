------------------------------ MODULE Catalogs ------------------------------
(***************************************************************************)
(* The catalog directories of a scenario and the entries in their files.  A   *)
(* directory is scanned when the first reference needs it; a file has a place  *)
(* in the order of file names, and no catalog where it is no catalog file.      *)
(***************************************************************************)
EXTENDS Parameters

CatalogKinds == {"Vehicle", "Controller", "Pedestrian", "MiscObject", "Environment", "Maneuver",
                 "Trajectory", "Route"}
Locations == <<"Vehicle", "Controller", "Pedestrian", "MiscObject", "Environment", "Maneuver",
               "Trajectory", "Route">>
Undeclared == [path |-> None, scanned |-> FALSE, entries |-> <<>>]
NoDirectories == [kind \in CatalogKinds |-> Undeclared]
set_directory(ctx, kind, path) == [ctx EXCEPT !.directories[kind].path = path]
has_directory(ctx, kind) == ctx.directories[kind].path # None

\* A location names the directory it is of.
read_location(ctx, location) ==
  IF location.path = None THEN Report(ctx, Error("ValidationError"))
  ELSE set_directory(ctx, location.kind, location.path)
\* Of several locations of a kind only the first is looked at.
FirstLocation(locations, kind) ==
  LET of == SelectSeq(locations, LAMBDA l : l.kind = kind)
  IN IF of = <<>> THEN <<>> ELSE <<Head(of)>>
read_catalog_locations(ctx, locations) ==
  FoldLeft(LAMBDA c, kind : FoldLeft(read_location, c, FirstLocation(locations, kind)), ctx, Locations)

---------------------------------------------------------------------------
(* Scanning.                                                                   *)

\* Of two entries of one name the first is kept.
Catalogue(ctx, kind, key, entry) ==
  IF entry.name = None THEN ctx
  ELSE IF key \in DOMAIN ctx.directories[kind].entries THEN Report(ctx, Warning("ValidationError"))
  ELSE [ctx EXCEPT !.directories[kind].entries = (key :> entry) @@ @]
ScanFile(ctx, kind, file) ==
  IF ~file.opens THEN ctx
  ELSE IF ~file.well_formed THEN Report(ctx, Warning("ParseError"))
  ELSE IF file.catalog = None THEN ctx
  ELSE FoldLeft(LAMBDA c, entry : Catalogue(c, kind, <<file.catalog, entry.name>>, entry),
                ctx, file.entries)
ByFileName(files) == SetToSortSeq(files, LAMBDA f, g : f.name < g.name)
ScanFiles(ctx, kind, path) ==
  IF (path.relative /\ ctx.base = None) \/ ~path.exists
  THEN Report(ctx, Error("SemanticError"))
  ELSE FoldLeft(LAMBDA c, file : ScanFile(c, kind, file), ctx, ByFileName(path.files))
\* Even a directory that cannot be read is scanned only once.
scan(ctx, kind) ==
  IF ctx.directories[kind].scanned THEN ctx
  ELSE ScanFiles([ctx EXCEPT !.directories[kind].scanned = TRUE], kind, ctx.directories[kind].path)

---------------------------------------------------------------------------
(* References.                                                                 *)

EntryAt(ctx, kind, key) ==
  IF key \in DOMAIN ctx.directories[kind].entries THEN ctx.directories[kind].entries[key] ELSE None
Entry(ctx, entry, element) ==
  IF entry = None THEN Failed(ctx, "SemanticError")
  ELSE IF entry.element # element THEN Failed(ctx, "ValidationError")
  ELSE Read(ctx, entry)
Lookup(ctx, kind, key, element) == Entry(ctx, EntryAt(ctx, kind, key), element)
Named(names, kind, element) ==
  IF names.out = None THEN names
  ELSE IF ~has_directory(names.ctx, kind) THEN Failed(names.ctx, "SemanticError")
  ELSE Lookup(scan(names.ctx, kind), kind, names.out, element)
\* The second name is read only when the first one was.
Key(catalog, reference) ==
  IF catalog.out = None THEN catalog
  ELSE Together(Read(catalog.ctx, <<catalog.out>>), require_string(catalog.ctx, reference.entry))
resolve(ctx, reference, kind, element) ==
  Named(Key(require_string(ctx, reference.catalog), reference), kind, element)

\* What is written for a name, taken as it is: no parameter is looked up.
AsWritten(text) ==
  IF text.form = "plain" THEN text.text ELSE Spelling("raw", 0)
\* A miss is silent here, for the next kind is tried.
Silently(ctx, entry, element) ==
  Read(ctx, IF entry = None THEN None ELSE IF entry.element = element THEN entry ELSE None)
TryLookup(ctx, kind, key, element) == Silently(ctx, EntryAt(ctx, kind, key), element)
try_resolve(ctx, reference, kind, element) ==
  IF ~has_directory(ctx, kind) \/ None \in {reference.catalog, reference.entry}
  THEN Read(ctx, None)
  ELSE TryLookup(scan(ctx, kind), kind, <<AsWritten(reference.catalog), AsWritten(reference.entry)>>,
                 element)

---------------------------------------------------------------------------
(* The scope of an entry.                                                      *)

\* Assignments are read where the reference is; those that cannot be are left out.
ReadAssignment(read, name, value) ==
  Read(value.ctx, IF value.out = None THEN read.out ELSE Append(read.out, <<name, value.out>>))
ReadAssignments(ctx, assignments) ==
  FoldLeft(LAMBDA read, a : ReadAssignment(read, a.name, require_string(read.ctx, a.value)),
           Read(ctx, <<>>), assignments)
\* An assignment must fit what the entry declares.
AssignTo(ctx, name, value) ==
  IF value = None THEN Report(ctx, Error("ValidationError")) ELSE declare(ctx, name, value)
Assign(ctx, name, text, assigned) ==
  IF assigned = None THEN Report(ctx, Warning("SemanticError"))
  ELSE AssignTo(ctx, name, parse_typed(text, assigned.type))
EnterEntry(read, entry) ==
  set_declarations_applied(
    FoldLeft(LAMBDA c, a : Assign(c, a[1], a[2], find(c, a[1])),
             Declarations(push(read.ctx, TRUE), entry), read.out))
CatalogEntryScope(ctx, reference, entry) ==
  EnterEntry(ReadAssignments(ctx, reference.assignments), entry)
=============================================================================
