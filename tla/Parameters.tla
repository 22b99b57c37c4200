----------------------------- MODULE Parameters -----------------------------
(***************************************************************************)
(* What the readers of a scenario document share: the findings so far, the    *)
(* frames of parameters in scope, the mark that a declaration list has been    *)
(* applied already.  An attribute is None where it is missing, or what is       *)
(* written in it: plain text, a reference to a parameter, an expression.        *)
(***************************************************************************)
EXTENDS Expressions, TLC

Report(ctx, finding) == [ctx EXCEPT !.found = Append(@, finding)]
first_error(ctx) == first_error_code(ctx.found)
\* What reading a part gives: the context after it, and what was read or None.
Read(ctx, out) == [ctx |-> ctx, out |-> out]
Failed(ctx, code) == Read(Report(ctx, Error(code)), None)

---------------------------------------------------------------------------
(* Scope.                                                                      *)

Frame(isolated) == [values |-> <<>>, isolated |-> isolated]
push(ctx, isolated) == [ctx EXCEPT !.frames = Append(@, Frame(isolated))]
pop(ctx) == IF Len(ctx.frames) > 1 THEN [ctx EXCEPT !.frames = Front(@)] ELSE ctx
declare(ctx, name, value) == [ctx EXCEPT !.frames[Len(ctx.frames)].values = (name :> value) @@ @]
declared(ctx) == ctx.frames[1].values
\* Mutant: an isolated frame hides nothing.
InSightThrough(frames) == DOMAIN frames
\* The frames in sight: from the innermost to the first that is isolated.
InSight(frames) ==
  {i \in DOMAIN frames : \A j \in DOMAIN frames : j > i => ~frames[j].isolated}
\* Every parameter in scope with its value, the innermost of a name.
scope(ctx) ==
  FoldLeft(LAMBDA values, i : IF i \in InSight(ctx.frames) THEN ctx.frames[i].values @@ values
                              ELSE values,
           <<>>, [i \in DOMAIN ctx.frames |-> i])
ValueIn(values, name) == IF name \in DOMAIN values THEN values[name] ELSE None
find(ctx, name) == ValueIn(scope(ctx), name)

set_declarations_applied(ctx) == [ctx EXCEPT !.applied = TRUE]

---------------------------------------------------------------------------
(* Attributes.                                                                 *)

Mentioned(text) ==
  CASE text.form = "reference" -> {text.name}
    [] text.form = "expression" -> {t.name : t \in {t \in Range(text.tokens) : t.op = "parameter"}}
    [] OTHER -> {}
note_parameter_reference(ctx, text) == [ctx EXCEPT !.referenced = @ \cup Mentioned(text)]
ReadValue(ctx, value, code) == IF value = None THEN Failed(ctx, code) ELSE Read(ctx, to_text(value))
\* Parameters that are mentioned are noted, found or not.
ResolveAmong(ctx, text, values) ==
  IF text.form = "reference" THEN ReadValue(ctx, ValueIn(values, text.name), "SemanticError")
  ELSE ReadValue(ctx, evaluate_expression(text.tokens, values), "ValidationError")
resolve_attribute_text(ctx, text) ==
  CASE text.form = "plain" -> Read(ctx, text.text)
    [] text.form = "misnamed" -> Failed(ctx, "ValidationError")
    [] OTHER -> ResolveAmong(note_parameter_reference(ctx, text), text, scope(ctx))
require_string(ctx, text) ==
  IF text = None THEN Failed(ctx, "ValidationError") ELSE resolve_attribute_text(ctx, text)
\* Several attributes, each reported by itself: their spellings if all are read.
Together(reads, read) ==
  Read(read.ctx, IF None \in {reads.out, read.out} THEN None ELSE Append(reads.out, read.out))
require_all(ctx, texts) ==
  FoldLeft(LAMBDA reads, text : Together(reads, require_string(reads.ctx, text)),
           Read(ctx, <<>>), texts)

---------------------------------------------------------------------------
(* Declarations.                                                               *)

\* By number where both are numbers; other spellings are equal or they are not.
compare_values(lhs, rule, rhs) ==
  IF {lhs.shape, rhs.shape} \subseteq {"integer", "decimal"}
  THEN CASE rule = "equalTo" -> lhs.of = rhs.of
         [] rule = "notEqualTo" -> lhs.of # rhs.of
         [] rule = "lessThan" -> lhs.of < rhs.of
         [] rule = "greaterThan" -> lhs.of > rhs.of
         [] rule = "lessOrEqual" -> lhs.of <= rhs.of
         [] rule = "greaterOrEqual" -> lhs.of >= rhs.of
  ELSE (rule = "equalTo" /\ lhs = rhs) \/ (rule = "notEqualTo" /\ lhs # rhs)

\* A group holds when each constraint of it does; one that cannot be read is
\* left out, and then the groups do not reject the declaration.
Weighed(group, read, constraint, value) ==
  [group EXCEPT !.ctx = read.ctx,
                !.readable = @ /\ read.out # None,
                !.satisfied = @ /\ (read.out # None =>
                                      compare_values(to_text(value), constraint.rule, read.out))]
group_is_satisfied(ctx, group, value) ==
  FoldLeft(LAMBDA g, c : Weighed(g, require_string(g.ctx, c.value), c, value),
           [ctx |-> ctx, satisfied |-> TRUE, readable |-> TRUE], group)
EitherGroup(seen, group) ==
  [ctx |-> group.ctx, satisfied |-> seen.satisfied \/ group.satisfied,
   readable |-> seen.readable /\ group.readable]
constrained(ctx, groups, value) ==
  FoldLeft(LAMBDA seen, group : EitherGroup(seen, group_is_satisfied(seen.ctx, group, value)),
           [ctx |-> ctx, satisfied |-> groups = <<>>, readable |-> TRUE], groups)

Invalid(ctx) == Report(ctx, Error("ValidationError"))
Admit(seen, name, value) ==
  IF seen.readable /\ ~seen.satisfied THEN Invalid(seen.ctx) ELSE declare(seen.ctx, name, value)
Convert(ctx, declaration, value) ==
  IF value = None THEN Invalid(ctx)
  ELSE Admit(constrained(ctx, declaration.groups, value), declaration.name, value)
\* A value is converted to the type after it has been read as one of it.
Parsed(ctx, declaration, type, value) ==
  Convert(ctx, declaration, IF value = None THEN None ELSE convert_to(value, type))
Type(ctx, declaration, type, text) ==
  IF declaration.name = None \/ type = None THEN Invalid(ctx)
  ELSE Parsed(ctx, declaration, type, parse_typed(text, type))
Value(declaration, typed, read) ==
  IF read.out = None THEN read.ctx ELSE Type(read.ctx, declaration, parse_value_type(typed.out), read.out)
read_declaration(declaration, typed) ==
  IF typed.out = None THEN typed.ctx
  ELSE Value(declaration, typed, require_string(typed.ctx, declaration.value))
read_parameter_declarations(ctx, declarations) ==
  IF ctx.applied THEN [ctx EXCEPT !.applied = FALSE]
  ELSE FoldLeft(LAMBDA c, d : read_declaration(d, require_string(c, d.type)), ctx, declarations)
\* A list that is not there is not read, and takes no mark.
Declarations(ctx, node) ==
  IF node.declarations = None THEN ctx ELSE read_parameter_declarations(ctx, node.declarations)
\* A frame of its own for an element that may declare parameters.
ParameterFrame(ctx, node) == Declarations(push(ctx, FALSE), node)
=============================================================================
