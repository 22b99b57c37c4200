----------------------------- MODULE Diagnostics -----------------------------
(***************************************************************************)
(* What a check, a reader or a call reports: findings in the order they are *)
(* made, each with a severity and a status code, and the code an operation   *)
(* that reports them ends with.                                              *)
(***************************************************************************)
EXTENDS Integers, Sequences, FiniteSets, SequencesExt

CONSTANT None   \* the absent value of an std::optional, the empty name, a null pointer

Optional(S) == S \cup {None}

Status == {"Ok", "AlreadyInitialized", "NotInitialized", "UnknownEntity", "InvalidControlMode",
           "InvalidArgument", "ParseError", "ValidationError", "SemanticError",
           "UnsupportedFeature", "UnknownName", "DeprecatedFeature"}
Severity == {"error", "warning", "info"}
Diagnostic == [severity : Severity, code : Status]

Error(code) == [severity |-> "error", code |-> code]
Warning(code) == [severity |-> "warning", code |-> code]

\* A sink collects: a finding made on a condition, those of each of several parts.
When(condition, finding) == IF condition THEN <<finding>> ELSE <<>>
EachOf(seq, check(_)) == FlattenSeq([i \in DOMAIN seq |-> check(seq[i])])
prepend(findings, reported) == findings \o reported

errors(found) == {i \in DOMAIN found : found[i].severity = "error"}
has_errors(found) == errors(found) # {}
first_error_code(found) ==
  LET first == CHOOSE i \in errors(found) : \A j \in errors(found) : i <= j
  IN IF has_errors(found) THEN found[first].code ELSE "Ok"
=============================================================================
