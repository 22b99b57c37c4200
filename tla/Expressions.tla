----------------------------- MODULE Expressions -----------------------------
(***************************************************************************)
(* Typed values and the expressions computed from them.  A spelling is a shape *)
(* and what it spells, a number in halves; a value is a type and the spelling  *)
(* an attribute reader gets of it.  An expression is the sequence of its        *)
(* operands and operators in the order the parser applies them, so that a       *)
(* stack is all it takes.                                                       *)
(***************************************************************************)
EXTENDS Diagnostics

TypeNames == <<"Integer", "Integer", "UnsignedInt", "UnsignedShort", "Double", "Boolean",
               "String", "DateTime">>   \* "integer" is the older name of "int"
is_integral(type) == type \in {"Integer", "UnsignedInt", "UnsignedShort"}
is_numeric(type) == is_integral(type) \/ type = "Double"

Spelling(shape, of) == [shape |-> shape, of |-> of]
Spelled(halves) == Spelling(IF halves % 2 = 0 THEN "integer" ELSE "decimal", halves)
Typed(type, text) == [type |-> type, text |-> text]
make_double(halves) == Typed("Double", Spelled(halves))
make_boolean(b) == Typed("Boolean", Spelling("boolean", IF b THEN 1 ELSE 0))
to_text(value) == value.text

parse_value_type(text) == IF text.shape = "type" THEN TypeNames[text.of] ELSE None
UnsignedShortMax == 65535
parse_typed(text, type) ==
  CASE is_integral(type) ->
         IF /\ text.shape = "integer"
            /\ type = "Integer" \/ text.of >= 0
            /\ type # "UnsignedShort" \/ text.of <= 2 * UnsignedShortMax
         THEN Typed(type, text) ELSE None
    [] type = "Double" ->
         IF text.shape \in {"integer", "decimal"} THEN make_double(text.of) ELSE None
    [] type = "Boolean" ->
         IF text.shape = "boolean" THEN Typed(type, text)
         ELSE IF text.shape = "integer" /\ text.of \in {0, 2} THEN make_boolean(text.of = 2) ELSE None
    [] OTHER -> Typed(type, text)
\* The one conversion is from an integer to a double.
convert_to(value, declared) ==
  IF value.type = declared THEN value
  ELSE IF declared = "Double" /\ is_integral(value.type) THEN make_double(value.text.of)
  ELSE IF \/ is_integral(declared) /\ is_integral(value.type)
          \/ {declared, value.type} \subseteq {"String", "DateTime"}
       THEN Typed(declared, value.text)
  ELSE None

---------------------------------------------------------------------------
(* Operators.                                                                  *)

Abs(n) == IF n < 0 THEN -n ELSE n
Sign(n) == IF n > 0 THEN 1 ELSE IF n < 0 THEN -1 ELSE 0
Quotient(a, b) == (Sign(b) * a) \div Abs(b)
Remainder(a, b) == IF a < 0 THEN -(Abs(a) % Abs(b)) ELSE a % Abs(b)
Power(base, times) == FoldLeft(LAMBDA product, i : (product * base) \div 2, 2, [i \in 1 .. times |-> i])
pow(x, y) == IF y < 0 THEN Quotient(4, Power(x, (-y) \div 2)) ELSE Power(x, y \div 2)
LargestExponent == 1024

Logic == {"or", "and", "not"}
Binary == {"or", "and", "+", "-", "*", "/", "%", "max", "min", "pow"}
Unary == {"not", "negate", "round", "floor", "ceil", "sqrt", "sign", "abs"}
Fitting(op, type) == IF op \in Logic THEN type = "Boolean" ELSE is_numeric(type)
Undefined(op, x, y) ==
  CASE op \in {"/", "%"} -> y = 0
    [] op = "sqrt" -> x < 0
    [] op = "pow" -> y % 2 # 0 \/ Abs(y) > 2 * LargestExponent \/ (x = 0 /\ y < 0)
    [] OTHER -> FALSE
\* In halves, and 0 and 1 for the truth values.
Result(op, x, y) ==
  CASE op = "or" -> IF x + y > 0 THEN 1 ELSE 0
    [] op = "and" -> x * y
    [] op = "not" -> 1 - x
    [] op = "+" -> x + y
    [] op = "-" -> x - y
    [] op = "*" -> (x * y) \div 2
    [] op = "/" -> Quotient(2 * x, y)
    [] op = "%" -> Remainder(x, y)
    [] op = "negate" -> -x
    [] op = "round" -> 2 * Sign(x) * ((Abs(x) + 1) \div 2)
    [] op = "floor" -> 2 * (x \div 2)
    [] op = "ceil" -> -2 * ((-x) \div 2)
    [] op = "sqrt" -> CHOOSE r \in 0 .. x : r * r = 2 * x
    [] op = "sign" -> 2 * Sign(x)
    [] op = "abs" -> Abs(x)
    [] op = "max" -> IF x >= y THEN x ELSE y
    [] op = "min" -> IF x <= y THEN x ELSE y
    [] op = "pow" -> pow(x, y)
ResultType(op, a, b) ==
  CASE op \in Logic -> "Boolean"
    [] op \in {"round", "floor", "ceil"} -> "Integer"
    [] op \in {"/", "sqrt", "pow"} -> "Double"
    [] OTHER -> IF is_integral(a) /\ is_integral(b) THEN "Integer" ELSE "Double"
Valued(type, n) == Typed(type, IF type = "Boolean" THEN Spelling("boolean", n) ELSE Spelled(n))
\* None where an operand has the wrong type or the result is no number.
compute(op, a, b) ==
  IF ~Fitting(op, a.type) \/ ~Fitting(op, b.type) \/ Undefined(op, a.text.of, b.text.of) THEN None
  ELSE Valued(ResultType(op, a.type, b.type), Result(op, a.text.of, b.text.of))

---------------------------------------------------------------------------
(* Evaluation.                                                                 *)

\* An operand of an expression: a literal, or a parameter that is no text.
Operand(token, values) ==
  CASE token.op = "number" -> Typed(IF token.text.shape = "integer" THEN "Integer" ELSE "Double", token.text)
    [] token.op = "boolean" -> Typed("Boolean", token.text)
    [] token.op = "parameter" ->
         IF token.name \notin DOMAIN values \/ values[token.name].type \in {"String", "DateTime"}
         THEN None ELSE values[token.name]
    [] OTHER -> None   \* pi, which no revision that loads has, and unknown names
Arity(op) == IF op \in Binary THEN 2 ELSE IF op \in Unary THEN 1 ELSE 0
\* The stack of an expression that cannot be evaluated is None.
Push(stack, value) == IF value = None THEN None ELSE Append(stack, value)
Applied(stack, n, token, arity, values) ==
  IF n < arity THEN None
  ELSE Push(SubSeq(stack, 1, n - arity),
            IF arity = 0 THEN Operand(token, values) ELSE compute(token.op, stack[n - arity + 1], stack[n]))
Apply(stack, token, values) ==
  IF stack = None THEN None ELSE Applied(stack, Len(stack), token, Arity(token.op), values)
Only(stack) == IF stack = None THEN None ELSE IF Len(stack) = 1 THEN stack[1] ELSE None
evaluate_expression(tokens, values) ==
  Only(FoldLeft(LAMBDA stack, token : Apply(stack, token, values), <<>>, tokens))
=============================================================================
