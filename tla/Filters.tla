------------------------------- MODULE Filters -------------------------------
(***************************************************************************)
(* The filters of a query (jsonschema2sql/*-filter.ts): how they are       *)
(* combined, with constants folded, and what the SQL that they become      *)
(* evaluates to on a row.  SQL has three truth values, and a field that is *)
(* NULL makes most conditions on it unknown.                               *)
(*                                                                         *)
(* A row has a contract and, for each link that the query mentions, one of *)
(* the linked contracts that pass the filter of the link, or a NULL: links *)
(* are LEFT JOINs (sql-query.ts:170-202), each under an alias of its own   *)
(* (addLink), which is here the place of the link in the query.            *)
(*                                                                         *)
(* What a filter evaluates to and the links in it are recursive.  They are *)
(* constants here, of which the equations that define them are assumed.    *)
(***************************************************************************)
EXTENDS JsonValues, SequencesExt

CONSTANTS
  NumberText,               \* the text of each number
  TruthOf(_, _),            \* what a row evaluates a filter to
  LinksOf(_),               \* all links in a filter
  QueryFilters, QueryRows   \* filters, with those within them, and rows

-----------------------------------------------------------------------------
(* Paths (sql-path.ts).  The parent of a path in a subquery is the path of *)
(* the array whose elements are its rows.                                  *)

RootPath == [parent |-> <<>>, names |-> <<>>]

Push(path, name) == [path EXCEPT !.names = Append(@, name)]

\* The path of the elements of the array at a path (flattened).
ElementPath(path) == [parent |-> path.parent \o path.names, names |-> <<>>]

Depth(path) ==
  Len(path.parent) + Len(path.names) + IF path.names = <<>> /\ path.parent # <<>> THEN 1 ELSE 0

IsTable(path) == Depth(path) = 0
IsColumn(path) == Depth(path) = 1
IsJson(path) == Depth(path) > 0 /\ (path.parent \o path.names)[1] = "data"

TupleIndex == [i \in {"0", "1"} |-> IF i = "0" THEN 1 ELSE 2]

Child(v, name) ==
  IF v.type = "array" /\ name \in DOMAIN TupleIndex
  THEN IF TupleIndex[name] \in DOMAIN v.elements THEN v.elements[TupleIndex[name]] ELSE Missing
  ELSE Property(v, name)

\* The field at a path, Missing for an SQL NULL.
Field(row, path) == FoldLeft(Child, row.value, path.names)

-----------------------------------------------------------------------------
(* Expressions (expression-filter.ts).                                     *)

Constant(b) == [kind |-> "constant", value |-> b]
Not(f) == [kind |-> "not", filter |-> f]

Expression(f) == [kind |-> "expression", operator |-> "and", expr |-> <<f>>, optionalLinks |-> {}]

IntoExpression(f) == IF f.kind = "expression" THEN f ELSE Expression(f)

IsConstant(f) == f.kind = "expression" /\ Len(f.expr) = 1 /\ f.expr[1].kind = "constant"
IsUnsatisfiable(f) == IsConstant(f) /\ ~f.expr[1].value

MakeUnsatisfiable(f) == [f EXCEPT !.expr = <<Constant(FALSE)>>]

Negate(f) ==
  [f EXCEPT !.operator = "and", !.expr = <<Not([f EXCEPT !.optionalLinks = {}])>>]

\* The links in a filter: its own, and those in the filters within it.
FilterLinks(f, Of(_)) ==
  CASE f.kind = "expression" -> f.optionalLinks \cup UNION {Of(f.expr[i]) : i \in DOMAIN f.expr}
    [] f.kind \in {"not", "arrayContains"} -> Of(f.filter)
    [] f.kind = "link" -> {f}
    [] OTHER -> {}

OptionalLinks(f) == IF f.kind = "expression" THEN f.optionalLinks ELSE {}

\* Whether a constant leaves the other operand as it is: true AND x, false OR x.
IsNeutral(operator, f) == f.expr[1].value = (operator = "and")

\* Variant: what is folded away takes its links with it.
FoldAway(operator, c, other) == IF IsNeutral(operator, c) THEN IntoExpression(other) ELSE c

\* tryConstantFolding, of the constant c and another operand.
Fold(operator, c, other) ==
  IF IsNeutral(operator, c)
  THEN [IntoExpression(other) EXCEPT !.optionalLinks = @ \cup LinksOf(c)]
  ELSE [c EXCEPT !.optionalLinks = LinksOf(c) \cup LinksOf(other)]

\* An operand is inlined rather than nested if it can be.
Inline(operator, f) ==
  IF f.kind = "expression" /\ (f.operator = operator \/ Len(f.expr) = 1) THEN f.expr ELSE <<f>>

\* applyBinaryOperator.
Combine(operator, this, other) ==
  CASE IsConstant(this) -> Fold(operator, this, other)
    [] ~IsConstant(this) /\ IsConstant(other) -> Fold(operator, other, this)
    [] OTHER -> [kind |-> "expression", operator |-> operator,
                 expr |-> Inline(operator, [this EXCEPT !.optionalLinks = {}]) \o Inline(operator, other),
                 optionalLinks |-> this.optionalLinks \cup OptionalLinks(other)]

And(this, other) == Combine("and", this, other)
Or(this, other) == Combine("or", this, other)
Implies(this, other) == Or(Negate(this), other)

-----------------------------------------------------------------------------
(* What a row evaluates a filter to.                                       *)

Truth(b) == IF b THEN "true" ELSE "false"

Not3(t) == CASE t = "true" -> "false" [] t = "false" -> "true" [] OTHER -> "unknown"

And3(ts) == IF "false" \in ts THEN "false" ELSE IF "unknown" \in ts THEN "unknown" ELSE "true"
Or3(ts) == Not3(And3({Not3(t) : t \in ts}))
Join3(operator, ts) == IF operator = "and" THEN And3(ts) ELSE Or3(ts)

\* A field as text: that of a JSON null is an SQL NULL.
AsText(v) ==
  CASE v.type = "string" -> v.text
    [] v.type = "number" -> NumberText[v.halves]
    [] v.type = "boolean" -> Truth(v.boolean)
    [] v.type \in {"missing", "null"} -> "NULL"
    [] OTHER -> v.type

\* Strings are compared as text, other values as JSON; a null of a column is an
\* SQL NULL (equals-filter.ts).
Equal(path, v, values) ==
  LET texts == {x.text : x \in {y \in values : y.type = "string"}}
      others == {x \in values : x.type # "string" /\ (x = Null => IsJson(path))}
  IN Or3((IF Null \in values /\ ~IsJson(path) THEN {Truth(v = Missing)} ELSE {})
         \cup (IF texts = {} THEN {}
               ELSE {IF AsText(v) = "NULL" THEN "unknown" ELSE Truth(AsText(v) \in texts)})
         \cup (IF others = {} THEN {} ELSE {IF v = Missing THEN "unknown" ELSE Truth(v \in others)}))

\* A condition on a field is unknown if the field is NULL.
IfPresent(v, b) == IF v = Missing THEN "unknown" ELSE Truth(b)

\* What is compared with a limit, in halves.
ValueOf(v) == v.halves
StringLength(v) == 2 * CharLength[v.text]
ArrayLength(v) == 2 * Len(v.elements)
PropertyCount(v) == 2 * Cardinality(DOMAIN v.properties)

IsMultipleOf(v, multiple) == v.halves % (2 * multiple) = 0

\* Limits are asked of fields of their type only; a NULL is of no type.
LimitHolds(f, v) ==
  IF v.type # LimitedType(f.keyword) THEN "unknown"
  ELSE Truth(
    CASE f.keyword = "multipleOf" -> IsMultipleOf(v, f.limit)
      [] f.keyword \in {"minLength", "maxLength"} -> Within(f.keyword, StringLength(v), f.limit)
      [] f.keyword \in {"minItems", "maxItems"} -> Within(f.keyword, ArrayLength(v), f.limit)
      [] f.keyword \in {"minProperties", "maxProperties"} -> Within(f.keyword, PropertyCount(v), f.limit)
      [] OTHER -> Within(f.keyword, ValueOf(v), f.limit))

IsNullHolds(f, v) == Truth((v = Missing) = f.isNull)
IsOfTypesHolds(f, v) == IfPresent(v, v.type \in f.types)
MatchesHolds(f, v) == IF AsText(v) = "NULL" THEN "unknown" ELSE Truth(AsText(v) \in f.texts)

\* The filters with filters within them, by what these evaluate to.
ExpressionHolds(f, truths) == Join3(f.operator, truths)
IfThenElseHolds(condition, consequence, alternative) ==
  IF condition = "true" THEN consequence ELSE alternative

\* EXISTS is never unknown; nor is whether the row has a contract joined.
ArrayContainsHolds(v, truths) == Truth(v.type = "array" /\ "true" \in truths)
LinkHolds(f, row) == Truth(row.joined[f.alias] # Missing)

\* What is joined for a link, one row each: the linked contracts that pass its filter,
\* and a NULL for those that do not, or if none is linked.
Joined(linked, passing) == passing \cup IF linked # {} /\ passing = linked THEN {} ELSE {Missing}

\* What a filter evaluates to, where Of is what the filters within it do.
FilterHolds(f, row, Of(_, _)) ==
  LET v == Field(row, f.path)
      OfEach(values) == {Of(f.filter, [row EXCEPT !.value = w]) : w \in values}
  IN CASE f.kind = "constant" -> Truth(f.value)
       [] f.kind = "expression" -> ExpressionHolds(f, {Of(f.expr[i], row) : i \in DOMAIN f.expr})
       [] f.kind = "not" -> Not3(Of(f.filter, row))
       [] f.kind = "ifThenElse" -> IfThenElseHolds(Of(f.if, row), Of(f.then, row), Of(f.else, row))
       [] f.kind = "isNull" -> IsNullHolds(f, v)
       [] f.kind = "isOfTypes" -> IsOfTypesHolds(f, v)
       [] f.kind = "equals" -> Equal(f.path, v, f.values)
       [] f.kind = "limit" -> LimitHolds(f, v)
       [] f.kind = "matches" -> MatchesHolds(f, v)
       [] f.kind = "contains" -> IfPresent(v, v.type = "array" /\ f.element \in Elements(v))
       [] f.kind = "arrayContains" -> ArrayContainsHolds(v, OfEach(Elements(v)))
       [] f.kind = "link" -> LinkHolds(f, row)

-----------------------------------------------------------------------------
(* What the constants are.                                                 *)

TruthValues == {"true", "false", "unknown"}

\* The filters within a filter are filters, and a constant is one of two.
ASSUME FiltersAssumption ==
  \A f \in QueryFilters :
    /\ f.kind = "constant" => f = Constant(f.value) /\ f.value \in BOOLEAN
    /\ f.kind = "expression" =>
         /\ f = [kind |-> "expression", operator |-> f.operator, expr |-> f.expr,
                 optionalLinks |-> f.optionalLinks]
         /\ f.operator \in {"and", "or"} /\ f.expr \in Seq(QueryFilters) /\ f.expr # <<>>
    /\ f.kind = "not" => f.filter \in QueryFilters

\* The equations of the recursive definitions.
ASSUME TruthAssumption ==
  \A f \in QueryFilters, row \in QueryRows :
    TruthOf(f, row) = FilterHolds(f, row, TruthOf) /\ TruthOf(f, row) \in TruthValues

ASSUME FilterLinksAssumption == \A f \in QueryFilters : LinksOf(f) = FilterLinks(f, LinksOf)
=============================================================================
