------------------------------- MODULE Keywords -------------------------------
(***************************************************************************)
(* The filters that the keywords of a schema become (sql-query.ts), given  *)
(* those of the schemas within it.  A keyword for values of one type of    *)
(* several has a conditional on jsonb_typeof, and a property that may be   *)
(* missing one on IS NOT NULL, both left out where they seem needless.     *)
(***************************************************************************)
EXTENDS Filters

AllTypes == {"array", "boolean", "integer", "null", "number", "object", "string"}

\* Columns of the cards table, the ones that the schemas here speak of.
ColumnType == [id |-> "string", slug |-> "string", type |-> "string", name |-> "string",
               markers |-> "array", data |-> "object"]
Nullable == {"name"}

\* The types that the field at a path can have at all.
TypesAt(path) ==
  IF IsTable(path) THEN {"object"}
  ELSE IF IsColumn(path) /\ ~IsJson(path) THEN {ColumnType[Last(path.names)]}
  ELSE AllTypes

Types(schema, path) ==
  TypesAt(path) \cap IF Has(schema, "type") THEN schema.type ELSE AllTypes

IsOfTypes(path, types) == [kind |-> "isOfTypes", path |-> path, types |-> types]
IsNull(path, isNull) == [kind |-> "isNull", path |-> path, isNull |-> isNull]
Limit(path, keyword, limit) ==
  [kind |-> "limit", path |-> path, keyword |-> keyword, limit |-> limit]

\* getIsTypesFilter: no filter for a column, and a constant if the types that the
\* field can have exclude all of them.
IsTypesFilter(path, valid) ==
  IF valid = {} THEN Expression(Constant(FALSE))
  ELSE IF ~IsJson(path) THEN Expression(Constant(TRUE))
  ELSE IF "integer" \notin valid THEN Expression(IsOfTypes(path, valid))
  ELSE LET integer == And(And(Expression(Constant(TRUE)), IsOfTypes(path, {"number"})),
                          Limit(path, "multipleOf", 1))
           rest == valid \ {"integer"}
       IN IF rest = {} THEN integer ELSE Or(integer, IsOfTypes(path, rest))

\* ifTypeThen.  The types are compared by name: "number" is not among the types of
\* an integer.
IfTypeThen(path, types, type, filter) ==
  IF types = {type} \/ (type \in types /\ ~IsJson(path)) THEN filter
  ELSE IF type \notin types THEN Expression(Constant(TRUE))
  ELSE Implies(IsTypesFilter(path, {type}), filter)

\* existsFilter: none for a column that cannot be NULL.
ExistsFilters(path) ==
  IF IsColumn(path) /\ Last(path.names) \notin Nullable THEN {} ELSE {IsNull(path, FALSE)}

\* setType.
SetType(filter, schema, path) ==
  IF Types(schema, path) = {} THEN MakeUnsatisfiable(filter)
  ELSE And(filter, IsTypesFilter(path, Types(schema, path)))

EqualsFilter(path, values) == [kind |-> "equals", path |-> path, values |-> values]

\* The visitors of minimum to maxProperties and multipleOf.
LimitFilter(schema, path, keyword) ==
  IfTypeThen(path, Types(schema, path), LimitedType(keyword), Limit(path, keyword, schema[keyword]))

\* The visitors of pattern, regexp and format.
PatternFilter(schema, path) ==
  IfTypeThen(path, Types(schema, path), "string",
             [kind |-> "matches", path |-> path, texts |-> schema.pattern])

\* tryJsonContainsOptimization: whether a 'contains' has a 'const' and nothing else,
\* except perhaps a type.
IsJsonContains(schema, path) ==
  /\ IsJson(path)
  /\ {"const"} \subseteq DOMAIN schema /\ DOMAIN schema \subseteq {"const", "type"}

\* 'typeof value === type'.
IsTypeOf(v, types) ==
  \/ types = {v.type} /\ v.type \notin {"null", "array"}
  \/ types = {"integer"} /\ v.type = "number"

JsonContains(schema, path) ==
  IF Has(schema, "type") /\ ~IsTypeOf(schema.const, schema.type) THEN Expression(Constant(FALSE))
  ELSE [kind |-> "contains", path |-> path, element |-> schema.const]

ArrayContains(path, filter) == [kind |-> "arrayContains", path |-> path, filter |-> filter]

-----------------------------------------------------------------------------
Query(filter, impliesExists) == [filter |-> filter, impliesExists |-> impliesExists]

AndAll(filter, filters) == FoldLeft(And, filter, filters)

Required(schema) == IF Has(schema, "required") THEN schema.required ELSE {}
Properties(schema) == IF Has(schema, "properties") THEN DOMAIN schema.properties ELSE {}

\* Variant: a property that may be missing has no conditional.
UnconditionalProperty(query, path, isRequired) ==
  IF ExistsFilters(path) = {} THEN query.filter
  ELSE IF isRequired /\ ~query.impliesExists
       THEN And(query.filter, CHOOSE f \in ExistsFilters(path) : TRUE) ELSE query.filter

\* The filter of one property, in propertiesVisitor.
PropertyFilter(query, path, isRequired) ==
  LET ensureExists == isRequired /\ ~query.impliesExists
      exists == CHOOSE f \in ExistsFilters(path) : TRUE
  IN CASE ExistsFilters(path) = {} -> query.filter
       [] IsUnsatisfiable(query.filter) /\ ExistsFilters(path) # {} ->
            IF ensureExists THEN query.filter ELSE Negate(Expression(exists))
       [] OTHER -> IF ensureExists THEN And(query.filter, exists)
                   ELSE IF isRequired THEN query.filter
                   ELSE Implies(Expression(exists), query.filter)
=============================================================================
