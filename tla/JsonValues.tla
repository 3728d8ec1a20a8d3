----------------------------- MODULE JsonValues -----------------------------
(***************************************************************************)
(* JSON values, and what the keywords of a JSON schema ask of one.         *)
(*                                                                         *)
(* A schema is a record of its keywords; a missing keyword is a missing    *)
(* field.  The schemas 'true' and 'false' have the one field "boolean".    *)
(* 'type', 'required' and 'enum' are sets, an 'items' that is an array is  *)
(* called 'tuple', and 'pattern' is the set of the texts that match it.    *)
(* Numbers are counted in halves, so that some are not integers.           *)
(***************************************************************************)
EXTENDS Integers, Sequences, FiniteSets

CONSTANT CharLength  \* how long each text is

Missing == [type |-> "missing"]
Null == [type |-> "null"]
Boolean(b) == [type |-> "boolean", boolean |-> b]
Number(h) == [type |-> "number", halves |-> h]
Text(t) == [type |-> "string", text |-> t]
Array(s) == [type |-> "array", elements |-> s]
Object(f) == [type |-> "object", properties |-> f]

Has(schema, keyword) == keyword \in DOMAIN schema

IsInteger(v) == v.type = "number" /\ v.halves % 2 = 0

IsOfType(v, t) == IF t = "integer" THEN IsInteger(v) ELSE v.type = t

Elements(v) == {v.elements[i] : i \in DOMAIN v.elements}

Property(v, name) ==
  IF v.type = "object" /\ name \in DOMAIN v.properties THEN v.properties[name] ELSE Missing

LimitKeywords ==
  <<"minimum", "maximum", "exclusiveMinimum", "exclusiveMaximum", "multipleOf", "minLength",
    "maxLength", "minItems", "maxItems", "minProperties", "maxProperties">>

Limits == {LimitKeywords[i] : i \in DOMAIN LimitKeywords}

\* The type of the values that a limit is about; others satisfy it.
LimitedType(keyword) ==
  CASE keyword \in {"minLength", "maxLength"} -> "string"
    [] keyword \in {"minItems", "maxItems"} -> "array"
    [] keyword \in {"minProperties", "maxProperties"} -> "object"
    [] OTHER -> "number"

\* What a limit on v is compared with, in halves.
Size(v) ==
  CASE v.type = "number" -> v.halves
    [] v.type = "string" -> 2 * CharLength[v.text]
    [] v.type = "array" -> 2 * Len(v.elements)
    [] v.type = "object" -> 2 * Cardinality(DOMAIN v.properties)

Within(keyword, size, limit) ==
  CASE keyword \in {"minimum", "minLength", "minItems", "minProperties"} -> size >= 2 * limit
    [] keyword \in {"maximum", "maxLength", "maxItems", "maxProperties"} -> size <= 2 * limit
    [] keyword = "exclusiveMinimum" -> size > 2 * limit
    [] keyword = "exclusiveMaximum" -> size < 2 * limit
    [] keyword = "multipleOf" -> size % (2 * limit) = 0

\* What the keywords ask of v, by the draft 7 semantics and by that of $$links (some
\* contract linked in that way is valid against the schema of the link), where Is is
\* validity against the schemas within the schema.
Satisfies(schema, v, linked, Is(_, _)) ==
  /\ Has(schema, "boolean") => schema.boolean
  /\ Has(schema, "type") => \E t \in schema.type : IsOfType(v, t)
  /\ Has(schema, "const") => v = schema.const
  /\ Has(schema, "enum") => v \in schema.enum
  /\ \A k \in Limits : Has(schema, k) =>
       (v.type = LimitedType(k) => Within(k, Size(v), schema[k]))
  /\ Has(schema, "pattern") => (v.type = "string" => v.text \in schema.pattern)
  /\ Has(schema, "required") =>
       (v.type = "object" => \A name \in schema.required : Property(v, name) # Missing)
  /\ Has(schema, "properties") =>
       \A name \in DOMAIN schema.properties :
         Property(v, name) # Missing => Is(schema.properties[name], Property(v, name))
  /\ Has(schema, "items") => (v.type = "array" => \A e \in Elements(v) : Is(schema.items, e))
  /\ Has(schema, "tuple") =>
       (v.type = "array" => \A i \in DOMAIN v.elements \cap DOMAIN schema.tuple :
                              Is(schema.tuple[i], v.elements[i]))
  /\ Has(schema, "contains") => (v.type = "array" => \E e \in Elements(v) : Is(schema.contains, e))
  /\ Has(schema, "not") => ~Is(schema.not, v)
  /\ Has(schema, "allOf") => \A i \in DOMAIN schema.allOf : Is(schema.allOf[i], v)
  /\ Has(schema, "anyOf") => \E i \in DOMAIN schema.anyOf : Is(schema.anyOf[i], v)
  /\ Has(schema, "if") => Is(IF Is(schema.if, v) THEN schema.then ELSE schema.else, v)
  /\ Has(schema, "links") =>
       \A type \in DOMAIN schema.links :
         \E c \in linked[type] : Is(schema.links[type], c)
=============================================================================
