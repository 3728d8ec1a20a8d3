------------------------------ MODULE SqlAnswers ------------------------------
(***************************************************************************)
(* The recursive definitions behind the queries: the SQL that a schema     *)
(* becomes, and the links of a schema.                                     *)
(***************************************************************************)
EXTENDS Queries, SqlQueries

\* The links that become LEFT JOINs: wherever a filter becomes SQL, with those that were
\* folded away.
RECURSIVE Mentions(_)
Mentions(f) ==
  CASE f.kind = "expression" -> f.optionalLinks \cup UNION {Mentions(f.expr[i]) : i \in DOMAIN f.expr}
    [] f.kind \in {"not", "arrayContains"} -> Mentions(f.filter)
    [] f.kind = "ifThenElse" -> Mentions(f.if) \cup Mentions(f.then) \cup Mentions(f.else)
    [] f.kind = "link" -> {f}
    [] OTHER -> {}

\* SELECT ... LEFT JOIN ... WHERE ... GROUP BY id: some row of the contract with what is
\* joined passes.  What is joined passes a filter of its own.
RECURSIVE Passes(_, _, _)
Passes(f, contract, linked) ==
  LET links == Mentions(f)
      Rows(m) == Joined(linked[m.type], {c \in linked[m.type] : Passes(m.filter, c, linked)})
      joins == {j \in [{m.alias : m \in links} -> UNION {Rows(m) : m \in links}] :
                  \A m \in links : j[m.alias] \in Rows(m)}
  IN \E j \in joins : Holds(f, [value |-> contract, joined |-> j]) = "true"

SelectedBySql(schema, contract, linked) ==
  Passes(FromSchema(schema, RootPath, <<>>).filter, contract, linked)

\* applyAuthorizationSchemaToLinks.
RECURSIVE ApplyToLinks(_, _)
ApplyToLinks(schema, authorization) ==
  AuthorizeKeywords(schema, authorization, LAMBDA s : ApplyToLinks(s, authorization))

\* evaluateSchemaWithContext.
RECURSIVE EvaluateWithContext(_, _)
EvaluateWithContext(schema, actor) ==
  EvaluateKeywords(schema, actor, LAMBDA s : EvaluateWithContext(s, actor))

-----------------------------------------------------------------------------
\* The types of links that a schema mentions.
RECURSIVE LinkTypes(_)
LinkTypes(schema) ==
  (IF Has(schema, "links") THEN DOMAIN schema.links ELSE {})
  \cup (IF Has(schema, "not") THEN LinkTypes(schema.not) ELSE {})
  \cup UNION {UNION {LinkTypes(schema[k][i]) : i \in DOMAIN schema[k]} :
              k \in {"anyOf", "allOf", "properties"} \cap DOMAIN schema}

\* All links that a schema mentions, and those of them in a 'not' or an 'if'.
RECURSIVE AllLinks(_)
AllLinks(schema) ==
  (IF Has(schema, "links") THEN {[type |-> t, schema |-> schema.links[t]] : t \in DOMAIN schema.links} ELSE {})
  \cup UNION {AllLinks(s) : s \in SchemasWithin(schema)}

RECURSIVE LinksNegated(_)
LinksNegated(schema) ==
  UNION {AllLinks(schema[k]) : k \in {"not", "if"} \cap DOMAIN schema}
  \cup UNION {LinksNegated(s) : s \in SchemasWithin(schema)}

\* Every link that a schema mentions is joined, so that the contracts found by it
\* are part of the answer, even if the condition on it is folded away
\* (optionalLinks in expression-filter.ts).
LinksSurvive ==
  Answered("select") =>
    LinkTypes(question.schema) = {f.type : f \in Links(FromSchema(question.schema, RootPath, <<>>).filter)}

\* sql-query.ts:458-460: filterImpliesExists is "True if, and only if `this.filter`
\* implies that the property that this object represents must exist. This is used to
\* elide needless `NOT NULL` checks".  A contract that is selected has the
\* properties that the schema requires of its data.
RequiredExist ==
  Answered("select") /\ answer.selected =>
    \A name \in Required(question.schema.properties.data) :
      Property(Property(question.contract, "data"), name) # Missing
=============================================================================
