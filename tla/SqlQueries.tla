----------------------------- MODULE SqlQueries -----------------------------
(***************************************************************************)
(* The translation of a JSON schema into a filter (sql-query.ts): every    *)
(* keyword adds a conjunct.  'at' is the place of the schema in the query  *)
(* (jsonPath).                                                             *)
(***************************************************************************)
EXTENDS SqlFilters, Keywords

RECURSIVE FromSchema(_, _, _)

\* finalize, with propertiesVisitor: a conditional on the value being an object.
PropertiesFilter(schema, path, at) ==
  LET Visited(filter, name) ==
        And(filter, PropertyFilter(FromSchema(schema.properties[name], Push(path, name),
                                              at \o <<"properties", name>>),
                                   Push(path, name), name \in Required(schema)))
      Unvisited(filter, name) == AndAll(filter, SetToSeq(ExistsFilters(Push(path, name))))
      visited == FoldLeft(Visited, Expression(Constant(TRUE)), SetToSeq(Properties(schema)))
  IN IfTypeThen(path, Types(schema, path), "object",
                FoldLeft(Unvisited, visited, SetToSeq(Required(schema) \ Properties(schema))))

\* arrayContentsMustMatch: no element fails to match.
ItemsFilter(schema, path, at) ==
  IfTypeThen(path, Types(schema, path), "array",
             Not(ArrayContains(path,
                 Negate(FromSchema(schema.items, ElementPath(path), Append(at, "items")).filter))))

\* tupleMustMatch: an element that is there matches.
TupleFilter(schema, path, at) ==
  LET Element(i) == Implies(Expression(Limit(path, "minItems", i)),
                            FromSchema(schema.tuple[i], Push(path, <<"0", "1">>[i]),
                                       at \o <<"items", ToString(i)>>).filter)
  IN IfTypeThen(path, Types(schema, path), "array",
                AndAll(Expression(Constant(TRUE)), [i \in DOMAIN schema.tuple |-> Element(i)]))

ContainsFilter(schema, path, at) ==
  IfTypeThen(path, Types(schema, path), "array",
             IF IsJsonContains(schema.contains, path) THEN JsonContains(schema.contains, path)
             ELSE ArrayContains(path, FromSchema(schema.contains, ElementPath(path),
                                                 Append(at, "contains")).filter))

\* addIfThenElse.
IfFilter(schema, path, at) ==
  LET Branch(k) == FromSchema(schema[k], path, Append(at, k)).filter
  IN [kind |-> "ifThenElse", if |-> Branch("if"), then |-> Branch("then"), else |-> Branch("else")]

\* $$linksVisitor: the contracts linked in that way have a filter of their own.
LinkFilter(schema, type, at) ==
  LET alias == at \o <<"$$links", type>>
  IN [kind |-> "link", alias |-> alias, type |-> type,
      filter |-> FromSchema(schema.links[type], RootPath, alias).filter]

\* The filters of each schema of an allOf or anyOf.
EachFilter(schema, path, at, keyword) ==
  [i \in DOMAIN schema[keyword] |->
     FromSchema(schema[keyword][i], path, at \o <<keyword, ToString(i)>>).filter]

AnyOfFilter(schema, path, at) ==
  FoldLeft(Or, Expression(Constant(FALSE)), EachFilter(schema, path, at, "anyOf"))

\* filterImpliesExists: a property that implies that it exists counts, required or
\* not.
RECURSIVE ImpliesExists(_, _)
ImpliesExists(schema, path) ==
  /\ ~Has(schema, "boolean")
  /\ \/ Has(schema, "type") /\ IsJson(path) /\ Types(schema, path) # {}
     \/ Has(schema, "const") \/ Has(schema, "enum")
     \/ Has(schema, "allOf") /\ \E i \in DOMAIN schema.allOf : ImpliesExists(schema.allOf[i], path)
     \/ Has(schema, "anyOf") /\ \A i \in DOMAIN schema.anyOf : ImpliesExists(schema.anyOf[i], path)
     \/ \E name \in Properties(schema) : ImpliesExists(schema.properties[name], Push(path, name))

\* What each keyword adds, none if it is missing.
On(schema, keyword, filter) == IF Has(schema, keyword) THEN <<filter>> ELSE <<>>

Conjuncts(schema, path, at) ==
  On(schema, "pattern", PatternFilter(schema, path))
  \o On(schema, "if", IfFilter(schema, path, at))
  \o FlattenSeq([i \in DOMAIN LimitKeywords |->
       On(schema, LimitKeywords[i], LimitFilter(schema, path, LimitKeywords[i]))])
  \o On(schema, "const", EqualsFilter(path, {schema.const}))
  \o On(schema, "enum", EqualsFilter(path, schema.enum))
  \o On(schema, "not", Negate(FromSchema(schema.not, path, Append(at, "not")).filter))
  \o On(schema, "items", ItemsFilter(schema, path, at))
  \o On(schema, "tuple", TupleFilter(schema, path, at))
  \o On(schema, "contains", ContainsFilter(schema, path, at))
  \o (IF Has(schema, "allOf") THEN EachFilter(schema, path, at, "allOf") ELSE <<>>)
  \o On(schema, "anyOf", AnyOfFilter(schema, path, at))
  \o (IF Has(schema, "links")
      THEN LET types == SetToSeq(DOMAIN schema.links)
           IN [i \in DOMAIN types |-> LinkFilter(schema, types[i], at)] ELSE <<>>)
  \o (IF Required(schema) = {} /\ ~Has(schema, "properties")
      THEN <<>> ELSE <<PropertiesFilter(schema, path, at)>>)

\* The visit of every keyword, in an order in which type comes first and required
\* and properties last.
FromSchema(schema, path, at) ==
  LET true == Expression(Constant(TRUE)) IN
  Query(IF Has(schema, "boolean")
        THEN IF schema.boolean THEN true ELSE MakeUnsatisfiable(true)
        ELSE AndAll(IF Has(schema, "type") THEN SetType(true, schema, path) ELSE true,
                    Conjuncts(schema, path, at)),
        ImpliesExists(schema, path))
=============================================================================
