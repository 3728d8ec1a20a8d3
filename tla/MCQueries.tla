------------------------------ MODULE MCQueries ------------------------------
(* The schemas, contracts, actors and versions that TLC asks Queries about. *)
EXTENDS SqlAnswers

n0 == Number(1)  \* a half
n1 == Number(2)
n2 == Number(4)
x == Text("x")
Lengths == [t \in {"", "x", "xy", "1", "c1", "u1", "o1", "u2", "u1+u2", "card"} |->
              CASE t = "" -> 0 [] t \in {"x", "1"} -> 1 [] t = "u1+u2" -> 5 [] t = "card" -> 4 [] OTHER -> 2]
Numerals == [h \in {1, 2, 4} |-> CASE h = 1 -> "0.5" [] h = 2 -> "1" [] h = 4 -> "2"]

Type(t) == [type |-> {t}]
Anything == [boolean |-> TRUE]
Never == [boolean |-> FALSE]

DataValues == {Missing, Null, Boolean(TRUE), n0, n1, n2, Text(""), x, Text("xy"), Text("1"),
           Array(<<>>), Array(<<n1>>), Array(<<x>>), Array(<<n1, x>>), Array(<<n2, Null>>),
           Object(<<>>), Object([b |-> n1]), Object([b |-> x])}

Single(f) == [k \in {f[1]} |-> f[2]]

\* Schemas of one property of the data, those with all the keywords that matter to
\* each other.
Leaves ==
  {<<>>, Anything, Never} \cup {Type(t) : t \in AllTypes}
  \cup {[type |-> {"string", "null"}], [type |-> {"integer", "string"}], [type |-> {"integer", "number"}]}
  \cup {[const |-> n1], [const |-> Null], [type |-> {"string"}, const |-> x], [enum |-> {n1, Null}],
        [type |-> {"string"}, enum |-> {x, Text("xy")}], [enum |-> {n0, Boolean(TRUE)}]}
  \cup {Single(<<k, 1>>) : k \in Limits}
  \cup {[type |-> {"number"}, minimum |-> 1], [type |-> {"string", "number"}, exclusiveMinimum |-> 1],
        [type |-> {"array"}, minItems |-> 1], [type |-> {"string"}, maxLength |-> 1],
        [pattern |-> {"x", "xy"}], [type |-> {"string"}, pattern |-> {"x"}]}
  \cup {[items |-> Type("number")], [items |-> [minimum |-> 1]], [type |-> {"array"}, items |-> Type("string")],
        [tuple |-> <<Type("number"), [type |-> {"string"}, const |-> x]>>],
        [contains |-> [const |-> n1]], [contains |-> [const |-> x, type |-> {"string"}]],
        [contains |-> [const |-> x, type |-> {"number"}]], [contains |-> [maximum |-> 1]],
        [type |-> {"array"}, contains |-> Type("null")]}
  \cup {[type |-> {"object"}, properties |-> [b |-> [const |-> n1]]],
        [type |-> {"object"}, properties |-> [b |-> Type("string")], required |-> {"b"}],
        [type |-> {"object"}, required |-> {"b"}], [required |-> {"b"}],
        [properties |-> [b |-> Anything]]}

\* Combinations of them.
Parts == {Type("string"), Never, [const |-> n1], [minimum |-> 1], [pattern |-> {"x"}], [items |-> Type("number")]}

Compound ==
  {[not |-> p] : p \in Parts}
  \cup {[anyOf |-> <<p, q>>] : p, q \in Parts} \cup {[allOf |-> <<p, [not |-> q]>>] : p, q \in Parts}
  \cup {[not |-> [anyOf |-> <<p, [allOf |-> <<q, [maximum |-> 1]>>]>>]] : p, q \in Parts}
  \cup {[if |-> p, then |-> q, else |-> [const |-> n0]] : p, q \in Parts}

OfData(schema, required) ==
  Only("data", [type |-> {"object"}, properties |-> [a |-> schema], required |-> required])

Contract(data, name, markers) ==
  Object([id |-> Text("c1"), slug |-> Text("c1"), type |-> Text("card"), markers |-> Array(markers),
          data |-> Object(IF data = Missing THEN <<>> ELSE [a |-> data])]
         @@ IF name = Missing THEN <<>> ELSE [name |-> name])

DataRows == {Contract(v, Missing, <<>>) : v \in DataValues}
Unlinked == [t \in {"has", "is"} |-> {}]

\* Two leaves at most in one schema, the data required or not.
DataSchemas == {OfData(s, r) : s \in Leaves \cup Compound, r \in {{}, {"a"}}}

\* A required property that is an object of its own, of any type.
NestedSchemas == {OfData([properties |-> [b |-> [const |-> n1]]], {"a"}),
                  OfData([properties |-> [b |-> Type("string")]], {"a"})}

\* Schemas of columns and of links.
ColumnSchemas ==
  {Only("name", s) : s \in {Type("string"), [type |-> {"string"}, const |-> x], Type("number"),
                            [not |-> [const |-> x]], [pattern |-> {"xy"}]}}
  \cup {[Only("name", s) EXCEPT !.type = {"object"}] @@ [required |-> {"name"}] :
          s \in {Type("string"), [type |-> {"string"}, const |-> x], [not |-> [const |-> x]], Never}}
  \cup {Only("markers", s) : s \in {[contains |-> [const |-> Text("u1")]], [maxItems |-> 1],
                                    [type |-> {"array"}, items |-> [type |-> {"string"}, enum |-> {Text("u1"), Text("o1")}]]}}

Linked(t, s) == [links |-> [u \in {t} |-> s]]
IsX == Only("name", [type |-> {"string"}, const |-> x]) @@ [required |-> {"name"}]

LinkSchemas ==
  {[type |-> {"object"}] @@ s :
     s \in {Linked("has", IsX), [not |-> Linked("has", IsX)], [anyOf |-> <<Anything, Linked("has", IsX)>>],
            [anyOf |-> <<Linked("has", <<>>), Linked("is", IsX)>>],
            [allOf |-> <<[anyOf |-> <<Linked("is", IsX), Anything>>], Linked("has", <<>>)>>],
            [anyOf |-> <<IsX, Linked("has", IsX)>>], [allOf |-> <<Never, Linked("has", IsX)>>],
            [not |-> [anyOf |-> <<Anything, Linked("has", IsX)>>]],
            [properties |-> [name |-> Linked("has", IsX)]],
            [allOf |-> <<IsX, [not |-> Linked("has", IsX)]>>],
            [if |-> Linked("has", IsX), then |-> IsX, else |-> Linked("is", <<>>)]}}

\* What is asked of the actor: templates, alone, in a link and in a condition.
Slugs == {"u1", "user-admin"}
OwnMarker == Only("markers", [contains |-> [eval |-> [u \in Slugs |-> [const |-> Text(u)]]]])
TemplateSchemas ==
  {[type |-> {"object"}] @@ s :
     s \in {OwnMarker, Linked("has", OwnMarker), [not |-> Linked("has", OwnMarker)],
            [if |-> OwnMarker, then |-> Linked("has", IsX), else |-> IsX],
            [if |-> OwnMarker, then |-> IsX, else |-> Never]}}

Names == {Missing, x, Text("xy")}
MarkerSets == {<<>>, <<Text("u1")>>, <<Text("u1+u2")>>, <<Text("u2")>>, <<Text("o1"), Text("u2")>>}
Tagged == {Contract(Missing, n, m) : n \in Names, m \in MarkerSets}
Neighbours == {{}, {Contract(Missing, x, <<Text("u1")>>)}, {Contract(Missing, x, <<Text("u2")>>)},
               {Contract(Missing, Missing, <<>>), Contract(Missing, x, <<Text("u2")>>)}}
Links2 == {[has |-> h, is |-> i] : h \in Neighbours, i \in {{}, {Contract(Missing, x, <<Text("u1")>>)}}}

User(slug, roles, scope) == [slug |-> slug, roles |-> roles, orgs |-> {"o1"}, scope |-> scope]
Users == {User("u1", {}, <<>>), User("u1", {"named"}, <<>>), User("u1", {"all", "named"}, <<>>),
          User("u1", {"all"}, IsX), User("user-admin", {"all", "named"}, <<>>)}
Roles == [all |-> Type("object"), named |-> IsX]
Compounds == [m \in {"u1", "o1", "u2", "u1+u2"} |-> IF m = "u1+u2" THEN {"u1", "u2"} ELSE {m}]

Case(schemas, rows, linked) == [schemas |-> schemas, rows |-> rows, linked |-> linked]
Questions == {Case(DataSchemas, DataRows, {Unlinked}), Case(ColumnSchemas, Tagged, {Unlinked}),
              Case(LinkSchemas, {Contract(Missing, n, <<>>) : n \in Names}, Links2)}
TableRows == {c \in Tagged : Property(c, "name") # Text("xy")}
ActorQuestions == {Case(LinkSchemas \cup TemplateSchemas, TableRows, Links2)}

\* The schemas and values that the assumptions are about.
RECURSIVE SchemaTree(_)
SchemaTree(schema) == {schema} \cup UNION {SchemaTree(s) : s \in SchemasWithin(schema)}

RECURSIVE NestingOf(_)
NestingOf(schema) ==
  IF SchemasWithin(schema) = {} THEN 0 ELSE 1 + Max({NestingOf(s) : s \in SchemasWithin(schema)})

RECURSIVE ValueTree(_)
ValueTree(v) ==
  {v} \cup UNION {ValueTree(w) : w \in CASE v.type = "array" -> Elements(v)
                                        [] v.type = "object" -> {v.properties[n] : n \in DOMAIN v.properties}
                                        [] OTHER -> {}}

AskedSchemas == UNION {SchemaTree(s) : s \in LinkSchemas \cup TemplateSchemas}
Evaluated(schemas) ==
  schemas \cup UNION {SchemaTree(EvaluateTemplates(s, a)) : s \in schemas, a \in Users}
ReadSchemas ==
  UNION {SchemaTree(s) : s \in {Roles[r] : r \in DOMAIN Roles} \cup {a.scope : a \in Users}}
  \cup Evaluated({s \in AskedSchemas : AllLinks(s) = {}})
AllSchemas ==
  ReadSchemas \cup Evaluated(AskedSchemas)
  \cup UNION {SchemaTree(AuthorizeLinks(s, AuthorizationSchema(a))) : s \in AskedSchemas, a \in Users}
  \cup UNION {SchemaTree(AuthorizeQuery(s, a)) : s \in AskedSchemas, a \in Users}

RECURSIVE IsReached(_)
IsReached(schema) ==
  /\ Conditional(schema) \cup Templates(schema) \subseteq ReadSchemas
  /\ \A s \in Unconditional(schema) : IsReached(s)
SchemasReached == {s \in AskedSchemas : IsReached(s)}
RowValues == UNION {ValueTree(c) : c \in TableRows}
RowLinkings == {[has |-> h, is |-> i] : h \in UNION {SUBSET n : n \in Neighbours}, i \in SUBSET {Contract(Missing, x, <<Text("u1")>>)}}

\* The filters of some schemas, and what becomes of two of them when they are combined.
RECURSIVE FilterTree(_)
FilterTree(f) ==
  {f} \cup CASE f.kind = "expression" -> UNION {FilterTree(f.expr[i]) : i \in DOMAIN f.expr}
           [] f.kind = "ifThenElse" -> FilterTree(f.if) \cup FilterTree(f.then) \cup FilterTree(f.else)
           [] f.kind \in {"not", "arrayContains", "link"} -> FilterTree(f.filter)
           [] OTHER -> {}

SchemaFilters ==
  {FromSchema(s, RootPath, <<>>).filter :
     s \in {Anything, Never, IsX, OfData([minimum |-> 1], {}), OfData([contains |-> [maximum |-> 1]], {"a"}),
            [anyOf |-> <<IsX, Linked("has", IsX)>>], [not |-> [anyOf |-> <<Anything, Linked("has", IsX)>>]],
            OfData([if |-> [const |-> n1], then |-> Never, else |-> [const |-> n0]], {})}}
Operands == SchemaFilters \cup {Constant(TRUE), Constant(FALSE)}
CombinedFilters ==
  {Combine(op, f, g) : op \in {"and", "or"}, f \in SchemaFilters, g \in Operands}
  \cup {Negate(f) : f \in SchemaFilters} \cup {[f EXCEPT !.optionalLinks = {}] : f \in SchemaFilters}

\* The filters of a property of the data, with those that they are made of.
DataPath == Push(Push(RootPath, "data"), "a")
Conditions ==
  {Expression(Constant(TRUE)), IsNull(DataPath, FALSE), Expression(IsNull(DataPath, FALSE))}
  \cup UNION {{IsOfTypes(DataPath, ts), Expression(IsOfTypes(DataPath, ts)), IsTypesFilter(DataPath, ts)} :
             ts \in SUBSET {"number", "string", "integer"} \ {{}}}
  \cup {And(Expression(Constant(TRUE)), IsOfTypes(DataPath, {"number"})), Limit(DataPath, "multipleOf", 1)}
PropertySchemas == {Never, Anything, Type("string"), [minimum |-> 1], [contains |-> [maximum |-> 1]]}
KeywordFilters ==
  Conditions \cup {Negate(f) : f \in {g \in Conditions : g.kind = "expression"}}
  \cup UNION {{PropertyFilter(FromSchema(s, DataPath, <<>>), DataPath, r), FromSchema(s, DataPath, <<>>).filter} :
             s \in PropertySchemas, r \in BOOLEAN}
  \cup {LimitFilter(s, DataPath, "minimum") : s \in {[minimum |-> 1], [minimum |-> 1, type |-> {"number", "string"}]}}
SomeFilters == UNION {FilterTree(f) : f \in Operands \cup CombinedFilters \cup KeywordFilters}
SomeRows ==
  {[value |-> c, joined |-> [a \in {m.alias : m \in UNION {Mentions(f) : f \in SomeFilters}} |-> j]] :
     c \in {Contract(v, n, <<>>) : v \in {Missing, n0, n1, n2, Array(<<n1, x>>)}, n \in Names},
     j \in {Missing, Contract(Missing, x, <<>>)}}

NestedQuestions == {Case(NestedSchemas, DataRows, {Unlinked})}
NoQuestions == {}

SomeVersions ==
  [major : {2, 10}, minor : {0}, patch : {0}, prerelease : {"", "beta"}, build : {"", "rev1"}]
  \cup [major : {1, 2}, minor : {3}, patch : {0}, prerelease : {"", "alpha"}, build : {""}]

Collation == [t \in {"", "alpha", "beta", "rev1"} |->
                CASE t = "" -> 0 [] t = "alpha" -> 1 [] t = "beta" -> 2 [] t = "rev1" -> 3]
=============================================================================
