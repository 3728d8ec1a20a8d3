---------------------------- MODULE Authorization ----------------------------
(***************************************************************************)
(* What a query of an actor becomes (authorization/*.ts): the actor's      *)
(* authorization schema is merged with the schema of each of its links,    *)
(* its templates ($eval) are evaluated for the actor, and the schema is    *)
(* merged with the whole.                                                  *)
(*                                                                         *)
(* A schema that is a template has the one field 'eval': what it evaluates *)
(* to, by the slug of the actor.  Validity and the two traversals of       *)
(* authorization/utils.ts are recursive.  They are constants here, of      *)
(* which the equations that define them are assumed, so that what follows  *)
(* from the equations can be proved.                                       *)
(***************************************************************************)
EXTENDS JsonValues, SequencesExt

CONSTANTS
  IsValid(_, _, _),      \* whether a value is valid against a schema, given what is linked
  AuthorizeLinks(_, _),  \* applyAuthorizationSchemaToLinks, of a schema
  EvaluateTemplates(_, _), \* evaluateSchemaWithContext, of a schema and an actor
  Nesting(_),            \* how deep a schema is nested
  Schemas,               \* the schemas of queries before and after, and those within them
  PlainSchemas,          \* some that nowhere mention a link: those of roles and scopes
  ActorSchemas,          \* those that actors ask, and those within them
  ReachedSchemas,        \* of these, some all whose links the authorization reaches
  LinkNames,             \* the types of links
  Values,                \* contracts and the values in them
  Contracts,             \* the contracts of the table
  Linkings,              \* for each type of link what a contract is linked to
  Actors,                \* who asks: slugs, roles, organisations and the scope of the session
  RoleSchemas,           \* what the roles may read, by the slug of the role
  MarkerParts            \* the parts of a marker, which '+' joins

-----------------------------------------------------------------------------
(* jsonSchema.merge is a conjunction.                                      *)

Merge(schemas) == [allOf |-> schemas]

Only(column, schema) == [type |-> {"object"}, properties |-> [c \in {column} |-> schema]]

\* Some role of the actor, one named after the actor included, may read the
\* contract; without roles no contract matches.
RoleSlugs(actor) == (actor.roles \cup {actor.slug}) \cap DOMAIN RoleSchemas

RoleBasedSchema(actor) ==
  [type |-> {"object"},
   anyOf |-> IF RoleSlugs(actor) = {} THEN <<Only("id", [const |-> Null])>>
             ELSE SetToSeq({RoleSchemas[s] : s \in RoleSlugs(actor)})]

\* Every marker of the contract is, or has as a part, the slug of the actor or of
\* an organisation of the actor.
Markers(actor) == {actor.slug} \cup actor.orgs

MarkerSchema(markers) ==
  [type |-> {"string"},
   anyOf |-> << [enum |-> {Text(m) : m \in markers}],
                [pattern |-> {m \in DOMAIN MarkerParts : MarkerParts[m] \cap markers # {}}] >>]

MarkerBasedSchema(actor) ==
  IF actor.slug = "user-admin" THEN [boolean |-> TRUE]
  ELSE Only("markers", [type |-> {"array"}, items |-> MarkerSchema(Markers(actor))])

\* resolveAuthorizationSchema: the scope of the session counts unless it is empty.
AuthorizationSchema(actor) ==
  LET authorization == Merge(<<RoleBasedSchema(actor), MarkerBasedSchema(actor)>>)
  IN IF DOMAIN actor.scope = {} THEN authorization ELSE Merge(<<authorization, actor.scope>>)

-----------------------------------------------------------------------------
\* The keywords with one schema, and those with several: under an index, the name of
\* a property, or the type of a link.
SchemaKeywords == {"not", "items", "contains"}
SchemasKeywords == {"anyOf", "allOf", "tuple", "properties"}

ConditionalKeywords == {"if", "then", "else"}

\* A step of applyAuthorizationSchemaToLinks, which goes on in the schemas within
\* this one, other than those of if, then and else and what a template becomes.
AuthorizeKeywords(schema, authorization, Inner(_)) ==
  [k \in DOMAIN schema |->
     CASE k = "links" -> [t \in DOMAIN schema.links |-> Merge(<<authorization, Inner(schema.links[t])>>)]
       [] k \in SchemasKeywords -> [i \in DOMAIN schema[k] |-> Inner(schema[k][i])]
       [] k \in SchemaKeywords -> Inner(schema[k])
       [] OTHER -> schema[k]]

\* A step of evaluateSchemaWithContext, which goes on everywhere, but not in what a
\* template evaluates to.
EvaluateKeywords(schema, actor, Inner(_)) ==
  IF Has(schema, "eval") THEN schema.eval[actor.slug]
  ELSE [k \in DOMAIN schema |->
          CASE k \in SchemasKeywords \cup {"links"} -> [i \in DOMAIN schema[k] |-> Inner(schema[k][i])]
            [] k \in SchemaKeywords \cup ConditionalKeywords -> Inner(schema[k])
            [] OTHER -> schema[k]]

\* Variant: the links stay as they are asked for.
AuthorizeContract(schema, actor) ==
  Merge(<<AuthorizationSchema(actor), EvaluateTemplates(schema, actor)>>)

AuthorizeQuery(schema, actor) ==
  LET authorization == AuthorizationSchema(actor)
  IN Merge(<<authorization, EvaluateTemplates(AuthorizeLinks(schema, authorization), actor)>>)

-----------------------------------------------------------------------------
(* What an actor may read.                                                 *)

NoLinks == [t \in LinkNames |-> {}]

\* A role lets it, each marker of the contract is its own or one of its
\* organisations', and the contract is in the scope of the session.
MayRead(actor, c) ==
  /\ \E s \in RoleSlugs(actor) : IsValid(RoleSchemas[s], c, NoLinks)
  /\ \/ actor.slug = "user-admin"
     \/ \A m \in Elements(Property(c, "markers")) :
          (MarkerParts[m.text] \cup {m.text}) \cap Markers(actor) # {}
  /\ IsValid(actor.scope, c, NoLinks)

Readable(actor, linked) == [t \in DOMAIN linked |-> {c \in linked[t] : MayRead(actor, c)}]

-----------------------------------------------------------------------------
(* What the constants are.                                                 *)

Conditional(schema) == {schema[k] : k \in ConditionalKeywords \cap DOMAIN schema}

Templates(schema) == IF Has(schema, "eval") THEN {schema.eval[s] : s \in DOMAIN schema.eval} ELSE {}

Unconditional(schema) ==
  {schema[k] : k \in SchemaKeywords \cap DOMAIN schema}
  \cup UNION {{schema[k][i] : i \in DOMAIN schema[k]} :
              k \in (SchemasKeywords \cup {"links"}) \cap DOMAIN schema}

SchemasWithin(schema) == Conditional(schema) \cup Templates(schema) \cup Unconditional(schema)

\* Schemas are nested to a finite depth, and an if has both branches.
ASSUME NestingAssumption ==
  \A schema \in Schemas :
    /\ SchemasWithin(schema) \subseteq Schemas
    /\ Nesting(schema) \in Nat
    /\ \A s \in SchemasWithin(schema) : Nesting(s) < Nesting(schema)
    /\ Has(schema, "if") => Has(schema, "then") /\ Has(schema, "else")

ASSUME PlainAssumption ==
  /\ PlainSchemas \subseteq Schemas
  /\ \A schema \in PlainSchemas :
       /\ ~Has(schema, "links")
       /\ SchemasWithin(schema) \subseteq PlainSchemas
       /\ \A actor \in Actors : EvaluateTemplates(schema, actor) \in PlainSchemas

\* What the schemas of actors become is among the schemas, and a template evaluates to
\* something for every actor.
ASSUME ActorSchemasAssumption ==
  /\ ActorSchemas \subseteq Schemas
  /\ \A schema \in ActorSchemas, actor \in Actors :
       /\ AuthorizeLinks(schema, AuthorizationSchema(actor)) \in Schemas
       /\ AuthorizeQuery(schema, actor) \in Schemas
       /\ EvaluateTemplates(schema, actor) \in Schemas
       /\ Has(schema, "eval") => actor.slug \in DOMAIN schema.eval

\* Neither a condition, at any depth, nor what a template becomes has links.  An actor
\* may ask other schemas, of which applyAuthorizationSchemaToLinks leaves some of the
\* links as they are.
ASSUME ReachedAssumption ==
  /\ ReachedSchemas \subseteq ActorSchemas
  /\ \A schema \in ReachedSchemas :
       /\ Conditional(schema) \cup Templates(schema) \subseteq PlainSchemas
       /\ Unconditional(schema) \subseteq ReachedSchemas
       /\ Has(schema, "links") => DOMAIN schema.links \subseteq LinkNames

\* The columns id and markers are never NULL (CARD_FIELDS), and a contract in a
\* linking is one of the table.
ASSUME ContractsAssumption ==
  /\ \A v \in Values :
       /\ v.type = "array" => Elements(v) \subseteq Values
       /\ v.type = "object" => \A name \in DOMAIN v.properties : v.properties[name] \in Values
  /\ Contracts \subseteq Values
  /\ \A c \in Contracts :
       /\ c.type = "object" /\ Property(c, "id") \notin {Missing, Null}
       /\ Property(c, "markers") # Missing /\ Property(c, "markers").type = "array"
       /\ Elements(Property(c, "markers")) \subseteq {Text(m) : m \in DOMAIN MarkerParts}
  /\ Linkings \subseteq [LinkNames -> SUBSET Contracts]
  /\ NoLinks \in Linkings
  /\ \A actor \in Actors, linked \in Linkings : Readable(actor, linked) \in Linkings

\* The templates of a role are evaluated when it is read (roles.ts:46-51); a scope has
\* none.
ASSUME ActorsAssumption ==
  /\ \A s \in DOMAIN RoleSchemas : RoleSchemas[s] \in PlainSchemas
  /\ \A actor \in Actors :
       /\ IsFiniteSet(actor.roles) /\ actor.scope \in PlainSchemas
       /\ EvaluateTemplates(AuthorizationSchema(actor), actor) = AuthorizationSchema(actor)

\* The equations of the recursive definitions.
ASSUME ValidityAssumption ==
  \A schema \in Schemas, v \in Values, linked \in Linkings :
    IsValid(schema, v, linked) <=> Satisfies(schema, v, linked, LAMBDA s, x : IsValid(s, x, linked))

ASSUME LinksAssumption ==
  \A schema \in ActorSchemas, actor \in Actors :
    LET authorization == AuthorizationSchema(actor)
    IN AuthorizeLinks(schema, authorization) =
         AuthorizeKeywords(schema, authorization, LAMBDA s : AuthorizeLinks(s, authorization))

ASSUME TemplatesAssumption ==
  \A schema \in Schemas, actor \in Actors :
    EvaluateTemplates(schema, actor) =
      EvaluateKeywords(schema, actor, LAMBDA s : EvaluateTemplates(s, actor))
=============================================================================
