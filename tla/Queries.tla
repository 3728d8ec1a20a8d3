------------------------------- MODULE Queries -------------------------------
(***************************************************************************)
(* What kernel.query answers: which contracts a schema selects, which of   *)
(* them an actor is told of, and which version of a contract is the        *)
(* latest.                                                                 *)
(***************************************************************************)
EXTENDS Authorization, SlugVersions

CONSTANTS
  Selected(_, _, _),  \* whether the database finds a contract by a schema
  NegatedLinks(_),    \* the links that a schema mentions in a 'not' or an 'if'
  Asked,              \* what the kernel itself asks: schemas, of which contracts, and for
                      \* each type of link what these may be linked to
  AskedByActors       \* the same, of what actors ask

ASSUME AskedAssumption ==
  \A q \in AskedByActors :
    q.schemas \subseteq ActorSchemas /\ q.rows \subseteq Contracts /\ q.linked \subseteq Linkings

\* Roles and scopes mention no links.
ASSUME NegatedLinksAssumption ==
  \A actor \in Actors : NegatedLinks(AuthorizationSchema(actor)) = {}

VARIABLES question, answer

vars == <<question, answer>>

Nothing == [kind |-> "nothing"]

-----------------------------------------------------------------------------
Init == question = Nothing /\ answer = Nothing

\* A query by a schema, about one contract of the table.
Ask ==
  /\ question = Nothing
  /\ \E q \in Asked : \E s \in q.schemas, c \in q.rows, l \in q.linked :
       question' = [kind |-> "select", schema |-> s, contract |-> c, linked |-> l]
  /\ UNCHANGED answer

\* The same, by an actor.
AskAs ==
  /\ question = Nothing
  /\ \E a \in Actors, q \in AskedByActors : \E s \in q.schemas, c \in q.rows, l \in q.linked :
       question' = [kind |-> "select as", schema |-> s, contract |-> c, linked |-> l, actor |-> a]
  /\ UNCHANGED answer

\* slug@latest, of the versions of the slug that the table has.
AskLatest ==
  /\ question = Nothing
  /\ \E vs \in SUBSET Versions :
       vs # {} /\ IsFiniteSet(vs) /\ question' = [kind |-> "latest", versions |-> vs]
  /\ UNCHANGED answer

\* The schema that the database is asked.
SchemaOf(q) == IF q.kind = "select as" THEN AuthorizeQuery(q.schema, q.actor) ELSE q.schema

Answer ==
  /\ question # Nothing /\ answer = Nothing
  /\ answer' =
       IF question.kind = "latest" THEN [version |-> Latest(question.versions)]
       ELSE [selected |-> Selected(SchemaOf(question), question.contract, question.linked)]
  /\ UNCHANGED question

Forget == answer # Nothing /\ question' = Nothing /\ answer' = Nothing

Next == AskLatest \/ Ask \/ AskAs \/ Answer \/ Forget

Spec == Init /\ [][Next]_vars

-----------------------------------------------------------------------------
(* Properties.                                                             *)

Answered(kind) == answer # Nothing /\ question.kind = kind

\* A link is a LEFT JOIN, and WHERE a condition on one row of it.  A schema that excludes
\* a link is therefore met by a row without what the link asks for, although another
\* linked contract may have it: if only some of the linked contracts pass, the link holds
\* in some rows and not in others (sql-query.ts:170-202, :1277-1281).
Split(schema, linked) ==
  \E m \in NegatedLinks(schema) : \E c, d \in linked[m.type] :
    IsValid(m.schema, c, linked) /\ ~IsValid(m.schema, d, linked)

\* What has to hold in the same row: the schema, and each part of it.
Conjunction(schema) ==
  {schema} \cup IF Has(schema, "allOf") THEN {schema.allOf[i] : i \in DOMAIN schema.allOf} ELSE {}

\* A query selects the contracts that are valid against its schema, as the tests
\* "jsonschema2sql: JSON Schema compatibility" have it, although every condition on
\* a field that is missing is unknown to SQL, conditions are left out where they
\* seem needless, and constants are folded (sql-query.ts, expression-filter.ts).  It
\* selects others only if a link that is excluded holds for some of what is linked,
\* and then, too, each part of the schema of which that is not so is met.
SelectsTheValid ==
  Answered("select") \/ Answered("select as") =>
    /\ IsValid(SchemaOf(question), question.contract, question.linked) => answer.selected
    /\ answer.selected =>
         \A s \in Conjunction(SchemaOf(question)) :
           ~Split(s, question.linked) => IsValid(s, question.contract, question.linked)

\* A contract that an actor is told of is one that the actor may read.  Where the
\* authorization reaches all links, an actor's query answers what it would answer if the
\* table contained only what the actor may read: neither a contract nor a link to a
\* contract tells of another one (authorizeQuery, applyAuthorizationSchemaToLinks).  It
\* does so of links that are asked for; of links that are excluded, if none holds for
\* some of what is linked only.
AnswersAreAuthorized ==
  Answered("select as") =>
    LET valid == IsValid(EvaluateTemplates(question.schema, question.actor), question.contract,
                         Readable(question.actor, question.linked))
    IN /\ answer.selected => MayRead(question.actor, question.contract)
       /\ question.schema \in ReachedSchemas =>
            /\ MayRead(question.actor, question.contract) /\ valid => answer.selected
            /\ answer.selected /\ ~Split(SchemaOf(question), question.linked) => valid

\* slug@latest is the newest release if there is a release: numbers count as
\* numbers, and "pre-releases are always of lowest interest" (sql-query.ts:124-125),
\* however new.
LatestIsNewest == Answered("latest") => IsNewest(answer.version, question.versions)
=============================================================================
