# Verification of AutumnDB

AutumnDB stores *contracts* (JSON documents with an id, a versioned slug and a
type) in Postgres, caches them in Redis, and streams changes to its clients.
This directory holds TLA+ modules of its core, the TLC runs that check them, and
TLAPS proofs. `src/` below is the repository; line numbers refer to it, and
`PROJECT.json` maps each definition to the lines that it models.

## 1. The system

| Component | State | Operations | What is hard | What makes it correct |
|---|---|---|---|---|
| Cards table (`lib/backend/postgres/cards.ts`) | one row per `slug@version`, unique id; row locks | `upsert`, `getById`, `getBySlug` (with or without `FOR UPDATE`), `getManyById`, `materializeLink`, indexes | concurrent statements; the conflict clause keeps some columns of the old row and not others | ids and slugs stay unique; a row keeps its id and type |
| PostgresBackend (`lib/backend/postgres/index.ts`) | the cache, links and streams it owns; a connection pool | `insertElement`, `upsertElement`, `getElementById/BySlug/sById`, `query`, `stream`, `connect`, `reset`, migrations | every operation is a database statement, then cache and link statements, with no common transaction | table and cache agree, links and table agree |
| Cache (`lib/cache.ts`) | Redis keys `cards:id:…` and `cards:slug:…`, one hour expiration | `set` (two keys), `setMissingId/Slug`, `getById/BySlug`, `unset`, `reset` | the two keys are independent; writes fail; writes of different calls are unordered | never the wrong contract; stale only after a race, and not for good |
| Context (`lib/context.ts`) | database connection of a request, transaction flag | `withDatabaseConnection`, `withTransaction`, `query`, `listenForDatabaseNotifications` | parallel branches share a connection; errors on every path; connections and locks must be released | statements of a transaction run inside it; locks and connections are released |
| Kernel (`lib/kernel.ts`) | the `relationships` cache | `insertContract`, `replaceContract`, `patchContractBySlug`, `getContractBy…`, `query`, `stream`, `initialize` | read-modify-write of a contract; start-up while contracts change | patches are atomic; `relationships` follows the table |
| Streams (`lib/backend/postgres/streams.ts`) | the listening connection; per stream the seen contracts and the query | trigger, `push`, `contractsUpdated`, `unseeContractId`, `setSchema`, reconnect | notifications are handled concurrently, queries answer late, connections drop | a subscriber ends with what a query would return |
| Links (`lib/backend/postgres/links.ts`) | the `links2` table, `linked_at` of each contract | `upsert`, `addLink`, `removeLink` | two tables, two statements, no transaction | `links2` mirrors the active link contracts |
| Schema set-up (`index.ts` 425-537, `createIndex` 891-995) | schema version row, Postgres indexes | `runDbMigrations`, `createIndex` | several instances start at once, of different releases | set-up runs once |
| Authorization (`lib/authorization/`) | none | the schemas of roles, markers and the session's scope merged into queries | composition of schemas | a query returns a subset |
| JSON schema to SQL (`jsonschema2sql/`) | none | schema to filter expression to SQL | SQL's three-valued logic under negation | the filter accepts what the schema accepts |
| Versions (`utils.ts`) | none | `parseVersion`, order of versions | prereleases, `latest` | the latest version is found |

The kernel calls the backend, the backend calls the cards and links modules
and the cache, each with the caller's `Context`. A trigger on the cards table
notifies the listening connection of every instance; `streams.ts` turns
notifications into queries and events. The kernel itself subscribes to a stream,
of relationship contracts.

## 2. Modules and plan

| Module | Models | Status |
|---|---|---|
| `ContractTable` | what the cards table promises: atomic insert, replace and patch | proved about, as the abstraction of the next |
| `ContractStore`, `ContractStore_proofs` | table, row locks, cache and every await of the operations on one contract; implements `ContractTable` | checked, proved |
| `Staleness` | `ContractStore` with a history of overlaps, failures and changes of type | checked, proved in `ContractStore_proofs` |
| `Streams`, `Streams_proofs` | the trigger, concurrent pushes, requery, match and unmatch, the subscriber | checked, proved |
| `Freshness`, `Freshness_proofs` | `Streams` with a history of what makes an answer doubtful | checked, proved |
| `Relationships`, `Relationships_proofs` | `Freshness` with the kernel as its subscriber: start-up, query, stream | checked, proved |
| `StreamFamily` | two instances of `Streams`, the base stream and the inverse stream of a link, and the handlers between them | checked |
| `Connections`, `Connections_proofs` | connect, disconnect, the listening connection, migrations by several releases | checked, proved |
| `Transactions`, `Transactions_proofs` | scopes of `withTransaction`, nested or parallel, on pooled connections | checked, proved |
| `Links`, `Links_proofs` | link contracts, `links2`, `linked_at`, the cache of the ends; the contracts that belong to a user | checked, proved |
| `JsonValues`, `JsonSchemas` | JSON values, what a keyword asks of one; what it is to be valid against a schema: the reference | checked |
| `Filters`, `SqlFilters` | paths, expressions with constant folding, three-valued evaluation; the two recursive definitions of them | checked, proved about in `Queries_proofs` |
| `Keywords`, `SqlQueries` | the filter of each keyword, given those of the schemas within; from schema to filter | checked, the former proved about in `Queries_proofs` |
| `SlugVersions` | the versions of a slug and their order | checked, proved in `Queries_proofs` |
| `Authorization` | what a query of an actor becomes, and what an actor may read | checked, proved in `Queries_proofs` |
| `Queries`, `Queries_proofs` | who asks what, and what is answered | checked, proved |
| `SqlAnswers` | `Queries` with the SQL that answers | checked |

`MC*.tla` give the constants their values; `X_proofs` extends `X`.

The provers cannot reason about a recursive operator. What is recursive is therefore
kept apart, in `JsonSchemas`, `SqlFilters`, `SqlQueries` and `SqlAnswers`; the modules
proved about have constants in its place (`IsValid`, `AuthorizeLinks`, `EvaluateTemplates`,
`NegatedLinks`, `Selected`, `TruthOf`, `LinksOf`), of which they assume the defining
equation where a proof needs it (`ValidityAssumption`, `LinksAssumption`,
`TemplatesAssumption`, `TruthAssumption`, `FilterLinksAssumption`).
The run gives them the recursive operators, so TLC evaluates each equation on
the schemas, contracts and filters of the run before it explores a state.
`StreamFamily` shows a disagreement and has no property that holds.

## 3. How the models correspond to the code

An action is what a call does between two awaits, that is, one SQL statement or
one Redis command with the code around it.

**ContractStore.** `Clients` are call chains, of one process or of several. `pc`
says how far a call has got.

| Code | Actions |
|---|---|
| `getElementById`, `getElementBySlug` | `Probe`, `Read`, then the cache writes in `sets` |
| `insertElement` | `Insert`, cache writes |
| `upsertElement` (`replaceContract`) | `Replace`, cache writes |
| `patchContractBySlug` in `withTransaction` | `PatchLock` or `PatchNothing`, cache writes, `PatchUpsert` or `PatchNoop`, cache writes, `Commit` or `Rollback` |
| `Cache.set`, `setMissingId`, `setMissingSlug` | `CacheSet`, `CacheSetMissing`: writes in flight that land (`CacheLands`) or fail (`CacheFails`) one by one |
| `EX 3600` | `Expire` |

A contract is its slug with version, id, type, the data it was stored with, and
the set of JSON patches applied since. That is enough to tell a lost update, a
wrong identity and a stale entry. `SlugEdits` is what a patch may write to
`/slug`; a patch of `/version` moves a contract to another key in the same way.

Simplified, with no effect on the properties: a patch waits for a lock by not
being enabled; an insert that collides with an uncommitted one fails at once,
where Postgres would wait for its outcome; a patch of `/type` is not
among the edits, since the table ignores it; the check for loops is a
validation like the others, inside `Rollback`. The two writes of `cache.set` are
issued together, so they land in any order. If one fails, `Promise.all` gives the caller
the error at once (`cache.ts` 200): the call ends or rolls back while the other write is
still on its way, and the client begins no other call until that has landed or failed.

**Streams.** `Pushes` are executions of `Stream.push`, and of `Stream.query`
for `dataset` events. `stage` is their program counter.

| Code | Actions |
|---|---|
| trigger on `cards` | `Write`, `WriteLink` append to `wire` |
| `links.upsert` after the link contract | `LinkLands` |
| `push` | `PushLink`, `PushSeen`, `PushUnseen`, `PushDelete`, `PushNothing`, one per branch |
| `contractsUpdated` | `Query` (after the delay), then `Deliver`, `Retry` or `Unmatch` one root at a time; `Fail` |
| `query`, `setSchema` | `Fetch` and `Dataset`; `SetSchema` |

`view` is the subscriber: it adds and drops contracts as the events say. Rows are
abstracted to a value that the schema accepts or does not. Roots and leaves may have
the same type, as in `kernel.stream.spec.ts`: such a contract is a root in its own right
and a leaf of others, or of itself, and its root set in `seenContractIds` says which.
The links of a leaf are not part of what is asked, a link has one write on its
way at a time, and the 50 ms delay is not timed: a query may come at any
moment after the notification.

**Connections.** One `pc` per instance. `Close` is `disconnect`, which
`tryConnect` calls twice; `goal` says what comes after it. `ReleaseLine` and
`CloseStreams` are the two halves of `Streamer.disconnect`, `EndPool` is
`pool.end()`, which in the pool library resolves when every connection has been
released. `Take`, `Listen`, `ListenFails` are `listenForDatabaseNotifications`,
`Lose` its `end` handler, `LockVersion` and `Migrated` the transaction of
`executeIfDbSchemaIsOutdated`; `Restart` is a process that ends anywhere and
starts again. The `end` handler is modelled as it is written. (The connection has no
`error` listener, so that Node may end the process first; that is `Restart`.)
`CloseStreams` and the assignment of `null` that follows it within the same turn
of the event loop are one step. The reset of the cache between the two
connections, and what the migrations do to tables and indexes, are left out.

**StreamFamily.** `Kernel.stream` opens, besides the stream asked for, a stream of
the linked type in the other direction, because `push` ignores a linked
contract that the base stream has not seen. `OfLeaves` is that inverse stream:
`Streams` with roots and leaves exchanged, on the same tables, with notifications,
pushes and memory of its own. `Called`, `Find` and `Report` are its `data`
handler (`kernel.ts` 1476-1570): the delay, the query by the id of the leaf with
`limit: 1`, the event emitted on the base stream, whose `seenContractIds` does
not change. Masks, authorization and queries with several types of links are left out.

**Relationships.** The subscriber of a stream is the kernel. `QueryRelationships`
and `SetRelationships` are the two ends of the `await` in `initialize`; `OnData`
is the handler of the stream's events, and `Hear` applies it to what the stream
does. The stream is that of `Streams`, without links, as its schema has none
(`kernel.ts` 93-104, `RelationshipsAssumption`).

**Transactions.** A scope is a call of `withTransaction` and the `Context` that its
callback gets.

| Code | Actions |
|---|---|
| `withDatabaseConnection` on a `Context` without a connection | `Call`, `Acquire`, `GiveUp` (`connectionTimeoutMillis`) |
| `withTransaction` on a `Context` with one | `Nest`: `SAVEPOINT`, and the parent is blocked |
| `query` | `Query`: appended to the statements of the connection, as long as the Context is `Usable` |
| callback resolved or rejected | `Resolve`: `COMMIT` or `RELEASE`; `Reject`: `ROLLBACK` |
| the `finally` of `withTransaction` and `withDatabaseConnection` | `Finally`, a part of the actions that answer |
| answers of Postgres | `Started`, `StartFails`, `Written`, `WriteFails`, `Committed`, `CommittedNothing`, `CommitFails`, `RolledBack` |

A connection answers its statements in order (`queue`), and keeps the writes of
every open level (`session`). A Context can be used until its `finally` (`context.ts`
121-130, 263-273), that is, until the answer to `COMMIT` or `ROLLBACK`. The callback may
have resolved or rejected before its own queries are answered, as with a `Promise.all`
that rejects, and the branches that it leaves over may query on: what they ask for then
is `late`, runs behind the `COMMIT` or `ROLLBACK`, and may still be unanswered when the
connection is back in the pool. A statement that fails aborts the innermost open
transaction (`aborted`), in which Postgres then refuses every statement but a `ROLLBACK`,
and answers a `COMMIT` with `ROLLBACK` and no error (`CommittedNothing`): a callback may
resolve although a query of its own, or of a branch of a scope within it, has failed.

Assumed: a statement that fails has had no effect, and a callback ends after the scopes
that it has started (`CalleesEnded`). No code under `src/lib` starts a transaction in one
of several parallel branches: the callers of `withTransaction` (`kernel.ts` 1038,
`backend/postgres/index.ts` 453 and 917) await it alone, and the `Promise.all` inside the
transaction of a patch (`kernel.ts` 861) only queries. A `COMMIT` whose answer is lost is
not modelled, nor is the assertion on isolation levels, nor the chain that serializes
contexts (`context.ts` 132-144). As in the code, a `SAVEPOINT` that fails leaves the
parent blocked. Scopes are interchangeable, and called in one order (`IsNext`).

**Links.** A call upserts its `plan`: one contract, and after a user the contracts
that belong to it (`index.ts` 706-850).

| Code | Actions |
|---|---|
| `insertElement`, `upsertElement` of any contract | `Upsert`, then `UpsertRow`, `CacheRow` for each contract of the plan |
| `links.upsert` | `IndexLink` |
| `getElementById` of both ends, in parallel | `ReadCache` or `SelectRow` and `CacheRead`, per end |
| `addLink`, `removeLink`, `materializeLink`, `cache.unset` | `Materialize`, `Unset`, per end |
| whatever is rejected | `Fail`: nothing is undone |
| a read by another caller | `Read`, `Returned` |

`linked_at` holds, for each name of a link, the link whose time it is, or nothing.
`alone`, `settled` and `disturbed` are history: which calls overlapped or failed
with which contracts. Inserts and replacements only (a patch of a link would run
in a transaction); no link of a contract to itself.

**Queries.** `Ask` is a query of the kernel itself, `AskAs` one of an actor, `AskLatest`
the look-up of `slug@latest`; `Asked` and `AskedByActors` are the questions. A schema is
a record of its keywords, `FromSchema` builds its filter as `SqlQuery.fromSchema` does,
`Holds` is what the SQL evaluates to on one row, `Valid` is what JSON Schema says. Paths, constant
folding with its `optionalLinks`, `filterImpliesExists` and the conditionals on types
and on `IS NOT NULL` follow the code. Links are `LEFT JOIN`s: a contract has a row for each
choice, link by link, of a linked contract that passes the filter of the link, or of a
`NULL` for those that do not (`Joined`), a `LinkFilter` asks of a row whether its own alias
is joined (`LinkHolds`), and the contract is selected if one of its rows passes (`Passes`).
SQL text, `format`, full-text search, the selected columns (`select-map.ts`) and the lateral
joins are left out.

| Code | Definitions (`Authorization`) |
|---|---|
| `resolveRoleBasedAuthorizationSchema`, `resolveMarkerBasedAuthorizationSchema` | `RoleBasedSchema`, `MarkerBasedSchema` |
| `resolveAuthorizationSchema` | `AuthorizationSchema`, the scope of the session included |
| `applyAuthorizationSchemaToLinks` | `AuthorizeKeywords`, and `ApplyToLinks` in `SqlAnswers` |
| `evaluateSchemaWithContext` | `EvaluateKeywords`, and `EvaluateWithContext` in `SqlAnswers` |
| `authorizeQuery` | `AuthorizeQuery` |

`jsonSchema.merge` is conjunction. A template (`$eval`) is what it evaluates to for each
actor, known by its slug; those of a query are evaluated after its links are authorized,
as in the code, those of a role when it is read (`roles.ts` 46-51), so that a role is what
they evaluated to. Actors may ask links anywhere, in conditions and in templates too. An
actor comes with its roles, its organisations and the scope of its session.
`VersionOrder` (`SlugVersions`) is the `ORDER BY` behind `slug@latest`; texts of
prereleases and builds are known by their rank in the database's collation (`TextRank`).

## 4. What the runs check

| Run | Instance | Shows |
|---|---|---|
| `slug_edits` | 2 calls, 2 contracts, exchangeable ids, patches that rename | `CacheIdentity`: stale or not, a cached contract names the row with that id and slug |
| `staleness` | 2 calls, 1 contract of 2 types, 2 patches | `PatchOfCurrentRow`: a patch writes the patched form of the row as it is at COMMIT. `ImplementsContractTable`: refinement of the atomic table. `StaleOnlyAfterOverlap`: a call that runs alone, does not fail and keeps the contract's type leaves both keys right. `EventuallyCoherent`: the cache is right in the end, unless the contract keeps being replaced with another type. `LocksReleased` |
| `linked_stream` | 2 roots, 1 of them a leaf of the other and of itself, 1 push, 2 schemas | `SeenIsHeld`: what the stream remembers is what the subscriber holds. `TreeIsTracked`: it loses track of a leaf only by the unmatch of a root that it has seen as a leaf only. `RightAtRest`: at rest the subscriber is right about every root but for the causes that `Freshness` lists |
| `relationships` | 1 relationship, 3 pushes, 3 notifications | `RelationshipsAreRight`: at rest the kernel knows the table, but for those causes and for what arrives between its query and its assignment. `KernelSettles`: once no more notifications are sent, it comes to rest: pushes that find nothing end. `InsertIsNew`: of pushes that find the same contract new, one inserts it |
| `connections` | an old and a new release, 1 stream | `StreamsAreFed`, `ConnectedIsMigrated`, `NeverDowngraded`, `AttemptsEnd` |
| `transactions` | 3 scopes, 2 connections, 1 write each | `AllOrNothing`: an acknowledged write is durable if and only if all scopes around it are resolved and not aborted; a late one shares the fate of the scopes around its own. `PoolIsClean`: with no transaction open, and nothing but late writes unanswered. `UsableIsInnermost`. `CallsEnd`: even when every connection is held by a scope whose callback waits for one |
| `links` | 2 calls of 3, a user, what belongs to it and a link of the two, another contract linked under the same name | `RowsFollowLinks`, `LinksAreMaterialized`, `FirstLinkIsKept`, `DependentsFollowUser`: they hold after calls that run alone, however many calls before them failed half-way or overlapped |
| `queries` | about 400 schemas of data, columns, links and templates on 18 values, 5 actors, all sets of 12 versions | `SelectsTheValid`: the filter selects what validates, and what else it selects is owed to an excluded link that holds for some of what is linked. `LinksSurvive`: constant folding loses no link. `AnswersAreAuthorized`: an actor is told of nothing that it may not read, and of a query whose links the authorization reaches the answer is what it would be if the rest of the table did not exist, with the same exception. `LatestIsNewest`. Before that, the equations that the proofs assume |
| `unmatch_each` | 2 roots, 2 leaves | violated: a root that stops matching together with one that does not gets no `unmatch` |
| `family_unmatch` | 1 root, 2 leaves, inverse stream | violated: a root that still matches by its other leaf is reported as unmatched |
| `relistens` | 1 instance | violated: a lost listening connection is never replaced |
| `required_elided` | nested schemas | violated: a required property that is missing is taken for present |

The violated properties quote the comment or message that promises them;
`PROJECT.json` gives the lines under "findings".

**Bounds.** Two calls suffice for the races of the store and of links: each hazard is
between a call that holds something in flight and another one; exchanged ids
need two contracts, a repeated patch needs two edits; a third call in `links` is one
that comes after two that overlapped or failed (`MaxCalls`). `MaxNotices` bounds the
notifications on the wire, and writers wait for room. `linked_stream` has one push, since
links make its tables large: its properties are about what one push does to the trees
while rows, links and the schema change between its steps. Pushes that race are in
`relationships`, which has three: what it takes for two answers about a
contract to overlap while a third notification is handled. For trees and any number of
pushes there are the proofs. Two releases are what
a downgrade takes. In `transactions` three scopes nest three deep, or two of
them hold both connections while a third waits; one write per scope (`MaxWrites`),
late or not, tells its fate. `queries` asks schemas of one property with one or two keywords,
each of them in each position (`not`, `anyOf`, `allOf`, `if`), since a filter is built
keyword by keyword and keywords meet only in `And`, `Or` and `Implies`; links, of two types,
lead to up to two contracts of which one passes and one does not.
`links` (1 870 000 states), `slug_edits` (1 280 000), `linked_stream` (710 000) and
`transactions` (490 000) are the largest. Symmetry is used in runs without liveness only.
Deadlock is checked, except in `transactions` and `links`, where calls are used up.

**Fairness.** A call that has begun goes on: statements and connections have
timeouts of 30 seconds (`index.ts` 216-219), after which they fail, and failure
is an action too. Redis expires keys. Nobody has to begin a call. In
`Connections`, an instance goes on, and an instance that waits for
the row of the version gets it if it is free time and again, since Postgres
queues the waiters. In `Transactions`, Postgres answers, the pool hands out free
connections and gives up in time, and callbacks end. In `Relationships`, a kernel that
starts goes on, and so does a push. `EventuallyCoherent` asks
that the table stops changing. Other streams, and links, are checked
for safety, at rest or after calls that ended, and need no fairness.

## 5. What is proved

TLAPS proves the following for every value of the constants, from the named
`ASSUME`s of the modules only: types of constants; ids are not slugs; markers differ from data; releases are positive; in `Links`, what
belongs to a user are contracts but not users (`index.ts` 706-850); in `SlugVersions`,
texts have a total order that begins with the empty one; in `Authorization` and
`Filters`, what is listed at the end of each.

* `ContractStore_proofs`. The invariant `IInv` adds to type correctness: rows
  have their own slug and no two share an id (`RowIdentity`); a patch holds
  the lock of the row it read and of the row it wrote (`HoldsLocks`); what it has
  in hand is the patched current row (`PatchOfCurrentRow`, which needs the
  locks); cached and in-flight entries name their row (`CachedIdentity` needs
  `SentIdentity`, for what lands was sent earlier). From it follow
  `TypeCorrectness`, `PatchAtomicity`, `CacheNamesRows` and `Refinement`: every
  step of the store is a step of `ContractTable` or leaves the table alone.
* `ContractStore_proofs`, about `Staleness`. A slug is in doubt from the moment a write of its contract
  overlaps another call, fails, or carries another type than the row. `SInv` adds
  to `IInv` of the store, for a slug that is not in doubt: what any call is about to
  put under its keys is its row, or the row its patch will commit (`SentRight`); a key
  holds nothing, the row, that patch's row, or is still to be written by the
  call that wrote the row (`CachedRight`); once a patch has upserted, its keys
  hold its row or are still to be written (`WrittenRight`, which is what makes the
  cache right at the commit). Since no two calls overlap there, only the call that
  takes a step matters (`StepRight`). `OnlyDoubtIsStale` is `SInv` when nobody is at
  the contract. The change of type is in the definition because the proof failed
  without it: `cards.ts` 465-486 keeps the row's type and `upsertObject` caches the
  caller's.
* `Streams_proofs`. `IInv` is `TypeOK` and `SeenIsHeld`, whose two
  halves go together: `Unsee` removes a root from every root set
  only if the root is in its own. `NoSecondInsert` follows, as an event is an
  insert only if nothing has been seen. That the leaves of what is held lead back to their
  roots is not an invariant if a type is linked to itself: `StreamTracking` proves, step by
  step, that only the unmatch of a root that is seen as a leaf only can break it
  (section 6), and `PlainTracking` that it is one for the leaves of another type.
* `Freshness_proofs`. A root is `Fresh` for a subscriber if a notification about it
  is on the wire, or a push is going to ask about it, or it is `Settled`: a push will tell
  the current answer, or two pushes will tell of it (which puts it in doubt), or the
  subscriber knows the answer and nothing on its way says otherwise. `FInv` says
  that every root that no cause has put in doubt is fresh; it needs that a push holds
  answers for roots it asked about (`AnswersAreAsked`), and that the row of a deletion on the
  wire is gone unless another notification follows (`DeletedAreGone`). At rest nothing is on
  its way, so `RestIsRight`. A root that is also a leaf is in doubt when its own change is
  only taken for that of a leaf (`Overlooked`), and the parents of one that is deleted are
  (`Bereaved`): without the two, the proof fails for a type that is linked to itself.
* `Relationships_proofs`. The same lemmas with the kernel's `relationships` in place of
  the subscriber's view, and with pushes that ask about one root each, since only
  relationships are written here, and there are no leaves (`NoticesOfRoots`, `OneRoot`,
  `SeenAlone`): `RelationshipsStayRight`.
* `Transactions_proofs`. The transaction of a connection is the chain of scopes that
  hold it, outermost first, of which only the innermost is not blocked
  (`SessionIsNested`); a scope that has begun has a level there, unless its `COMMIT` has
  failed (`HoldersAreInside`); at most one queued statement starts or ends a scope, a query
  behind it is late and of the scope that ends, and any other query should be part of
  exactly the transactions that are open, unless they are aborted, when it fails
  (`QueueIsInOrder`); what a scope awaits is in the queue (`AwaitedIsSent`); what is
  around a scope has begun (`EnclosingHasBegun`); an acknowledged write is in the table, at
  the level to which the scopes that have resolved brought it, or undone with a scope
  around it, rolled back or aborted (`WritesArePlaced`). A late query that runs when its scope
  is gone finds the level of the scope around, or none, and `Around` says the same of it.
  `WritesAreAtomic`, `PoolStaysClean` and `InnermostIsUsed` follow.
* `Links_proofs`. The properties speak of contracts that no overlap or failure has
  disturbed. `LInv` says of each call how far it is (`CallsAreWhole`); that calls which
  are alone share no contract (`CallsAreApart`); that a contract being upserted is
  unsettled (`UpsertsUnsettle`); that the copies a call works with are the rows,
  for contracts that are not disturbed (`CopiesAreCurrent`); and that the work done so far,
  row by row of `links2` and name by name of `linked_at`, is done for good
  (`WorkIsDone`, `LinkingIsRight`). Settling then only reads off what
  was done: `RowsAlwaysFollowLinks`, `LinksStayMaterialized`, `DependentsAlwaysFollow`, and
  the action property `FirstLinkStays`.
* `Connections_proofs`. `IInv` adds that the version row is locked by the one
  instance that has read it, and has not changed since (`VersionIsHeld`); that an
  initialized instance stays migrated (`SchemaStays`); that a Streamer has its
  connection until it closes, and streams their Streamer (`StreamerIsWhole`).
  From it: `ConnectedSchema`, `FedStreams`, `NoDowngrade`.

* `Queries_proofs`, about authorization. Assumed are the equations of validity, of
  `AuthorizeLinks` and of `EvaluateTemplates`; that schemas, those that `AuthorizeQuery`
  makes among them, are nested to a finite depth; that the schemas of roles and
  scopes mention no links, and have no templates left to evaluate; that `id` and `markers`
  are never `NULL` (`CARD_FIELDS`); and that a set of links stays one when what the actor
  may not read is left out. Of what actors ask, nothing is assumed but that a template
  evaluates to something for each of them. `AuthorizedMayRead`: the authorization schema is
  valid of exactly the contracts that `MayRead` allows, keyword by keyword, and whatever they
  are linked to, since a schema without links does not depend on links (`PlainIgnoresLinks`).
  So `OnlyReadable`, of any query, since the whole is merged with it. The other theorems
  are about `ReachedSchemas`, those whose conditions and templates have no links: there
  `applyAuthorizationSchemaToLinks` reaches every link (section 6 says what it does not
  reach). Evaluating a schema evaluates it keyword by keyword and a merge part by part
  (`EvaluatedKeywords`, `EvaluatedMerge`). `AuthorizedLinks`: by the depth of nesting
  (`LeastNumber` takes the least counterexample, and `AuthorizedStep`
  rules it out), the query with its links authorized and then evaluated says of the whole
  table what the evaluated query says of the readable part, under `not` as well. With both,
  `AuthorizedQuery`, of which `UnreadableIsNotTold` is the reading as secrecy: of validity,
  not of SQL. What is asked is what the constants allow (`QueryInvariance`), so answers that
  agree with validity as `SelectsTheValid` says are authorized as `AnswersAreAuthorized` says
  (`AuthorizedAnswers`): where an excluded link holds for some of what is linked, only
  the authorization, which excludes no link, is sure to be met.
* `Queries_proofs`, about filters. Assumed are the equations of the truth and of the links of a
  filter, and the shapes of expressions, constants and negations. AND and OR of three truth
  values are those of their parts (`Joins`); folding a constant either leaves the other
  operand or decides the whole (`FoldTruth`), and an operand that is inlined counts as if it were
  nested (`InlineTruth`): `CombiningKeepsTruth`. The same for links,
  `CombiningKeepsLinks`. For negation, `NegatingKeepsUnknown`; with both, `ImplicationTruth`.
  The theorems are about filters in `QueryFilters`, any set closed under taking the filters
  within one, as long as it has the filters in question and what they are made of.
* `Queries_proofs`, about keywords, on top of it: what the conditions on types and on
  `IS NOT NULL` make of any filter, also under a negation, where unknown is not false.
  `OptionalProperty`, `RequiredProperty`, `TypesAreChecked`, `OtherTypesPass`, and
  with them `LimitsSelectTheValid`: for the limits, SQL agrees with the reference. Their
  hypotheses are where the code is right, and the exceptions are known:
  `RequiredProperty` needs that the filter of a property implies that it exists wherever the
  code takes that for granted (`required_elided` violates it); `OtherTypesPass` needs "number"
  to be allowed by name (section 6). The filters of the run include cases of each.
* `Queries_proofs`, about versions. `Precedes` is a strict total order, column by column
  (`PrecedesOrders`), so that in a finite set the version that the fewest precede is
  first (`FirstExists`, from the well-foundedness of strict inclusion): `LatestIsDetermined`. Releases have
  the least rank of text, so `LatestIsNewestRelease`, and since only `Answer` answers,
  `LatestAlwaysNewest`.

Every invariant above was an invariant of a TLC run before it was proved.

Only model-checked:

* liveness (`EventuallyCoherent`, `LocksReleased`, `AttemptsEnd`, `CallsEnd`,
  `KernelSettles`), which is out of the prover's reach;
* `SelectsTheValid` and `LinksSurvive`. `FromSchema` is recursive over schemas and paths, and
  is right only of some schemas (section 6, and `required_elided`), so
  it is checked on schemas that combine the keywords. `AuthorizedAnswers` rests on the
  first, of which the steps on the way from a keyword to its filter are proved; of the
  second, the step that could lose links, constant folding, is proved.

## 6. What is not modelled

Views, built-in contracts, types, the CLI, the SQL text, logging and metrics keep no
state. `reset` and `flush` are used by tests and tools. `getElementsById` reads
and caches as many single reads do. What a query selects of a contract
(`select-map.ts` and `getSelectObjectFromSchema`) is left out: it is a projection
whose intended result the comments and tests do not agree on. The hazards without
a property, with the reason, are listed in `PROJECT.json`.

### Known limits

Disagreements that the models have, and the properties excuse by name:

* A link that is excluded is a condition on one joined row. `LinkFilter` is described as a
  "Filter asserting that there exists a linked card through a link type that passes a
  filter" (`link-filter.ts` 5-6), but the cards are `LEFT JOIN`ed `ON` the filter
  (`sql-query.ts` 170-202) and the `WHERE` (1277-1281) tests `id IS NOT NULL` row by row: under
  `not`, and in an `if`, a contract with one linked contract that passes and one
  that does not has a row with `NULL` and is selected. For an actor, the contract that
  passes may be the only one that it may read, so that the other one is told of. `Split` in
  `Queries` names these questions; `SelectsTheValid` and `AnswersAreAuthorized` excuse
  nothing else, and are violated without it.
* Links under `if`, `then` and `else`, and links in what a template evaluates to, are not
  merged with the authorization schema (`authorization/utils.ts` 40-53, `index.ts` 77-85),
  although the comment (`utils.ts` 6-7) is "ensuring that authorization can't be escaped by
  using a relational query". What such a query selects is readable (`OnlyReadable`), but may
  depend on linked contracts that are not. `ReachedSchemas` are the other queries.
* Types that are linked to themselves. A root that the stream has seen as a leaf only is not
  queried when it changes itself (`streams.ts` 438-463), and is reported as an `update` when it
  first matches; if it is reported as unmatched, its whole root set is dropped
  (`streams.ts` 614-618) although the comment at 602-605 spares contracts that "may also
  appear as a linked contract", and the roots that hold it miss its later changes; the roots
  that a deleted contract was a leaf of are not queried (`streams.ts` 450). `TreeIsTracked`
  and `RightAtRest` excuse these (`UnmatchedLeaf`, `Overlooked`, `Bereaved`).
* A branch that outlives its callback writes outside of its transaction (`context.ts`
  121-130, 263-273), although the `finally` says that "the child context cannot be used for
  queries anymore if it escapes the callback's scope": it can until the `COMMIT` or
  `ROLLBACK` is answered. `AllOrNothing` and `PoolIsClean` say what becomes of such a write.
* A callback that catches the error of a query of its own resolves, its `COMMIT` is
  answered with `ROLLBACK`, and `withTransaction` returns as if it had committed
  (`context.ts` 241-251).

Observations made while modelling, kept out of the checked schemas and instances:

* `null` may be cached for a contract that exists, when the marker of a
  read that found nothing lands after an insert (`index.ts` 1030); it expires.
* `unmatch` is sent for contracts that never matched (`streams.ts` 539-571);
  the kernel's own handler relies on it.
* A patch of `/slug` or `/version` upserts whatever row has that key (`kernel.ts`
  1183, `cards.ts` 465-486): it can overwrite a contract that it neither names nor
  locks. `slug_edits` has such patches.
* The handler of an inverse stream asks for one root (`limit: 1`): of several roots
  that a new leaf makes match, one is told of. The contract that it sends carries only
  that leaf, and it always uses the first link type of the query.
* Deactivating a user reaches only the credentials that are still in its data
  (`index.ts` 771); `linked_at` never loses a name when links are removed.
* `type: integer` together with numeric bounds ignores the bounds, for they are
  compared with the type "number" by name.
* `const` and `enum` of strings are compared as text, and are unknown on a JSON
  null; `contains: {const: null, type: 'null'}` never matches.
* `not` and `items` above a `required` whose existence check was left out behave as in
  `required_elided`; an unsatisfiable schema of a required property that implies
  its existence is handled as if it were not required (`sql-query.ts` 1015-1020).
* The filter of a link that has links itself is hoisted to the `WHERE` of the query
  (`builder-context.ts` 135-137), and constant folding does not find links inside `if`
  (`if-then-else-filter.ts`); links of links are not modelled.
* Linked contracts sorted by version put prereleases first (`sql-query.ts` 231-238).
* A type of link that a schema mentions several times returns the linked contracts of
  its first mention only (`sql-query.ts` 343-346).
