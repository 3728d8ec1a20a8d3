------------------------------- MODULE Streams -------------------------------
(***************************************************************************)
(* One stream of changes (streams.ts): the trigger of the cards table      *)
(* notifies the listening connection, every notification starts a push,    *)
(* and a push queries the contracts that may have changed and tells the    *)
(* subscriber.  Pushes run concurrently: an action is what happens between *)
(* two awaits, and answers arrive in any order.                            *)
(*                                                                         *)
(* A stream is of contracts of one type, the roots, that satisfy a schema; *)
(* the schema may ask that they be linked to contracts of a type, the      *)
(* leaves, that satisfy it too.  The two types may be the same: a contract *)
(* is then a root in its own right and a leaf of others.                   *)
(***************************************************************************)
EXTENDS Naturals, Sequences

CONSTANTS
  Roots,           \* contracts of the type of the stream's schema
  Leaves,          \* contracts of the type that its $$links ask for
  Values,          \* what a row may contain
  Schemas,         \* the sets of values that a schema may accept
  TraversesLinks,  \* whether the schema has $$links
  Pushes,          \* pushes and queries in progress at once
  MaxNotices,      \* bound on the notifications on their way
  None             \* no row, no match, nothing known

Contracts == Roots \cup Leaves

ASSUME StreamAssumption ==
  /\ None \notin Values
  /\ \A s \in Schemas : s \subseteq Values
  /\ TraversesLinks \in BOOLEAN
  /\ MaxNotices \in Nat

VARIABLES
  rows,       \* the cards table
  links,      \* the links2 table
  linked,     \* the active link contracts; links2 follows in a later statement
  wire,       \* notifications sent and not received, in order of commit
  schema,     \* Stream.schema
  seen,       \* Stream.seenContractIds: the roots whose tree a contract is in
  stage,      \* how far a push has got
  rootIds,    \* the contracts that it queries, or has to report as unmatched
  payload,    \* the notification that it handles
  retries,    \* how often it may still query again
  contracts,  \* the result of its query
  events,     \* what the last step sent to the subscriber
  view        \* what the subscriber knows from the events

db == <<rows, links, linked>>
push == <<stage, rootIds, payload, retries, contracts>>
client == <<events, view>>
vars == <<db, wire, schema, seen, push, client>>

Payload == [id: Contracts, type: {"insert", "update", "delete"}, link: BOOLEAN]

Contract == [value: Values, leaves: [Leaves -> Values \cup {None}]]

Maybe(S) == S \cup {None}

Event == [id: Contracts, after: Maybe(Contract),
          type: {"insert", "update", "delete", "unmatch", "dataset"}]

\* idle; waiting for the delay and the query; answered by it; unmatching the
\* rest of rootIds; fetched, the answer to a query of the subscriber.
Stages == {"idle", "waiting", "answered", "unmatching", "fetched"}

TypeOK ==
  /\ rows \in [Contracts -> Maybe(Values)]
  /\ links \subseteq Roots \X Leaves
  /\ linked \subseteq Roots \X Leaves
  /\ wire \in Seq(Payload) /\ Len(wire) <= MaxNotices
  /\ schema \in Schemas
  /\ seen \in [Contracts -> SUBSET Roots]
  /\ stage \in [Pushes -> Stages]
  /\ rootIds \in [Pushes -> SUBSET Roots]
  /\ payload \in [Pushes -> Maybe(Payload)]
  /\ retries \in [Pushes -> 0..1]
  /\ contracts \in [Pushes -> [Roots -> Maybe(Contract)]]
  /\ events \subseteq Event
  /\ view \in [Roots -> Maybe(Contract)]

NoContracts == [r \in Roots |-> None]

\* The subscriber comes to a database in any state, with nothing known.
Init ==
  /\ rows \in [Contracts -> Maybe(Values)]
  /\ links \in SUBSET (Roots \X Leaves)
  /\ linked = links
  /\ wire = <<>>
  /\ schema \in Schemas
  /\ seen = [c \in Contracts |-> {}]
  /\ stage = [p \in Pushes |-> "idle"]
  /\ rootIds = [p \in Pushes |-> {}]
  /\ payload = [p \in Pushes |-> None]
  /\ retries = [p \in Pushes |-> 0]
  /\ contracts = [p \in Pushes |-> NoContracts]
  /\ events = {}
  /\ view = NoContracts

-----------------------------------------------------------------------------
(* The database.                                                           *)

\* The row of leaf l, if a query by schema s joins root r to it.
Leaf(s, r, l) ==
  IF TraversesLinks /\ <<r, l>> \in links /\ rows[l] \in s THEN rows[l] ELSE None

Matches(s, r) ==
  /\ rows[r] \in s
  /\ TraversesLinks => \E l \in Leaves : Leaf(s, r, l) # None

\* What a query by schema s with these ids returns.
QueryResult(s, ids) ==
  [r \in Roots |->
     IF r \in ids /\ Matches(s, r)
     THEN [value |-> rows[r], leaves |-> [l \in Leaves |-> Leaf(s, r, l)]]
     ELSE None]

Quiet == events' = {} /\ UNCHANGED view

Notify(id, type, link) ==
  /\ Len(wire) < MaxNotices
  /\ wire' = Append(wire, [id |-> id, type |-> type, link |-> link])
  /\ Quiet
  /\ UNCHANGED <<schema, seen, push>>

\* A contract is inserted, updated or deleted.
Write(c, v) ==
  /\ rows[c] # None \/ v # None
  /\ rows' = [rows EXCEPT ![c] = v]
  /\ Notify(c, IF v = None THEN "delete" ELSE IF rows[c] = None THEN "insert" ELSE "update", FALSE)
  /\ UNCHANGED <<links, linked>>

\* A link contract becomes active or inactive.  The next write of the link waits
\* for this one to reach links2.
WriteLink(r, l) ==
  /\ <<r, l>> \in linked <=> <<r, l>> \in links
  /\ linked' = (linked \ {<<r, l>>}) \cup ({<<r, l>>} \ linked)
  /\ Notify(r, IF <<r, l>> \in linked THEN "update" ELSE "insert", TRUE)
  /\ UNCHANGED <<rows, links>>

\* The statement on links2 that follows the one on the link contract.
LinkLands(r, l) ==
  /\ ~(<<r, l>> \in linked <=> <<r, l>> \in links)
  /\ links' = (links \ {<<r, l>>}) \cup ({<<r, l>>} \cap linked)
  /\ Quiet
  /\ UNCHANGED <<rows, linked, wire, schema, seen, push>>

-----------------------------------------------------------------------------
(* What the stream has sent.                                               *)

\* seeContractTree of every contract of an answer.
SeeTrees(ans) ==
  [c \in Contracts |->
     seen[c] \cup {r \in Roots : ans[r] # None /\ (c = r \/ (c \in Leaves /\ ans[r].leaves[c] # None))}]

\* Variant: the root set of the contract itself is all that goes.
UnseeItself(c) == [seen EXCEPT ![c] = {}]

\* Variant: its own root set goes, although it may be a leaf of others.
UnseeBlindly(c) == [x \in Contracts |-> IF x = c THEN {} ELSE seen[x] \ {c}]

\* unseeContractId: a root leaves every root set, any other contract loses its own.
Unsee(c) ==
  IF c \in seen[c] THEN [x \in Contracts |-> seen[x] \ {c}] ELSE [seen EXCEPT ![c] = {}]

\* The events of a step, and what the subscriber makes of them.
Emit(es) ==
  /\ events' = es
  /\ view' = [r \in Roots |-> IF \E e \in es : e.id = r
                              THEN (CHOOSE e \in es : e.id = r).after ELSE view[r]]

EmitOne(id, type) == Emit({[id |-> id, type |-> type, after |-> None]})

Finish(p) ==
  /\ stage' = [stage EXCEPT ![p] = "idle"]
  /\ rootIds' = [rootIds EXCEPT ![p] = {}]
  /\ payload' = [payload EXCEPT ![p] = None]
  /\ retries' = [retries EXCEPT ![p] = 0]
  /\ contracts' = [contracts EXCEPT ![p] = NoContracts]

-----------------------------------------------------------------------------
(* push, as far as its first await.                                        *)

Received(n) == wire # <<>> /\ n = Head(wire) /\ wire' = Tail(wire)

Start(p, n, ids) ==
  /\ stage[p] = "idle"
  /\ stage' = [stage EXCEPT ![p] = "waiting"]
  /\ rootIds' = [rootIds EXCEPT ![p] = ids]
  /\ payload' = [payload EXCEPT ![p] = n]
  /\ retries' = [retries EXCEPT ![p] = 1]
  /\ UNCHANGED <<db, schema, seen, contracts>>
  /\ Quiet

\* A link from a root; a contract in the tree of some root; a contract not seen
\* yet, of the type of the schema (filterContractUpdated).
PushLink(p) ==
  \E n \in Payload : Received(n) /\ n.link /\ TraversesLinks /\ Start(p, n, {n.id} \cap Roots)

RootDeleted(n) == n.type = "delete" /\ n.id \in seen[n.id]

\* Variant: the contract is queried, not the roots that it is linked from.
PushSeenItself(p) ==
  \E n \in Payload : /\ Received(n) /\ ~n.link
                     /\ seen[n.id] # {} /\ ~RootDeleted(n)
                     /\ Start(p, n, seen[n.id] \cap {n.id})

PushSeen(p) ==
  \E n \in Payload : /\ Received(n) /\ ~n.link
                     /\ seen[n.id] # {} /\ ~RootDeleted(n)
                     /\ Start(p, n, seen[n.id])

PushUnseen(p) ==
  \E n \in Payload : /\ Received(n) /\ ~n.link
                     /\ seen[n.id] = {} /\ n.type # "delete" /\ n.id \in Roots
                     /\ Start(p, n, {n.id})

PushDelete ==
  \E n \in Payload : /\ Received(n) /\ ~n.link
                     /\ RootDeleted(n)
                     /\ seen' = Unsee(n.id)
                     /\ EmitOne(n.id, "delete")
                     /\ UNCHANGED <<db, schema, push>>

\* Variant: a deletion concerns nobody, seen or not.
PushNothingOfDelete ==
  \E n \in Payload : /\ Received(n)
                     /\ IF n.link THEN ~TraversesLinks
                        ELSE n.type = "delete" \/ (seen[n.id] = {} /\ n.id \notin Roots)
                     /\ Quiet
                     /\ UNCHANGED <<db, schema, seen, push>>

PushNothing ==
  \E n \in Payload : /\ Received(n)
                     /\ IF n.link THEN ~TraversesLinks
                        ELSE seen[n.id] = {} /\ (n.type = "delete" \/ n.id \notin Roots)
                     /\ Quiet
                     /\ UNCHANGED <<db, schema, seen, push>>

-----------------------------------------------------------------------------
(* contractsUpdated.                                                       *)

\* The query runs, 50 ms after the notification or later.
Query(p) ==
  /\ stage[p] = "waiting"
  /\ stage' = [stage EXCEPT ![p] = "answered"]
  /\ contracts' = [contracts EXCEPT ![p] = QueryResult(schema, rootIds[p])]
  /\ Quiet
  /\ UNCHANGED <<db, wire, schema, seen, rootIds, payload, retries>>

\* Variant: what has been seen does not count.
EventTypeOfNotice(p, r) ==
  IF ~payload[p].link /\ payload[p].type = "update" THEN "update" ELSE "insert"

EventType(p, r) ==
  IF seen[r] # {} \/ (~payload[p].link /\ payload[p].type = "update") THEN "update" ELSE "insert"

DataEvents(p) ==
  {[id |-> r, type |-> EventType(p, r), after |-> contracts[p][r]] :
     r \in {x \in Roots : contracts[p][x] # None}}

Deliver(p) ==
  /\ stage[p] = "answered"
  /\ contracts[p] # NoContracts
  /\ Emit(DataEvents(p))
  /\ seen' = SeeTrees(contracts[p])
  /\ Finish(p)
  /\ UNCHANGED <<db, wire, schema>>

\* Variant: the retries are counted and never checked.
RetryAlways(p) ==
  /\ stage[p] = "answered"
  /\ contracts[p] = NoContracts
  /\ stage' = [stage EXCEPT ![p] = "waiting"]
  /\ retries' = [retries EXCEPT ![p] = @ - 1]
  /\ Quiet
  /\ UNCHANGED <<db, wire, schema, seen, rootIds, payload, contracts>>

\* Variant: the query is made again as it was, with the retries that it had.
RetryUncounted(p) ==
  /\ stage[p] = "answered"
  /\ contracts[p] = NoContracts
  /\ retries[p] > 0
  /\ stage' = [stage EXCEPT ![p] = "waiting"]
  /\ Quiet
  /\ UNCHANGED <<db, wire, schema, seen, rootIds, payload, retries, contracts>>

Retry(p) ==
  /\ stage[p] = "answered"
  /\ contracts[p] = NoContracts
  /\ retries[p] > 0
  /\ stage' = [stage EXCEPT ![p] = "waiting"]
  /\ retries' = [retries EXCEPT ![p] = @ - 1]
  /\ Quiet
  /\ UNCHANGED <<db, wire, schema, seen, rootIds, payload, contracts>>

\* getContractType has to ask the database.
TypeIsUnknown(p, r) == ~payload[p].link /\ payload[p].id # r

Unmatching(p) ==
  \/ stage[p] = "unmatching"
  \/ stage[p] = "answered" /\ contracts[p] = NoContracts /\ retries[p] = 0

\* emitUnmatchFor, one contract at a time.
Unmatch(p, r) ==
  /\ Unmatching(p)
  /\ r \in rootIds[p]
  /\ TypeIsUnknown(p, r) => rows[r] # None
  /\ seen' = Unsee(r)
  /\ EmitOne(r, "unmatch")
  /\ IF rootIds[p] = {r}
     THEN Finish(p)
     ELSE /\ stage' = [stage EXCEPT ![p] = "unmatching"]
          /\ rootIds' = [rootIds EXCEPT ![p] = @ \ {r}]
          /\ UNCHANGED <<payload, retries, contracts>>
  /\ UNCHANGED <<db, wire, schema>>

\* A query fails, or finds no row to take the type from: the error is emitted and
\* the push ends.
Fail(p) ==
  /\ \/ stage[p] = "waiting"
     \/ Unmatching(p) /\ \E r \in rootIds[p] : TypeIsUnknown(p, r)
  /\ Finish(p)
  /\ Quiet
  /\ UNCHANGED <<db, wire, schema, seen>>

-----------------------------------------------------------------------------
(* The subscriber's own requests.                                          *)

\* The 'query' event, with a schema of its own; QueryResult is the SELECT.
Fetch(p, s) ==
  /\ stage[p] = "idle"
  /\ stage' = [stage EXCEPT ![p] = "fetched"]
  /\ rootIds' = [rootIds EXCEPT ![p] = Roots]
  /\ contracts' = [contracts EXCEPT ![p] = QueryResult(s, Roots)]
  /\ Quiet
  /\ UNCHANGED <<db, wire, schema, seen, payload, retries>>

DatasetEvents(p) ==
  {[id |-> r, type |-> "dataset", after |-> contracts[p][r]] :
     r \in {x \in Roots : contracts[p][x] # None}}

Dataset(p) ==
  /\ stage[p] = "fetched"
  /\ Emit(DatasetEvents(p))
  /\ seen' = SeeTrees(contracts[p])
  /\ Finish(p)
  /\ UNCHANGED <<db, wire, schema>>

\* The 'setSchema' event.  What has been seen stays seen.
SetSchema(s) ==
  /\ s # schema
  /\ schema' = s
  /\ Quiet
  /\ UNCHANGED <<db, wire, seen, push>>

-----------------------------------------------------------------------------
Database ==
  \/ \E c \in Contracts, v \in Maybe(Values) : Write(c, v)
  \/ \E r \in Roots, l \in Leaves : WriteLink(r, l) \/ LinkLands(r, l)

Push(p) ==
  \/ PushLink(p) \/ PushSeen(p) \/ PushUnseen(p)
  \/ Query(p) \/ Deliver(p) \/ Retry(p) \/ Fail(p)
  \/ \E r \in Roots : Unmatch(p, r)

Next ==
  \/ Database
  \/ PushDelete \/ PushNothing
  \/ \E p \in Pushes : Push(p) \/ Dataset(p) \/ \E s \in Schemas : Fetch(p, s)
  \/ \E s \in Schemas : SetSchema(s)

Spec == Init /\ [][Next]_vars

-----------------------------------------------------------------------------
(* Properties.                                                             *)

\* The stream remembers exactly the contracts that its subscriber holds, in spite
\* of pushes that answer late and in any order: the events that made the
\* subscriber add a contract entered it in seenContractIds, and the ones that made
\* it drop the contract removed it from every root set, its own and its leaves'
\* (seeContractTree, unseeContractId).
SeenIsHeld ==
  /\ \A r \in Roots : view[r] # None => r \in seen[r]
  /\ \A c \in Contracts : \A r \in seen[c] : view[r] # None

\* A change of leaf l concerns root r, which the subscriber holds with l in its tree.
Holds(r, l) == view[r] # None /\ view[r].leaves[l] # None

Tracks(r, l) == Holds(r, l) => r \in seen[l]

\* A contract that the stream has seen as a leaf only turns out not to match either.
UnmatchedLeaf(l) ==
  l \in Roots /\ l \notin seen[l] /\ \E e \in events' : e.type = "unmatch" /\ e.id = l

\* Whatever the subscriber holds of the trees, the root is in the root set of the leaf,
\* so that push queries it when the leaf changes: the stream loses track of a leaf in
\* one case only, the unmatch of a leaf that could have been a root itself and that
\* the subscriber does not hold as one (unseeContractId drops its whole root set).
TreeIsTracked ==
  [][\A r \in Roots, l \in Leaves : Tracks(r, l) => Tracks(r, l)' \/ UnmatchedLeaf(l)]_vars

\* A contract is inserted once: no 'insert' for a contract that the subscriber
\* holds, whatever number of pushes found it new (contractsUpdated).
InsertIsNew ==
  [][\A e \in events' : e.type = "insert" => view[e.id] = None]_vars

AtRest == wire = <<>> /\ \A p \in Pushes : stage[p] = "idle"

\* streams.ts:460-462: "Root contracts were upserted, including expanded links. We
\* will emit an insert event, an update event or an unmatch event".  When the stream
\* comes to rest, of the roots that it has just queried the subscriber holds those
\* that matched only.
UnmatchesEachRoot ==
  [][\A p \in Pushes : stage[p] = "answered" /\ AtRest' =>
       \A r \in rootIds[p] : contracts[p][r] = None => view'[r] = None]_vars
=============================================================================
