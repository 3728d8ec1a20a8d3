---------------------------- MODULE Relationships ----------------------------
(***************************************************************************)
(* The relationships that the kernel knows (kernel.ts): it opens a stream  *)
(* of relationship contracts, queries them, and from then on relies on the *)
(* stream.  Links are checked against them (preUpsert), and inverse        *)
(* streams are opened by them.  Rows are deactivated rather than deleted,  *)
(* and the kernel neither queries through its stream nor changes its       *)
(* schema.                                                                 *)
(***************************************************************************)
EXTENDS Freshness

\* The schema of its stream has no links (kernel.ts:93-104).
ASSUME RelationshipsAssumption == Leaves = {}

VARIABLES
  relationships,  \* Kernel.relationships
  loading,        \* how far initialize has got after it opened the stream
  loaded,         \* the answer to its query
  heard           \* the relationships that the stream has told of since that answer

kernel == <<relationships, loading, loaded, heard>>

KernelTypeOK ==
  /\ relationships \in [Roots -> Maybe(Contract)]
  /\ loading \in {"querying", "answered", "loaded"}
  /\ loaded \in [Roots -> Maybe(Contract)]
  /\ heard \subseteq Roots

KernelInit ==
  /\ Init /\ trusted = {}
  /\ relationships = NoContracts
  /\ loading = "querying"
  /\ loaded = NoContracts
  /\ heard = {}

-----------------------------------------------------------------------------
\* removeRelationship and upsertRelationship, by id.
RemoveRelationship(id) == [relationships EXCEPT ![id] = None]
UpsertRelationship(id, contract) == [relationships EXCEPT ![id] = contract]

\* Variant: a relationship is removed when its row is deleted.
IgnoreUnmatch(e) ==
  CASE e.type \in {"insert", "update"} -> UpsertRelationship(e.id, e.after)
    [] e.type = "delete" -> RemoveRelationship(e.id)
    [] OTHER -> relationships

\* Variant: the change is kept instead of the contract in it.
KeepChange(e) ==
  CASE e.type \in {"insert", "update", "unmatch"} /\ e.after # None -> UpsertRelationship(e.id, e)
    [] OTHER -> RemoveRelationship(e.id)

\* The 'data' handler: a contract that is no longer available is removed.
OnData(e) ==
  CASE e.type \in {"insert", "update", "unmatch"} /\ e.after # None -> UpsertRelationship(e.id, e.after)
    [] e.type \in {"insert", "update", "unmatch"} /\ e.after = None -> RemoveRelationship(e.id)
    [] e.type = "delete" -> RemoveRelationship(e.id)
    [] OTHER -> relationships

\* The query of initialize, once the stream is open.
QueryRelationships ==
  /\ loading = "querying"
  /\ loading' = "answered"
  /\ loaded' = QueryResult(schema, Roots)
  /\ UNCHANGED <<vars, relationships, heard>>

\* setRelationships.
SetRelationships ==
  /\ loading = "answered"
  /\ loading' = "loaded"
  /\ relationships' = loaded
  /\ loaded' = NoContracts
  /\ heard' = {}
  /\ UNCHANGED vars

\* What the stream does, and what the handler makes of it.
Hear(D) ==
  /\ relationships' = IF events' = {} THEN relationships ELSE OnData(CHOOSE e \in events' : TRUE)
  /\ heard' = heard \cup IF loading = "answered" THEN {e.id : e \in events'} ELSE {}
  /\ UNCHANGED <<loading, loaded>>

-----------------------------------------------------------------------------
(* As in Freshness, of the relationships instead of the subscriber's view. *)

Known == {r \in Roots : /\ loading = "loaded" /\ relationships[r] = Answer(r)
                        /\ \A q \in Pushes : ~InHand(q, r)}

DoubtKnown(D) == trusted' = (trusted \cup Known') \ D

HearAndDoubt(D) == Hear(D) /\ DoubtKnown(D)

PushStep(p) ==
  \/ (PushSeen(p) \/ PushUnseen(p) \/ Query(p) \/ Retry(p)) /\ HearAndDoubt({})
  \/ Deliver(p) /\ HearAndDoubt(Overtaken(rootIds[p]))
  \/ \E r \in Roots : Unmatch(p, r) /\ HearAndDoubt(Overtaken({r}))
  \/ Fail(p) /\ HearAndDoubt(rootIds[p])

Load ==
  \/ QueryRelationships /\ DoubtKnown({})
  \/ SetRelationships /\ DoubtKnown(heard)

KernelNext ==
  \/ Load
  \/ \E r \in Roots, v \in Values : Write(r, v) /\ HearAndDoubt({})
  \/ \E p \in Pushes : PushStep(p)

kernelVars == <<vars, trusted, kernel>>

\* Notifications are handled, queries are answered or fail (statement_timeout).
KernelFairness == WF_kernelVars(Load) /\ \A p \in Pushes : WF_kernelVars(PushStep(p))

KernelSpec == KernelInit /\ [][KernelNext]_kernelVars /\ KernelFairness

\* Once no more notifications are sent, the stream comes to rest and the kernel has
\* loaded: pushes that find nothing do not query again for ever (streams.ts:513).
KernelSettles ==
  <>[][Len(wire') < Len(wire)]_wire => <>[](AtRest /\ loading = "loaded")

\* The kernel knows the relationships that a query would find whenever their stream
\* is at rest, although it has never told the stream which ones it has loaded.  The
\* exceptions are those of RightAtRest, and relationships that the stream has told
\* of between the query of initialize and setRelationships (kernel.ts:500).
RelationshipsAreRight ==
  AtRest /\ loading = "loaded" => \A r \in Roots \cap trusted : relationships[r] = Answer(r)
=============================================================================
