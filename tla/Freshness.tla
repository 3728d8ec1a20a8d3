------------------------------ MODULE Freshness ------------------------------
(***************************************************************************)
(* When does a subscriber end up with what a query would have told it?     *)
(* Streams with a history variable, the roots for which it should.         *)
(***************************************************************************)
EXTENDS Streams

VARIABLE trusted

Answer(r) == QueryResult(schema, {r})[r]

\* Push q will tell the subscriber of r from a query that has been made.
InHand(q, r) ==
  /\ r \in rootIds[q]
  /\ IF Unmatching(q) THEN TRUE ELSE stage[q] \in {"answered", "fetched"} /\ contracts[q][r] # None

Right == {r \in Roots : view[r] = Answer(r) /\ \A q \in Pushes : ~InHand(q, r)}

\* A root is trusted once the subscriber is right about it, and until one of the
\* events below makes it doubtful.
Doubt(D) == trusted' = (trusted \cup Right') \ D

\* The stream tells of a root, or ignores its deletion, while another push is about
\* to tell of it from a query of its own: the two may be in the wrong order.
Overtaken(ids) == {r \in ids : \E q \in Pushes : InHand(q, r)'}

\* links2 changes when the push for the link has already queried.
TooLate(r) ==
  IF \/ \E i \in DOMAIN wire : wire[i].link /\ wire[i].id = r
     \/ \E p \in Pushes : stage[p] = "waiting" /\ r \in rootIds[p]
  THEN {} ELSE {r}

Parents(l) == {r \in Roots : <<r, l>> \in links \cup linked}

\* The contract that the next notification names.
Named == {Head(wire).id}

\* Its change concerns roots of which the stream does not know that they are linked to
\* it: an inverse stream (kernel.ts:1372-1425) has to tell of them.
Unknown == UNION {Parents(l) \ seen[l] : l \in Named \cap Leaves}

\* It is a root that the stream has seen as a leaf only: the push queries the roots
\* that it is a leaf of, and not the contract itself (streams.ts:438-463).
Overlooked == {r \in Named \cap Roots : r \notin seen[r]}

\* It is deleted, and not only a root: the roots that it is a leaf of are not queried.
Bereaved == (UNION {Parents(l) : l \in Named \cap Leaves}) \ Named

FreshInit == Init /\ trusted = Right

FreshNext ==
  \/ \E c \in Contracts, v \in Maybe(Values) : Write(c, v) /\ Doubt({})
  \/ \E r \in Roots, l \in Leaves : \/ WriteLink(r, l) /\ Doubt({})
                                    \/ LinkLands(r, l) /\ Doubt(TooLate(r))
  \/ PushDelete /\ Doubt(Overtaken(Named) \cup Bereaved)
  \/ PushNothing /\ Doubt(Overtaken(Named \cap Roots) \cup Unknown)
  \/ \E p \in Pushes :
       \/ PushLink(p) /\ Doubt({})
       \/ PushSeen(p) /\ Doubt(Unknown \cup Overlooked)
       \/ PushUnseen(p) /\ Doubt(Unknown \ Named)
       \/ (Query(p) \/ Retry(p)) /\ Doubt({})
       \/ Deliver(p) /\ Doubt({r \in rootIds[p] : contracts[p][r] = None} \cup Overtaken(rootIds[p]))
       \/ \E r \in Roots : Unmatch(p, r) /\ Doubt(Overtaken({r}))
       \/ Fail(p) /\ Doubt(rootIds[p])
       \/ Dataset(p) /\ Doubt({})
       \/ \E s \in Schemas : Fetch(p, s) /\ Doubt(IF s = schema THEN {} ELSE Roots)
  \/ \E s \in Schemas : SetSchema(s) /\ Doubt(Roots)

FreshSpec == FreshInit /\ [][FreshNext]_<<vars, trusted>>

\* Once right about a root, the subscriber is right about it whenever the stream is
\* at rest, however writes, notifications and answers have interleaved, unless two
\* answers about the root overlapped, links2 was updated after the query, a query
\* failed, a root stopped matching together with one that still does, the change
\* was of a leaf that the stream had not seen or, where roots are leaves of others, of
\* a root seen as a leaf only or deleted, or the schema was changed.
RightAtRest == AtRest => \A r \in trusted : view[r] = Answer(r)
=============================================================================
