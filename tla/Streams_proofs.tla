---------------------------- MODULE Streams_proofs ----------------------------
(***************************************************************************)
(* What a stream remembers is what its subscriber holds, for any number of *)
(* contracts, links, schemas and concurrent pushes, whether or not the     *)
(* contracts are linked to others of their own type.                       *)
(***************************************************************************)
EXTENDS Streams, TLAPS

IInv == TypeOK /\ SeenIsHeld

\* The stream keeps track of every leaf of every tree that the subscriber holds, except
\* the leaves in E.
StaysTracked(E) == \A r \in Roots, l \in Leaves \ E : Tracks(r, l) => Tracks(r, l)'

-----------------------------------------------------------------------------
\* What the helpers return.

LEMMA QueryResultType ==
  ASSUME TypeOK, NEW s \in Schemas, NEW ids
  PROVE  QueryResult(s, ids) \in [Roots -> Maybe(Contract)]
<1>1. ASSUME NEW r \in Roots, NEW l \in Leaves PROVE Leaf(s, r, l) \in Maybe(Values)
  BY StreamAssumption DEF Leaf, Maybe
<1>2. ASSUME NEW r \in Roots, Matches(s, r) PROVE rows[r] \in Values
  BY <1>2, StreamAssumption DEF Matches
<1>3. QED
  BY <1>1, <1>2 DEF QueryResult, Contract, Maybe

LEMMA UnseeType ==
  ASSUME TypeOK, NEW c \in Contracts
  PROVE  Unsee(c) \in [Contracts -> SUBSET Roots]
  BY DEF Unsee, TypeOK

LEMMA SeeTreesType ==
  ASSUME TypeOK, NEW ans
  PROVE  SeeTrees(ans) \in [Contracts -> SUBSET Roots]
  BY DEF SeeTrees, TypeOK

LEMMA RootsAreContracts == Roots \subseteq Contracts /\ Leaves \subseteq Contracts
  BY DEF Contracts

\* An event without contents takes its contract from the subscriber.
LEMMA EmitOneEffect ==
  ASSUME TypeOK, NEW r \in Roots, NEW t \in {"delete", "unmatch"}, EmitOne(r, t)
  PROVE  /\ view' = [view EXCEPT ![r] = None]
         /\ events' \subseteq Event
<1> DEFINE e == [id |-> r, type |-> t, after |-> None]
<1>1. /\ events' = {e}
      /\ view' = [x \in Roots |-> IF \E d \in {e} : d.id = x
                                  THEN (CHOOSE d \in {e} : d.id = x).after ELSE view[x]]
  BY DEF EmitOne, Emit
<1>2. (CHOOSE d \in {e} : d.id = r) = e
  OBVIOUS
<1>3. view' = [x \in Roots |-> IF x = r THEN None ELSE view[x]]
  BY <1>1, <1>2
<1>4. view' = [view EXCEPT ![r] = None]
  BY <1>3 DEF TypeOK
<1>5. e \in Event
  BY RootsAreContracts DEF Event, Maybe
<1>6. QED
  BY <1>1, <1>4, <1>5

\* Events that carry the contracts of an answer give the subscriber each of them.
LEMMA EmitAnswerEffect ==
  ASSUME TypeOK, NEW ans \in [Roots -> Maybe(Contract)], NEW es, Emit(es),
         \A e \in es : e.id \in Roots /\ ans[e.id] # None /\ e.after = ans[e.id],
         \A r \in Roots : ans[r] # None => \E e \in es : e.id = r
  PROVE  /\ view' = [r \in Roots |-> IF ans[r] # None THEN ans[r] ELSE view[r]]
         /\ view' \in [Roots -> Maybe(Contract)]
<1>1. view' = [r \in Roots |-> IF \E e \in es : e.id = r
                               THEN (CHOOSE e \in es : e.id = r).after ELSE view[r]]
  BY DEF Emit
<1>2. ASSUME NEW r \in Roots, ans[r] # None
      PROVE  /\ \E e \in es : e.id = r
             /\ (CHOOSE e \in es : e.id = r).after = ans[r]
  <2>1. \E e \in es : e.id = r
    BY <1>2
  <2>2. (CHOOSE e \in es : e.id = r) \in es /\ (CHOOSE e \in es : e.id = r).id = r
    BY <2>1
  <2>3. QED
    BY <2>1, <2>2
<1>3. ASSUME NEW r \in Roots, ans[r] = None PROVE ~ \E e \in es : e.id = r
  BY <1>3
<1>4. view' = [r \in Roots |-> IF ans[r] # None THEN ans[r] ELSE view[r]]
  BY <1>1, <1>2, <1>3
<1>5. QED
  BY <1>4 DEF TypeOK

LEMMA DataEventsAnswer ==
  ASSUME TypeOK, NEW p \in Pushes
  PROVE  /\ DataEvents(p) \subseteq Event
         /\ \A e \in DataEvents(p) : /\ e.id \in Roots /\ contracts[p][e.id] # None
                                     /\ e.after = contracts[p][e.id]
         /\ \A r \in Roots : contracts[p][r] # None => \E e \in DataEvents(p) : e.id = r
<1> DEFINE E(r) == [id |-> r, type |-> EventType(p, r), after |-> contracts[p][r]]
<1>1. ASSUME NEW r \in Roots, contracts[p][r] # None
      PROVE  E(r) \in Event /\ E(r).id = r /\ E(r).after = contracts[p][r]
  BY <1>1, RootsAreContracts DEF Event, EventType, TypeOK
<1>2. DataEvents(p) = {E(r) : r \in {x \in Roots : contracts[p][x] # None}}
  BY DEF DataEvents
<1> HIDE DEF E
<1>3. QED
  BY <1>1, <1>2

LEMMA DatasetEventsAnswer ==
  ASSUME TypeOK, NEW p \in Pushes
  PROVE  /\ DatasetEvents(p) \subseteq Event
         /\ \A e \in DatasetEvents(p) : /\ e.id \in Roots /\ contracts[p][e.id] # None
                                     /\ e.after = contracts[p][e.id]
         /\ \A r \in Roots : contracts[p][r] # None => \E e \in DatasetEvents(p) : e.id = r
<1> DEFINE E(r) == [id |-> r, type |-> "dataset", after |-> contracts[p][r]]
<1>1. ASSUME NEW r \in Roots, contracts[p][r] # None
      PROVE  E(r) \in Event /\ E(r).id = r /\ E(r).after = contracts[p][r]
  BY <1>1, RootsAreContracts DEF Event, TypeOK
<1>2. DatasetEvents(p) = {E(r) : r \in {x \in Roots : contracts[p][x] # None}}
  BY DEF DatasetEvents
<1> HIDE DEF E
<1>3. QED
  BY <1>1, <1>2

-----------------------------------------------------------------------------
\* What the steps that many actions share do to the types.

LEMMA QuietType ==
  ASSUME TypeOK, Quiet
  PROVE  events' \subseteq Event /\ view' \in [Roots -> Maybe(Contract)]
  BY DEF Quiet, TypeOK

LEMMA FinishType ==
  ASSUME TypeOK, NEW p \in Pushes, Finish(p)
  PROVE  /\ stage' \in [Pushes -> Stages]
         /\ rootIds' \in [Pushes -> SUBSET Roots]
         /\ payload' \in [Pushes -> Maybe(Payload)]
         /\ retries' \in [Pushes -> 0..1]
         /\ contracts' \in [Pushes -> [Roots -> Maybe(Contract)]]
<1>1. NoContracts \in [Roots -> Maybe(Contract)]
  BY DEF NoContracts, Maybe
<1>2. QED
  BY <1>1 DEF Finish, TypeOK, Stages, Maybe

LEMMA ReceivedType ==
  ASSUME TypeOK, NEW n, Received(n)
  PROVE  wire' \in Seq(Payload) /\ Len(wire') <= MaxNotices
  BY StreamAssumption DEF Received, TypeOK

LEMMA StartType ==
  ASSUME TypeOK, NEW p \in Pushes, NEW n \in Payload, NEW ids \in SUBSET Roots,
         Received(n), Start(p, n, ids)
  PROVE  TypeOK'
<1>1. wire' \in Seq(Payload) /\ Len(wire') <= MaxNotices
  BY ReceivedType
<1>2. events' \subseteq Event /\ view' \in [Roots -> Maybe(Contract)]
  BY QuietType DEF Start
<1>3. QED
  BY <1>1, <1>2 DEF TypeOK, Start, Stages, Maybe, db

LEMMA NotifyType ==
  ASSUME TypeOK, NEW c \in Contracts, NEW t \in {"insert", "update", "delete"},
         NEW b \in BOOLEAN, Notify(c, t, b)
  PROVE  wire' \in Seq(Payload) /\ Len(wire') <= MaxNotices
<1> DEFINE n == [id |-> c, type |-> t, link |-> b]
<1>1. n \in Payload
  BY DEF Payload
<1>2. wire' = Append(wire, n) /\ Len(wire) < MaxNotices
  BY DEF Notify
<1>3. Len(wire') = Len(wire) + 1 /\ Len(wire) \in Nat
  BY <1>2 DEF TypeOK
<1>4. QED
  BY <1>1, <1>2, <1>3, StreamAssumption DEF TypeOK

-----------------------------------------------------------------------------
\* Every step keeps the types.

LEMMA TypeStep ==
  ASSUME TypeOK, [Next]_vars
  PROVE  TypeOK'
<1> USE DEF db, push, client
<1>1. ASSUME NEW c \in Contracts, NEW v \in Maybe(Values), Write(c, v) PROVE TypeOK'
  <2>1. wire' \in Seq(Payload) /\ Len(wire') <= MaxNotices
    BY <1>1, NotifyType DEF Write
  <2>2. events' \subseteq Event /\ view' \in [Roots -> Maybe(Contract)]
    BY <1>1, QuietType DEF Write, Notify
  <2>3. rows' \in [Contracts -> Maybe(Values)]
    BY <1>1 DEF Write, TypeOK
  <2>4. QED
    BY <1>1, <2>1, <2>2, <2>3 DEF Write, Notify, TypeOK
<1>2. ASSUME NEW r \in Roots, NEW l \in Leaves, WriteLink(r, l) PROVE TypeOK'
  <2>1. wire' \in Seq(Payload) /\ Len(wire') <= MaxNotices
    BY <1>2, NotifyType, RootsAreContracts DEF WriteLink
  <2>2. events' \subseteq Event /\ view' \in [Roots -> Maybe(Contract)]
    BY <1>2, QuietType DEF WriteLink, Notify
  <2>3. linked' \subseteq Roots \X Leaves
    BY <1>2 DEF WriteLink, TypeOK
  <2>4. QED
    BY <1>2, <2>1, <2>2, <2>3 DEF WriteLink, Notify, TypeOK
<1>3. ASSUME NEW r \in Roots, NEW l \in Leaves, LinkLands(r, l) PROVE TypeOK'
  <2>1. links' \subseteq Roots \X Leaves
    BY <1>3 DEF LinkLands, TypeOK
  <2>2. events' \subseteq Event /\ view' \in [Roots -> Maybe(Contract)]
    BY <1>3, QuietType DEF LinkLands
  <2>3. QED
    BY <1>3, <2>1, <2>2 DEF LinkLands, TypeOK
<1>4. CASE PushDelete
  <2>1. PICK n \in Payload : /\ Received(n) /\ RootDeleted(n)
                             /\ seen' = Unsee(n.id)
                             /\ EmitOne(n.id, "delete")
                             /\ UNCHANGED <<db, schema, push>>
    BY <1>4 DEF PushDelete
  <2>2. n.id \in Contracts /\ n.id \in Roots
    BY <2>1 DEF Payload, RootDeleted, TypeOK
  <2>3. wire' \in Seq(Payload) /\ Len(wire') <= MaxNotices
    BY <2>1, ReceivedType
  <2>4. seen' \in [Contracts -> SUBSET Roots]
    BY <2>1, <2>2, UnseeType
  <2>5. events' \subseteq Event /\ view' = [view EXCEPT ![n.id] = None]
    BY <2>1, <2>2, EmitOneEffect
  <2>6. view' \in [Roots -> Maybe(Contract)]
    BY <2>5 DEF TypeOK, Maybe
  <2>7. QED
    BY <2>1, <2>3, <2>4, <2>5, <2>6 DEF TypeOK
<1>5. CASE PushNothing
  <2>1. wire' \in Seq(Payload) /\ Len(wire') <= MaxNotices
    BY <1>5, ReceivedType DEF PushNothing
  <2>2. events' \subseteq Event /\ view' \in [Roots -> Maybe(Contract)]
    BY <1>5, QuietType DEF PushNothing
  <2>3. QED
    BY <1>5, <2>1, <2>2 DEF PushNothing, TypeOK
<1>6. ASSUME NEW p \in Pushes, PushLink(p) PROVE TypeOK'
  BY <1>6, StartType DEF PushLink
<1>7. ASSUME NEW p \in Pushes, PushSeen(p) PROVE TypeOK'
  <2>1. ASSUME NEW n \in Payload PROVE seen[n.id] \in SUBSET Roots
    BY DEF Payload, TypeOK
  <2>2. QED
    BY <1>7, <2>1, StartType DEF PushSeen
<1>8. ASSUME NEW p \in Pushes, PushUnseen(p) PROVE TypeOK'
  BY <1>8, StartType DEF PushUnseen
<1>9. ASSUME NEW p \in Pushes, Query(p) PROVE TypeOK'
  <2>1. QueryResult(schema, rootIds[p]) \in [Roots -> Maybe(Contract)]
    BY QueryResultType DEF TypeOK
  <2>2. events' \subseteq Event /\ view' \in [Roots -> Maybe(Contract)]
    BY <1>9, QuietType DEF Query
  <2>3. QED
    BY <1>9, <2>1, <2>2 DEF Query, TypeOK, Stages
<1>10. ASSUME NEW p \in Pushes, Deliver(p) PROVE TypeOK'
  <2>1. view' \in [Roots -> Maybe(Contract)] /\ events' \subseteq Event
    <3>1. contracts[p] \in [Roots -> Maybe(Contract)]
      BY DEF TypeOK
    <3>2. Emit(DataEvents(p))
      BY <1>10 DEF Deliver
    <3>3. QED
      BY <3>1, <3>2, DataEventsAnswer, EmitAnswerEffect DEF Emit
  <2>2. seen' \in [Contracts -> SUBSET Roots]
    BY <1>10, SeeTreesType DEF Deliver
  <2>3. QED
    BY <1>10, <2>1, <2>2, FinishType DEF Deliver, TypeOK
<1>11. ASSUME NEW p \in Pushes, Retry(p) PROVE TypeOK'
  <2>1. events' \subseteq Event /\ view' \in [Roots -> Maybe(Contract)]
    BY <1>11, QuietType DEF Retry
  <2>2. retries' \in [Pushes -> 0..1]
    BY <1>11 DEF Retry, TypeOK
  <2>3. QED
    BY <1>11, <2>1, <2>2 DEF Retry, TypeOK, Stages
<1>12. ASSUME NEW p \in Pushes, Fail(p) PROVE TypeOK'
  <2>1. events' \subseteq Event /\ view' \in [Roots -> Maybe(Contract)]
    BY <1>12, QuietType DEF Fail
  <2>2. QED
    BY <1>12, <2>1, FinishType DEF Fail, TypeOK
<1>13. ASSUME NEW p \in Pushes, NEW r \in Roots, Unmatch(p, r) PROVE TypeOK'
  <2>1. events' \subseteq Event /\ view' = [view EXCEPT ![r] = None]
    BY <1>13, EmitOneEffect DEF Unmatch
  <2>2. view' \in [Roots -> Maybe(Contract)]
    BY <2>1 DEF TypeOK, Maybe
  <2>3. seen' \in [Contracts -> SUBSET Roots]
    BY <1>13, UnseeType, RootsAreContracts DEF Unmatch
  <2>4. CASE rootIds[p] = {r}
    BY <1>13, <2>1, <2>2, <2>3, <2>4, FinishType DEF Unmatch, TypeOK
  <2>5. CASE rootIds[p] # {r}
    <3>1. /\ stage' = [stage EXCEPT ![p] = "unmatching"]
          /\ rootIds' = [rootIds EXCEPT ![p] = @ \ {r}]
          /\ UNCHANGED <<payload, retries, contracts, db, wire, schema>>
      BY <1>13, <2>5 DEF Unmatch
    <3>2. stage' \in [Pushes -> Stages] /\ rootIds' \in [Pushes -> SUBSET Roots]
      BY <3>1 DEF TypeOK, Stages
    <3>3. QED
      BY <2>1, <2>2, <2>3, <3>1, <3>2 DEF TypeOK
  <2>6. QED
    BY <2>4, <2>5
<1>14. ASSUME NEW p \in Pushes, Dataset(p) PROVE TypeOK'
  <2>1. view' \in [Roots -> Maybe(Contract)] /\ events' \subseteq Event
    <3>1. contracts[p] \in [Roots -> Maybe(Contract)]
      BY DEF TypeOK
    <3>2. Emit(DatasetEvents(p))
      BY <1>14 DEF Dataset
    <3>3. QED
      BY <3>1, <3>2, DatasetEventsAnswer, EmitAnswerEffect DEF Emit
  <2>2. seen' \in [Contracts -> SUBSET Roots]
    BY <1>14, SeeTreesType DEF Dataset
  <2>3. QED
    BY <1>14, <2>1, <2>2, FinishType DEF Dataset, TypeOK
<1>15. ASSUME NEW p \in Pushes, NEW s \in Schemas, Fetch(p, s) PROVE TypeOK'
  <2>1. QueryResult(s, Roots) \in [Roots -> Maybe(Contract)]
    BY QueryResultType
  <2>2. events' \subseteq Event /\ view' \in [Roots -> Maybe(Contract)]
    BY <1>15, QuietType DEF Fetch
  <2>3. QED
    BY <1>15, <2>1, <2>2 DEF Fetch, TypeOK, Stages
<1>16. ASSUME NEW s \in Schemas, SetSchema(s) PROVE TypeOK'
  <2>1. events' \subseteq Event /\ view' \in [Roots -> Maybe(Contract)]
    BY <1>16, QuietType DEF SetSchema
  <2>2. QED
    BY <1>16, <2>1 DEF SetSchema, TypeOK
<1>17. CASE UNCHANGED vars
  BY <1>17 DEF vars, TypeOK
<1>18. QED
  BY <1>1, <1>2, <1>3, <1>4, <1>5, <1>6, <1>7, <1>8, <1>9, <1>10, <1>11, <1>12, <1>13,
     <1>14, <1>15, <1>16, <1>17 DEF Next, Database, Push

-----------------------------------------------------------------------------
\* What the subscriber holds and what the stream has seen change together.

\* The subscriber drops root r, the stream unsees it: what goes with it is the root set
\* of r itself, if the subscriber does not hold r.
LEMMA UnseeStep ==
  ASSUME IInv, NEW r \in Roots, seen' = Unsee(r), view' = [view EXCEPT ![r] = None]
  PROVE  SeenIsHeld' /\ StaysTracked(IF r \in seen[r] THEN {} ELSE {r})
<1> USE RootsAreContracts DEF IInv
<1>1. \A x \in Roots : view'[x] # None => x # r /\ view[x] # None /\ view'[x] = view[x]
  BY DEF TypeOK
<1>2. \A x \in Roots : x # r => view'[x] = view[x]
  BY DEF TypeOK
<1>3. CASE r \in seen[r]
  <2>1. seen' = [c \in Contracts |-> seen[c] \ {r}]
    BY <1>3 DEF Unsee
  <2>2. \A c \in Contracts : \A x \in seen[c] : x \in Roots
    BY DEF TypeOK
  <2>3. SeenIsHeld'
    BY <1>1, <1>2, <2>1, <2>2 DEF SeenIsHeld
  <2>4. \A x \in Roots, l \in Leaves : Tracks(x, l) => Tracks(x, l)'
    BY <1>1, <2>1 DEF Tracks, Holds
  <2>5. QED
    BY <1>3, <2>3, <2>4 DEF StaysTracked
<1>4. CASE r \notin seen[r]
  <2>1. seen' = [seen EXCEPT ![r] = {}]
    BY <1>4 DEF Unsee
  <2>2. view[r] = None
    BY <1>4 DEF SeenIsHeld
  <2>3. view' = view
    BY <2>2 DEF TypeOK
  <2>4. \A c \in Contracts : seen'[c] \subseteq seen[c]
    BY <2>1 DEF TypeOK
  <2>5. \A c \in Contracts : c # r => seen'[c] = seen[c]
    BY <2>1 DEF TypeOK
  <2>6. SeenIsHeld'
    BY <2>2, <2>3, <2>4, <2>5 DEF SeenIsHeld
  <2>7. \A x \in Roots, l \in Leaves \ {r} : Tracks(x, l) => Tracks(x, l)'
    BY <2>3, <2>5 DEF Tracks, Holds
  <2>8. QED
    BY <1>4, <2>6, <2>7 DEF StaysTracked
<1>5. QED
  BY <1>3, <1>4

\* The subscriber learns an answer, the stream sees its trees.
LEMMA SeeStep ==
  ASSUME IInv, NEW ans, seen' = SeeTrees(ans),
         view' = [r \in Roots |-> IF ans[r] # None THEN ans[r] ELSE view[r]]
  PROVE  SeenIsHeld' /\ StaysTracked({})
<1> USE RootsAreContracts DEF IInv
<1>1. \A c \in Contracts :
        seen'[c] = seen[c] \cup {r \in Roots : ans[r] # None /\ (c = r \/ (c \in Leaves /\ ans[r].leaves[c] # None))}
  BY DEF SeeTrees
<1>2. \A r \in Roots : view'[r] = IF ans[r] # None THEN ans[r] ELSE view[r]
  OBVIOUS
<1>3. \A c \in Contracts : seen[c] \subseteq Roots
  BY DEF TypeOK
<1>4. SeenIsHeld'
  <2>1. \A r \in Roots : view'[r] # None => r \in seen'[r]
    BY <1>1, <1>2 DEF SeenIsHeld
  <2>2. \A c \in Contracts : \A r \in seen'[c] : view'[r] # None
    BY <1>1, <1>2, <1>3 DEF SeenIsHeld
  <2>3. QED
    BY <2>1, <2>2 DEF SeenIsHeld
<1>5. ASSUME NEW r \in Roots, NEW l \in Leaves, Tracks(r, l) PROVE Tracks(r, l)'
  <2>1. SUFFICES ASSUME view'[r] # None, view'[r].leaves[l] # None
                 PROVE  r \in seen'[l]
    BY DEF Tracks, Holds
  <2>2. CASE ans[r] # None
    BY <1>1, <1>2, <2>1, <2>2
  <2>3. CASE ans[r] = None
    <3>1. Holds(r, l)
      BY <1>2, <2>1, <2>3 DEF Holds
    <3>2. QED
      BY <1>1, <1>5, <3>1 DEF Tracks
  <2>4. QED
    BY <2>2, <2>3
<1>6. QED
  BY <1>4, <1>5 DEF StaysTracked

\* The leaves that a step loses track of.
Lost == {l \in Leaves : UnmatchedLeaf(l)}

LEMMA IInvStep ==
  ASSUME IInv, [Next]_vars
  PROVE  IInv' /\ StaysTracked(Lost)
<1>1. TypeOK'
  BY TypeStep DEF IInv
<1>2. ASSUME UNCHANGED <<seen, view>> PROVE SeenIsHeld' /\ StaysTracked({})
  BY <1>2 DEF IInv, SeenIsHeld, StaysTracked, Tracks, Holds
<1>0. ASSUME StaysTracked({}) PROVE StaysTracked(Lost)
  BY <1>0 DEF StaysTracked
<1>3. CASE PushDelete
  <2>1. PICK n \in Payload : RootDeleted(n) /\ seen' = Unsee(n.id) /\ EmitOne(n.id, "delete")
    BY <1>3 DEF PushDelete
  <2>2. n.id \in Roots /\ n.id \in seen[n.id]
    BY <2>1 DEF Payload, RootDeleted, IInv, TypeOK
  <2>3. view' = [view EXCEPT ![n.id] = None]
    BY <2>1, <2>2, EmitOneEffect DEF IInv
  <2>4. QED
    BY <1>0, <1>1, <2>1, <2>2, <2>3, UnseeStep DEF IInv
<1>4. ASSUME NEW p \in Pushes, NEW r \in Roots, Unmatch(p, r) PROVE IInv' /\ StaysTracked(Lost)
  <2>1. view' = [view EXCEPT ![r] = None]
    BY <1>4, EmitOneEffect DEF Unmatch, IInv
  <2>2. SeenIsHeld' /\ StaysTracked(IF r \in seen[r] THEN {} ELSE {r})
    BY <1>4, <2>1, UnseeStep DEF Unmatch
  <2>3. \E e \in events' : e.type = "unmatch" /\ e.id = r
    BY <1>4 DEF Unmatch, EmitOne, Emit
  <2>4. r \in Leaves /\ r \notin seen[r] => r \in Lost
    BY <2>3 DEF Lost, UnmatchedLeaf
  <2>5. StaysTracked(Lost)
    BY <2>2, <2>4 DEF StaysTracked
  <2>6. QED
    BY <1>1, <2>2, <2>5 DEF IInv
<1>5. ASSUME NEW p \in Pushes, Deliver(p) PROVE IInv' /\ StaysTracked(Lost)
  <2>1. contracts[p] \in [Roots -> Maybe(Contract)]
    BY DEF IInv, TypeOK
  <2>2. view' = [r \in Roots |-> IF contracts[p][r] # None THEN contracts[p][r] ELSE view[r]]
    BY <1>5, <2>1, DataEventsAnswer, EmitAnswerEffect DEF Deliver, IInv
  <2>3. QED
    BY <1>0, <1>1, <1>5, <2>2, SeeStep DEF Deliver, IInv
<1>6. ASSUME NEW p \in Pushes, Dataset(p) PROVE IInv' /\ StaysTracked(Lost)
  <2>1. contracts[p] \in [Roots -> Maybe(Contract)]
    BY DEF IInv, TypeOK
  <2>2. view' = [r \in Roots |-> IF contracts[p][r] # None THEN contracts[p][r] ELSE view[r]]
    BY <1>6, <2>1, DatasetEventsAnswer, EmitAnswerEffect DEF Dataset, IInv
  <2>3. QED
    BY <1>0, <1>1, <1>6, <2>2, SeeStep DEF Dataset, IInv
<1>7. CASE Database
  <2>1. UNCHANGED <<seen, view>>
    BY <1>7 DEF Database, Write, WriteLink, LinkLands, Notify, Quiet
  <2>2. QED
    BY <1>0, <1>1, <1>2, <2>1 DEF IInv
<1>8. CASE PushNothing
  <2>1. UNCHANGED <<seen, view>>
    BY <1>8 DEF PushNothing, Quiet
  <2>2. QED
    BY <1>0, <1>1, <1>2, <2>1 DEF IInv
<1>9. ASSUME NEW p \in Pushes, PushLink(p) \/ PushSeen(p) \/ PushUnseen(p)
      PROVE  IInv' /\ StaysTracked(Lost)
  <2>1. UNCHANGED <<seen, view>>
    BY <1>9 DEF PushLink, PushSeen, PushUnseen, Start, Quiet
  <2>2. QED
    BY <1>0, <1>1, <1>2, <2>1 DEF IInv
<1>10. ASSUME NEW p \in Pushes, Query(p) \/ Retry(p) \/ Fail(p) PROVE IInv' /\ StaysTracked(Lost)
  <2>1. UNCHANGED <<seen, view>>
    BY <1>10 DEF Query, Retry, Fail, Quiet
  <2>2. QED
    BY <1>0, <1>1, <1>2, <2>1 DEF IInv
<1>11. ASSUME NEW p \in Pushes, NEW s \in Schemas, Fetch(p, s) PROVE IInv' /\ StaysTracked(Lost)
  <2>1. UNCHANGED <<seen, view>>
    BY <1>11 DEF Fetch, Quiet
  <2>2. QED
    BY <1>0, <1>1, <1>2, <2>1 DEF IInv
<1>12. ASSUME NEW s \in Schemas, SetSchema(s) PROVE IInv' /\ StaysTracked(Lost)
  <2>1. UNCHANGED <<seen, view>>
    BY <1>12 DEF SetSchema, Quiet
  <2>2. QED
    BY <1>0, <1>1, <1>2, <2>1 DEF IInv
<1>13. CASE UNCHANGED vars
  <2>1. UNCHANGED <<seen, view>>
    BY <1>13 DEF vars, client
  <2>2. QED
    BY <1>0, <1>1, <1>2, <2>1 DEF IInv
<1>14. QED
  BY <1>3, <1>4, <1>5, <1>6, <1>7, <1>8, <1>9, <1>10, <1>11, <1>12, <1>13 DEF Next, Push

LEMMA IInvInit == Init => IInv
<1> SUFFICES ASSUME Init PROVE IInv
  OBVIOUS
<1>1. NoContracts \in [Roots -> Maybe(Contract)]
  BY DEF NoContracts, Maybe
<1>2. TypeOK
  BY <1>1, StreamAssumption DEF Init, TypeOK, Stages, Maybe
<1>3. SeenIsHeld
  BY RootsAreContracts DEF Init, SeenIsHeld, NoContracts
<1>4. QED
  BY <1>2, <1>3 DEF IInv

-----------------------------------------------------------------------------
\* The inductive invariant, the types and what is remembered, holds in every reachable
\* state of a stream.
THEOREM StreamInvariance == Spec => []IInv
  BY IInvInit, IInvStep, PTL DEF Spec

\* Types of the database, the notifications, the pushes and the subscriber.
THEOREM StreamTypeCorrectness == Spec => []TypeOK
  BY StreamInvariance, PTL DEF IInv

\* seenContractIds is what the subscriber holds.
THEOREM StreamMemory == Spec => []SeenIsHeld
  BY StreamInvariance, PTL DEF IInv

\* No step loses track of a leaf of what the subscriber holds, except the unmatch of a
\* leaf that could have been a root itself, which the subscriber does not hold as one.
THEOREM StreamTracking == Spec => TreeIsTracked
<1>1. IInv /\ [Next]_vars =>
        [\A r \in Roots, l \in Leaves : Tracks(r, l) => Tracks(r, l)' \/ UnmatchedLeaf(l)]_vars
  BY IInvStep DEF StaysTracked, Lost
<1>2. QED
  BY <1>1, StreamInvariance, PTL DEF Spec, TreeIsTracked

\* The leaves of a type other than the roots'.
PlainLeavesAreTracked == \A r \in Roots, l \in Leaves \ Roots : Tracks(r, l)

\* The leaves of another type than the roots' are always tracked, in every tree that the
\* subscriber holds.
THEOREM PlainTracking == Spec => []PlainLeavesAreTracked
<1>1. Init => PlainLeavesAreTracked
  BY DEF Init, PlainLeavesAreTracked, Tracks, Holds, NoContracts
<1>2. IInv /\ PlainLeavesAreTracked /\ [Next]_vars => PlainLeavesAreTracked'
  BY IInvStep DEF PlainLeavesAreTracked, StaysTracked, Lost, UnmatchedLeaf
<1>3. QED
  BY <1>1, <1>2, StreamInvariance, PTL DEF Spec

\* A step of a stream inserts only what the subscriber does not hold.
LEMMA InsertIsNewStep ==
  ASSUME IInv, [Next]_vars
  PROVE  [\A e \in events' : e.type = "insert" => view[e.id] = None]_vars
<1> DEFINE Goal == \A e \in events' : e.type = "insert" => view[e.id] = None
<1>1. ASSUME NEW p \in Pushes, Deliver(p) PROVE Goal
  <2>1. events' = DataEvents(p)
    BY <1>1 DEF Deliver, Emit
  <2>2. \A e \in DataEvents(p) : e.id \in Roots /\ e.type = EventType(p, e.id)
    BY DEF DataEvents
  <2>3. ASSUME NEW r \in Roots, EventType(p, r) = "insert" PROVE view[r] = None
    <3>1. seen[r] = {}
      BY <2>3 DEF EventType
    <3>2. QED
      BY <3>1 DEF IInv, SeenIsHeld
  <2>4. QED
    BY <2>1, <2>2, <2>3
<1>2. ASSUME NEW p \in Pushes, Dataset(p) PROVE Goal
  BY <1>2 DEF Dataset, DatasetEvents, Emit
<1>3. ASSUME NEW p \in Pushes, NEW r \in Roots, Unmatch(p, r) PROVE Goal
  BY <1>3 DEF Unmatch, EmitOne, Emit
<1>4. CASE PushDelete
  BY <1>4 DEF PushDelete, EmitOne, Emit
<1>5. ASSUME events' = {} PROVE Goal
  BY <1>5
<1>6. CASE Database
  BY <1>5, <1>6 DEF Database, Write, WriteLink, LinkLands, Notify, Quiet
<1>7. CASE PushNothing
  BY <1>5, <1>7 DEF PushNothing, Quiet
<1>8. ASSUME NEW p \in Pushes, PushLink(p) \/ PushSeen(p) \/ PushUnseen(p) PROVE Goal
  BY <1>5, <1>8 DEF PushLink, PushSeen, PushUnseen, Start, Quiet
<1>9. ASSUME NEW p \in Pushes, Query(p) \/ Retry(p) \/ Fail(p) PROVE Goal
  BY <1>5, <1>9 DEF Query, Retry, Fail, Quiet
<1>10. ASSUME NEW p \in Pushes, NEW s \in Schemas, Fetch(p, s) PROVE Goal
  BY <1>5, <1>10 DEF Fetch, Quiet
<1>11. ASSUME NEW s \in Schemas, SetSchema(s) PROVE Goal
  BY <1>5, <1>11 DEF SetSchema, Quiet
<1>12. QED
  BY <1>1, <1>2, <1>3, <1>4, <1>6, <1>7, <1>8, <1>9, <1>10, <1>11 DEF Next, Push

\* No contract is inserted twice into what the subscriber holds.
THEOREM NoSecondInsert == Spec => InsertIsNew
<1>1. IInv /\ [Next]_vars => [\A e \in events' : e.type = "insert" => view[e.id] = None]_vars
  BY InsertIsNewStep
<1>2. QED
  BY <1>1, StreamInvariance, PTL DEF Spec, InsertIsNew
=============================================================================
