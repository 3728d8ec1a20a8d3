------------------------- MODULE Relationships_proofs -------------------------
(***************************************************************************)
(* What the kernel knows of the relationships is what a query would find,  *)
(* whenever their stream is at rest.  The argument is that of              *)
(* Freshness_proofs, of what the kernel has made of the events instead of  *)
(* what a subscriber knows: a push of this stream is about one             *)
(* relationship, so that the handler is told of all that it has found.     *)
(***************************************************************************)
EXTENDS Relationships, Freshness_proofs

\* Notifications are of relationships, and a push is about one of them.
NoticesOfRoots == \A i \in DOMAIN wire : wire[i].id \in Roots

OneRoot == \A p \in Pushes : \A r, s \in rootIds[p] : r = s

\* A relationship is in no tree but its own.
SeenAlone == \A r \in Roots : seen[r] \subseteq {r}

KnownAreFresh ==
  /\ trusted \subseteq Roots
  /\ loading # "loaded" => trusted = {}
  /\ \A r \in trusted : Fresh(r, relationships[r])

KInv == PInv /\ KernelTypeOK /\ NoticesOfRoots /\ OneRoot /\ SeenAlone /\ KnownAreFresh

-----------------------------------------------------------------------------
\* Steps of the stream.

LEMMA KernelIsNext ==
  ASSUME [KernelNext]_kernelVars
  PROVE  [Next]_vars
<1>1. Load => UNCHANGED vars
  BY DEF Load, QueryRelationships, SetRelationships
<1>2. ASSUME NEW r \in Roots, NEW v \in Values, Write(r, v) PROVE Next
  BY <1>2, RootsAreContracts DEF Next, Database, Maybe
<1>3. ASSUME NEW p \in Pushes, PushStep(p) PROVE Next
  BY <1>3 DEF PushStep, Next, Push
<1>4. QED
  BY <1>1, <1>2, <1>3 DEF KernelNext, kernelVars

LEMMA WriteKeepsRoots ==
  ASSUME TypeOK, NoticesOfRoots, NEW r \in Roots, NEW v, Write(r, v)
  PROVE  NoticesOfRoots'
<1>1. PICK t \in {"insert", "update", "delete"} : Notify(r, t, FALSE)
  BY DEF Write
<1>2. PICK n \in Payload : n = [id |-> r, type |-> t, link |-> FALSE]
  BY RootsAreContracts DEF Payload
<1>3. wire' = Append(wire, n) /\ n.id = r
  BY <1>1, <1>2 DEF Notify
<1>4. /\ DOMAIN wire' = 1..(Len(wire) + 1) /\ wire'[Len(wire) + 1] = n
      /\ \A i \in DOMAIN wire : wire'[i] = wire[i]
  BY <1>3, Appended
<1>5. DOMAIN wire' = DOMAIN wire \cup {Len(wire) + 1}
  BY <1>4, WireType
<1>6. QED
  BY <1>3, <1>4, <1>5 DEF NoticesOfRoots

LEMMA StartKeepsRoots ==
  ASSUME PInv, NoticesOfRoots, OneRoot, SeenAlone, NEW p \in Pushes, PushSeen(p) \/ PushUnseen(p)
  PROVE  NoticesOfRoots' /\ OneRoot'
<1> USE DEF PInv, IInv
<1>1. PICK n \in Payload : \E ids : Received(n) /\ Start(p, n, ids) /\ ids \in {seen[n.id], {n.id}}
  BY DEF PushSeen, PushUnseen
<1>2. PICK ids : Received(n) /\ Start(p, n, ids) /\ ids \in {seen[n.id], {n.id}}
  BY <1>1
<1>3. n = wire[1] /\ 1 \in DOMAIN wire
  BY <1>2, Taken
<1>4. n.id \in Roots
  BY <1>3 DEF NoticesOfRoots
<1>5. \A r, s \in ids : r = s
  BY <1>2, <1>4 DEF SeenAlone
<1>6. \A q \in Pushes : rootIds'[q] = IF q = p THEN ids ELSE rootIds[q]
  BY <1>2 DEF Start, TypeOK
<1>7. OneRoot'
  BY <1>5, <1>6 DEF OneRoot
<1>8. \A i \in DOMAIN wire' : i + 1 \in DOMAIN wire /\ wire'[i] = wire[i + 1]
  BY <1>2, Taken
<1>9. NoticesOfRoots'
  BY <1>8 DEF NoticesOfRoots
<1>10. QED
  BY <1>7, <1>9

LEMMA AloneStep ==
  ASSUME PInv, SeenAlone, [KernelNext]_kernelVars
  PROVE  SeenAlone'
<1> USE DEF PInv, IInv, TypeOK
<1>1. CASE UNCHANGED seen
  BY <1>1 DEF SeenAlone
<1>2. ASSUME NEW r \in Roots, NEW v \in Values, Write(r, v) PROVE UNCHANGED seen
  BY <1>2 DEF Write, Notify
<1>3. ASSUME NEW p \in Pushes, PushSeen(p) \/ PushUnseen(p) \/ Query(p) \/ Retry(p) \/ Fail(p)
      PROVE  UNCHANGED seen
  BY <1>3 DEF PushSeen, PushUnseen, Start, Query, Retry, Fail
<1>4. ASSUME NEW p \in Pushes, Deliver(p) PROVE SeenAlone'
  <2>1. seen' = SeeTrees(contracts[p])
    BY <1>4 DEF Deliver
  <2>2. ASSUME NEW r \in Roots PROVE seen'[r] \subseteq seen[r] \cup {r}
    BY <2>1, RelationshipsAssumption, RootsAreContracts DEF SeeTrees
  <2>3. QED
    BY <2>2 DEF SeenAlone
<1>5. ASSUME NEW p \in Pushes, NEW x \in Roots, Unmatch(p, x) PROVE SeenAlone'
  <2>1. seen' = Unsee(x)
    BY <1>5 DEF Unmatch
  <2>2. ASSUME NEW r \in Roots PROVE seen'[r] \subseteq seen[r]
    BY <2>1, RootsAreContracts DEF Unsee
  <2>3. QED
    BY <2>2 DEF SeenAlone
<1>6. CASE Load \/ UNCHANGED kernelVars
  BY <1>1, <1>6 DEF Load, QueryRelationships, SetRelationships, kernelVars, vars
<1>7. QED
  BY <1>1, <1>2, <1>3, <1>4, <1>5, <1>6 DEF KernelNext, PushStep

LEMMA RootsStep ==
  ASSUME PInv, NoticesOfRoots, OneRoot, SeenAlone, [KernelNext]_kernelVars
  PROVE  NoticesOfRoots' /\ OneRoot'
<1>1. CASE UNCHANGED <<wire, rootIds>>
  BY <1>1 DEF NoticesOfRoots, OneRoot
<1>2. ASSUME NEW r \in Roots, NEW v \in Values, Write(r, v) PROVE NoticesOfRoots' /\ OneRoot'
  <2>1. UNCHANGED rootIds
    BY <1>2 DEF Write, Notify, push
  <2>2. QED
    BY <1>2, <2>1, WriteKeepsRoots DEF OneRoot, PInv, IInv
<1>3. ASSUME NEW p \in Pushes, Query(p) \/ Retry(p) PROVE NoticesOfRoots' /\ OneRoot'
  BY <1>1, <1>3 DEF Query, Retry
<1>4. ASSUME NEW p \in Pushes, UNCHANGED wire, \A q \in Pushes : rootIds'[q] \subseteq rootIds[q]
      PROVE  NoticesOfRoots' /\ OneRoot'
  BY <1>4 DEF NoticesOfRoots, OneRoot
<1>5. ASSUME NEW p \in Pushes, Finish(p) PROVE \A q \in Pushes : rootIds'[q] \subseteq rootIds[q]
  BY <1>5 DEF Finish, PInv, IInv, TypeOK
<1>6. ASSUME NEW p \in Pushes, Deliver(p) \/ Fail(p) PROVE NoticesOfRoots' /\ OneRoot'
  BY <1>4, <1>5, <1>6 DEF Deliver, Fail
<1>7. ASSUME NEW p \in Pushes, NEW r \in Roots, Unmatch(p, r) PROVE NoticesOfRoots' /\ OneRoot'
  <2>1. \A q \in Pushes : rootIds'[q] \subseteq rootIds[q]
    BY <1>5, <1>7 DEF Unmatch, PInv, IInv, TypeOK
  <2>2. QED
    BY <1>4, <1>7, <2>1 DEF Unmatch
<1>8. CASE Load \/ UNCHANGED kernelVars
  BY <1>1, <1>8 DEF Load, QueryRelationships, SetRelationships, kernelVars, vars, push
<1>9. QED
  BY <1>2, <1>3, <1>6, <1>7, <1>8, StartKeepsRoots DEF KernelNext, PushStep

-----------------------------------------------------------------------------
\* What the history doubts of streams with leaves is not in doubt here.
LEMMA NothingUnknown == Unknown = {}
BY RelationshipsAssumption DEF Unknown

LEMMA NothingOverlooked ==
  ASSUME PInv, SeenAlone, NEW p \in Pushes, PushSeen(p)
  PROVE  Overlooked = {}
<1>1. PICK n \in Payload : Received(n) /\ seen[n.id] # {}
  BY DEF PushSeen
<1>2. n.id \in Roots => n.id \in seen[n.id]
  BY <1>1 DEF SeenAlone
<1>3. Named = {n.id}
  BY <1>1 DEF Named, Received
<1>4. QED
  BY <1>2, <1>3 DEF Overlooked

-----------------------------------------------------------------------------
\* What the handler makes of the events.

LEMMA HearsNothing ==
  ASSUME NEW D, HearAndDoubt(D), events' = {}
  PROVE  relationships' = relationships
  BY DEF HearAndDoubt, Hear

LEMMA HearsAnswer ==
  ASSUME KInv, NEW p \in Pushes, Deliver(p), NEW D, HearAndDoubt(D)
  PROVE  /\ relationships' \in [Roots -> Maybe(Contract)]
         /\ \A r \in Roots :
              relationships'[r] = IF contracts[p][r] # None THEN contracts[p][r] ELSE relationships[r]
<1> USE DEF KInv, PInv, IInv
<1>1. events' = DataEvents(p)
  BY DEF Deliver, Emit
<1>2. PICK x \in Roots : contracts[p][x] # None
  BY DEF Deliver, NoContracts, TypeOK
<1>3. events' # {}
  BY <1>1, <1>2 DEF DataEvents
<1>4. PICK e \in DataEvents(p) : relationships' = OnData(e)
  BY <1>1, <1>3 DEF HearAndDoubt, Hear
<1>5. e.id \in Roots /\ contracts[p][e.id] # None /\ e.after = contracts[p][e.id]
  BY DataEventsAnswer
<1>6. e.type \in {"insert", "update"}
  BY DEF DataEvents, EventType
<1>7. relationships' = [relationships EXCEPT ![e.id] = contracts[p][e.id]]
  BY <1>4, <1>5, <1>6 DEF OnData, UpsertRelationship
<1>8. \A r \in Roots : contracts[p][r] # None => r = e.id
  BY <1>5 DEF AnswersAreAsked, IsAsked, OneRoot
<1>9. relationships' \in [Roots -> Maybe(Contract)]
  BY <1>5, <1>7 DEF KernelTypeOK, TypeOK
<1>10. QED
  BY <1>5, <1>7, <1>8, <1>9 DEF KernelTypeOK

LEMMA HearsUnmatch ==
  ASSUME KInv, NEW p \in Pushes, NEW x \in Roots, Unmatch(p, x), NEW D, HearAndDoubt(D)
  PROVE  relationships' = [relationships EXCEPT ![x] = None]
<1> DEFINE e == [id |-> x, type |-> "unmatch", after |-> None]
<1>1. events' = {e}
  BY DEF Unmatch, EmitOne, Emit
<1>2. relationships' = OnData(CHOOSE d \in {e} : TRUE)
  BY <1>1 DEF HearAndDoubt, Hear
<1>3. (CHOOSE d \in {e} : TRUE) = e
  OBVIOUS
<1>4. relationships' = OnData(e)
  BY <1>2, <1>3
<1>5. QED
  BY <1>4 DEF OnData, RemoveRelationship

-----------------------------------------------------------------------------
\* What the kernel knows of r is as fresh as it was.
KeepsKnown(r) == Fresh(r, relationships[r]) => Fresh(r, relationships[r])'

LEMMA FreshRelationship ==
  ASSUME NEW r \in Roots, NEW k, relationships'[r] = k, Fresh(r, k)'
  PROVE  Fresh(r, relationships[r])'
  BY DEF Fresh, Settled

LEMMA QuietKeepsKnown ==
  ASSUME NEW r \in Roots, relationships'[r] = relationships[r], \A k : Fresh(r, k) => Fresh(r, k)'
  PROVE  KeepsKnown(r)
<1> SUFFICES ASSUME Fresh(r, relationships[r]) PROVE Fresh(r, relationships[r])'
  BY DEF KeepsKnown
<1>1. PICK k : k = relationships[r]
  OBVIOUS
<1>2. Fresh(r, k)
  BY <1>1
<1>3. Fresh(r, k)'
  BY <1>2
<1>4. QED
  BY <1>1, <1>3, FreshRelationship

LEMMA AnswerKeepsKnown ==
  ASSUME KInv, NEW p \in Pushes, Deliver(p), NEW D, HearAndDoubt(D),
         NEW r \in Roots, r \notin Overtaken(rootIds[p])
  PROVE  KeepsKnown(r)
<1> SUFFICES ASSUME Fresh(r, relationships[r]) PROVE Fresh(r, relationships[r])'
  BY DEF KeepsKnown
<1>1. PICK k : k = relationships[r]
  OBVIOUS
<1>2. PICK told : told = IF contracts[p][r] # None THEN contracts[p][r] ELSE k
  OBVIOUS
<1>3. relationships'[r] = told
  BY <1>1, <1>2, HearsAnswer
<1>4. r \notin {x \in rootIds[p] : contracts[p][x] = None}
  <2>1. PICK y \in Roots : contracts[p][y] # None
    BY DEF KInv, PInv, IInv, TypeOK, Deliver, NoContracts
  <2>2. y \in rootIds[p]
    BY <2>1 DEF KInv, PInv, AnswersAreAsked, IsAsked
  <2>3. QED
    BY <2>1, <2>2 DEF KInv, OneRoot
<1>5. Fresh(r, k)
  BY <1>1
<1>6. Fresh(r, told)'
  BY <1>2, <1>4, <1>5, DeliverIsFresh DEF KInv
<1>7. QED
  BY <1>3, <1>6, FreshRelationship

LEMMA UnmatchKeepsKnown ==
  ASSUME KInv, NEW p \in Pushes, NEW x \in Roots, Unmatch(p, x), NEW D, HearAndDoubt(D),
         NEW r \in Roots, r \notin Overtaken({x})
  PROVE  KeepsKnown(r)
<1> SUFFICES ASSUME Fresh(r, relationships[r]) PROVE Fresh(r, relationships[r])'
  BY DEF KeepsKnown
<1>1. PICK k : k = relationships[r]
  OBVIOUS
<1>2. PICK told : told = IF r = x THEN None ELSE k
  OBVIOUS
<1>3. relationships'[r] = told
  BY <1>1, <1>2, HearsUnmatch DEF KInv, KernelTypeOK
<1>4. Fresh(r, k)
  BY <1>1
<1>5. Fresh(r, told)'
  BY <1>2, <1>4, UnmatchIsFresh DEF KInv
<1>6. QED
  BY <1>3, <1>5, FreshRelationship

LEMMA KnownStep ==
  ASSUME KInv, NEW D, HearAndDoubt(D), \A r \in Roots : r \notin D => KeepsKnown(r)
  PROVE  KnownAreFresh'
<1>1. trusted' = (trusted \cup Known') \ D /\ loading' = loading
  BY DEF HearAndDoubt, DoubtKnown, Hear
<1>2. \A r \in Known' : r \in Roots /\ loading' = "loaded" /\ Fresh(r, relationships[r])'
  BY DEF Known, Fresh, Settled
<1>3. \A r \in trusted : r \in Roots /\ Fresh(r, relationships[r])
  BY DEF KInv, KnownAreFresh
<1>4. \A r \in trusted' : r \in Roots /\ Fresh(r, relationships[r])'
  BY <1>1, <1>2, <1>3 DEF KeepsKnown
<1>5. loading' # "loaded" => trusted' = {}
  BY <1>1, <1>2 DEF KInv, KnownAreFresh
<1>6. QED
  BY <1>4, <1>5 DEF KnownAreFresh

LEMMA LoadStep ==
  ASSUME KInv, Load
  PROVE  KernelTypeOK' /\ KnownAreFresh'
<1>1. CASE QueryRelationships /\ DoubtKnown({})
  <2>1. QueryResult(schema, Roots) \in [Roots -> Maybe(Contract)]
    BY QueryResultType DEF KInv, PInv, IInv, TypeOK
  <2>2. KernelTypeOK'
    BY <1>1, <2>1 DEF QueryRelationships, KInv, KernelTypeOK
  <2>3. trusted' = {}
    BY <1>1 DEF QueryRelationships, DoubtKnown, Known, KInv, KnownAreFresh
  <2>4. QED
    BY <2>2, <2>3 DEF KnownAreFresh
<1>2. CASE SetRelationships /\ DoubtKnown(heard)
  <2>1. NoContracts \in [Roots -> Maybe(Contract)]
    BY DEF NoContracts, Maybe
  <2>2. KernelTypeOK'
    BY <1>2, <2>1 DEF SetRelationships, KInv, KernelTypeOK
  <2>3. loading' = "loaded" /\ trusted = {}
    BY <1>2 DEF SetRelationships, KInv, KnownAreFresh
  <2>4. trusted' \subseteq Known'
    BY <1>2, <2>3 DEF DoubtKnown
  <2>5. \A r \in Known' : r \in Roots /\ Fresh(r, relationships[r])'
    BY DEF Known, Fresh, Settled
  <2>6. QED
    BY <2>2, <2>3, <2>4, <2>5 DEF KnownAreFresh
<1>3. QED
  BY <1>1, <1>2 DEF Load

LEMMA HeardType ==
  ASSUME KInv, NEW D, HearAndDoubt(D), \A e \in events' : e.id \in Roots,
         relationships' \in [Roots -> Maybe(Contract)]
  PROVE  KernelTypeOK'
  BY DEF HearAndDoubt, Hear, KInv, KernelTypeOK

\* A step of which the kernel hears nothing.
LEMMA QuietStep ==
  ASSUME KInv, NEW D, HearAndDoubt(D), events' = {},
         \A r \in Roots : r \notin D => \A k : Fresh(r, k) => Fresh(r, k)'
  PROVE  KernelTypeOK' /\ KnownAreFresh'
<1>1. relationships' = relationships
  BY HearsNothing
<1>2. KernelTypeOK'
  BY <1>1, HeardType DEF KInv, KernelTypeOK
<1>3. \A r \in Roots : r \notin D => KeepsKnown(r)
  BY <1>1, QuietKeepsKnown
<1>4. QED
  BY <1>2, <1>3, KnownStep

LEMMA KInvStep ==
  ASSUME KInv, [KernelNext]_kernelVars
  PROVE  KInv'
<1>0. PInv
  BY DEF KInv
<1>1. PInv' /\ NoticesOfRoots' /\ OneRoot' /\ SeenAlone'
  BY KernelIsNext, PInvStep, RootsStep, AloneStep DEF KInv
<1>2. ASSUME NEW r \in Roots, NEW v \in Values, Write(r, v), HearAndDoubt({})
      PROVE  KernelTypeOK' /\ KnownAreFresh'
  <2>1. events' = {}
    BY <1>2 DEF Write, Notify, Quiet
  <2>2. r \in Contracts /\ v \in Maybe(Values)
    BY RootsAreContracts DEF Maybe
  <2>3. QED
    BY <1>0, <1>2, <2>1, <2>2, WriteIsFresh, QuietStep
<1>3. ASSUME NEW p \in Pushes, PushSeen(p), HearAndDoubt({}) PROVE KernelTypeOK' /\ KnownAreFresh'
  <2>1. events' = {}
    BY <1>3 DEF PushSeen, Start, Quiet
  <2>2. Overlooked = {}
    BY <1>3, NothingOverlooked DEF KInv
  <2>3. QED
    BY <1>0, <1>3, <2>1, <2>2, NothingUnknown, PushSeenIsFresh, QuietStep
<1>4. ASSUME NEW p \in Pushes, PushUnseen(p) \/ Query(p) \/ Retry(p), HearAndDoubt({})
      PROVE  KernelTypeOK' /\ KnownAreFresh'
  <2>1. events' = {}
    BY <1>4 DEF PushUnseen, Start, Query, Retry, Quiet
  <2>2. Unknown \ Named = {}
    BY NothingUnknown
  <2>3. QED
    BY <1>0, <1>4, <2>1, <2>2, PushUnseenIsFresh, QueryIsFresh, RetryIsFresh, QuietStep
<1>5. ASSUME NEW p \in Pushes, Fail(p), HearAndDoubt(rootIds[p]) PROVE KernelTypeOK' /\ KnownAreFresh'
  <2>1. events' = {}
    BY <1>5 DEF Fail, Quiet
  <2>2. QED
    BY <1>0, <1>5, <2>1, FailIsFresh, QuietStep
<1>6. ASSUME NEW p \in Pushes, Deliver(p), HearAndDoubt(Overtaken(rootIds[p]))
      PROVE  KernelTypeOK' /\ KnownAreFresh'
  <2>1. \A e \in events' : e.id \in Roots
    BY <1>6 DEF Deliver, Emit, DataEvents
  <2>2. KernelTypeOK'
    BY <1>6, <2>1, HearsAnswer, HeardType
  <2>3. QED
    BY <1>6, <2>2, AnswerKeepsKnown, KnownStep
<1>7. ASSUME NEW p \in Pushes, NEW x \in Roots, Unmatch(p, x), HearAndDoubt(Overtaken({x}))
      PROVE  KernelTypeOK' /\ KnownAreFresh'
  <2>1. \A e \in events' : e.id \in Roots
    BY <1>7 DEF Unmatch, EmitOne, Emit
  <2>2. relationships' \in [Roots -> Maybe(Contract)]
    BY <1>7, HearsUnmatch DEF KInv, KernelTypeOK, Maybe
  <2>3. KernelTypeOK'
    BY <1>7, <2>1, <2>2, HeardType
  <2>4. QED
    BY <1>7, <2>3, UnmatchKeepsKnown, KnownStep
<1>8. ASSUME UNCHANGED kernelVars PROVE KernelTypeOK' /\ KnownAreFresh'
  <2>1. UNCHANGED <<vars, trusted, relationships, loading, loaded, heard>>
    BY <1>8 DEF kernelVars, kernel
  <2>2. \A r \in Roots : KeepsKnown(r)
    BY <2>1, StutterIsFresh, QuietKeepsKnown
  <2>3. KernelTypeOK'
    BY <2>1 DEF KInv, KernelTypeOK
  <2>4. ASSUME NEW r \in trusted PROVE r \in Roots /\ Fresh(r, relationships[r])'
    BY <2>2 DEF KInv, KnownAreFresh, KeepsKnown
  <2>5. KnownAreFresh'
    BY <2>1, <2>4 DEF KInv, KnownAreFresh
  <2>6. QED
    BY <2>3, <2>5
<1>9. ASSUME NEW p \in Pushes, PushStep(p) PROVE KernelTypeOK' /\ KnownAreFresh'
  BY <1>3, <1>4, <1>5, <1>6, <1>7, <1>9 DEF PushStep
<1>10. KernelTypeOK' /\ KnownAreFresh'
  BY <1>2, <1>8, <1>9, LoadStep DEF KernelNext
<1>11. QED
  BY <1>1, <1>10 DEF KInv

LEMMA KInvInit == KernelInit => KInv
<1> SUFFICES ASSUME KernelInit PROVE KInv
  OBVIOUS
<1>1. PInv
  BY PInvInit DEF KernelInit
<1>2. NoContracts \in [Roots -> Maybe(Contract)]
  BY DEF NoContracts, Maybe
<1>3. KernelTypeOK
  BY <1>2 DEF KernelInit, KernelTypeOK
<1>4. NoticesOfRoots /\ OneRoot /\ SeenAlone
  BY RootsAreContracts DEF KernelInit, Init, NoticesOfRoots, OneRoot, SeenAlone
<1>5. KnownAreFresh
  BY DEF KernelInit, KnownAreFresh
<1>6. QED
  BY <1>1, <1>3, <1>4, <1>5 DEF KInv

\* A push is about one relationship, and whatever the kernel does not know of a trusted
\* relationship is on its way to it, in every behaviour.
THEOREM KernelInvariance == KernelSpec => []KInv
  BY KInvInit, KInvStep, PTL DEF KernelSpec

\* What the handler of the stream makes of the events are relationships
\* (kernel.ts:520-594).
THEOREM KernelTypeCorrectness == KernelSpec => []KernelTypeOK
<1>1. KInv => KernelTypeOK
  BY DEF KInv
<1>2. QED
  BY <1>1, KernelInvariance, PTL

\* The kernel knows every trusted relationship as a query would find it whenever the
\* stream is at rest: what it is told takes the place of what it loaded, in an order
\* that leaves the latest answer (kernel.ts:500-547).
THEOREM RelationshipsStayRight == KernelSpec => []RelationshipsAreRight
<1>1. KInv => RelationshipsAreRight
  BY NothingOnItsWay DEF KInv, KnownAreFresh, RelationshipsAreRight
<1>2. QED
  BY <1>1, KernelInvariance, PTL
=============================================================================
