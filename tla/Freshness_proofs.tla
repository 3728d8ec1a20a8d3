--------------------------- MODULE Freshness_proofs ---------------------------
(***************************************************************************)
(* Whenever a stream is at rest, its subscriber is right about every root  *)
(* that is still trusted, for any number of roots, leaves, notifications   *)
(* and concurrent pushes.                                                  *)
(*                                                                         *)
(* The invariant says what makes up for a difference between what the      *)
(* subscriber knows of a trusted root and what a query would answer: a     *)
(* notification on its way that concerns the root, a push that will still  *)
(* query it, or one that has queried it and has the current answer.        *)
(***************************************************************************)
EXTENDS Freshness, Streams_proofs, SequenceTheorems

\* What push q will tell of r, if it will.
Told(q, r) == IF Unmatching(q) THEN None ELSE contracts[q][r]

\* Push q, which is not a query of the subscriber, will tell of r.
Pushing(q, r) == InHand(q, r) /\ stage[q] # "fetched"

\* A notification that makes the stream query r.
Concerns(n, r) ==
  IF n.link THEN TraversesLinks /\ n.id = r
  ELSE n.id = r \/ (TraversesLinks /\ <<r, n.id>> \in links)

Notified(r) == \E i \in DOMAIN wire : Concerns(wire[i], r)

\* Push p will query r, or has and does not tell of it, although others matched.
AsksAbout(p, r) ==
  /\ r \in rootIds[p]
  /\ \/ stage[p] = "waiting"
     \/ stage[p] = "answered" /\ contracts[p][r] = None /\ ~Unmatching(p)

\* Two pushes will tell of r, and r will be doubted; one will, and is right; or the
\* answer is known and nothing else will be told.
Settled(r, known) ==
  \/ \E p, q \in Pushes : p # q /\ Pushing(p, r) /\ Pushing(q, r)
  \/ \E p \in Pushes : Pushing(p, r) /\ Told(p, r) = Answer(r)
  \/ known = Answer(r) /\ \A q \in Pushes : InHand(q, r) => Told(q, r) = Answer(r)

\* Whatever makes 'known' differ from the answer about r is on its way.
Fresh(r, known) == Notified(r) \/ (\E p \in Pushes : AsksAbout(p, r)) \/ Settled(r, known)

TrustedAreFresh == trusted \subseteq Roots /\ \A r \in trusted : Fresh(r, view[r])

\* A push has contracts that it has asked for only.
IsAsked(p) ==
  /\ \A r \in Roots : contracts[p][r] # None => r \in rootIds[p]
  /\ stage[p] = "idle" => rootIds[p] = {}
  /\ stage[p] \in {"waiting", "unmatching"} => contracts[p] = NoContracts

AnswersAreAsked == \A p \in Pushes : IsAsked(p)

\* The contract of a deletion on its way has no row, or another notification follows.
IsGone(i) ==
  ~wire[i].link /\ wire[i].type = "delete" =>
    \/ rows[wire[i].id] = None
    \/ \E j \in DOMAIN wire : j > i /\ ~wire[j].link /\ wire[j].id = wire[i].id

DeletedAreGone == \A i \in DOMAIN wire : IsGone(i)

\* What makes pushes reliable, whatever is done with what they tell.
PInv == IInv /\ AnswersAreAsked /\ DeletedAreGone

FInv == PInv /\ TrustedAreFresh

-----------------------------------------------------------------------------
\* The notifications.

\* The roots that a change of c concerns as a leaf are known if c is in their trees.
LEMMA UnknownParents ==
  ASSUME TypeOK, NEW n, Received(n), NEW r \in Roots, <<r, n.id>> \in links
  PROVE  /\ r \in seen[n.id] \/ r \in Unknown
         /\ r = n.id \/ r \in Bereaved
<1>1. n.id \in Leaves /\ n.id \in Named /\ Named = {n.id}
  BY DEF TypeOK, Named, Received
<1>2. r \in Parents(n.id)
  BY DEF Parents
<1>3. r \in seen[n.id] \/ r \in Unknown
  BY <1>1, <1>2 DEF Unknown
<1>4. r \in UNION {Parents(l) : l \in Named \cap Leaves}
  BY <1>1, <1>2
<1>5. ASSUME r # n.id
      PROVE  r \in Bereaved
  <2>1. r \notin Named
    BY <1>1, <1>5
  <2>2. QED
    BY <1>4, <2>1 DEF Bereaved
<1>6. QED
  BY <1>3, <1>5

LEMMA WireType ==
  ASSUME TypeOK
  PROVE  /\ Len(wire) \in Nat /\ DOMAIN wire = 1..Len(wire)
         /\ \A i \in DOMAIN wire : wire[i] \in Payload
<1>1. wire \in Seq(Payload)
  BY DEF TypeOK
<1>2. QED
  BY <1>1, LenProperties, ElementOfSeq

\* A notification is sent.
LEMMA Appended ==
  ASSUME TypeOK, NEW n \in Payload, wire' = Append(wire, n)
  PROVE  /\ DOMAIN wire' = 1..(Len(wire) + 1) /\ wire'[Len(wire) + 1] = n
         /\ \A i \in DOMAIN wire : i \in DOMAIN wire' /\ wire'[i] = wire[i]
<1>1. wire \in Seq(Payload)
  BY DEF TypeOK
<1>2. /\ Len(wire') = Len(wire) + 1 /\ wire' \in Seq(Payload)
      /\ \A i \in 1..Len(wire) : wire'[i] = wire[i]
      /\ wire'[Len(wire) + 1] = n
  BY <1>1, AppendProperties
<1>3. DOMAIN wire' = 1..Len(wire')
  BY <1>2, LenProperties
<1>4. QED
  BY <1>2, <1>3, WireType

\* A notification is received.
LEMMA Taken ==
  ASSUME TypeOK, NEW n, Received(n)
  PROVE  /\ n = wire[1] /\ 1 \in DOMAIN wire /\ Head(wire) = n
         /\ \A i \in DOMAIN wire' : i \in Nat /\ i + 1 \in DOMAIN wire /\ wire'[i] = wire[i + 1]
         /\ \A i \in DOMAIN wire : i # 1 => /\ i \in Nat /\ i - 1 \in DOMAIN wire'
                                            /\ wire'[i - 1] = wire[i]
<1>1. wire \in Seq(Payload) /\ wire # <<>> /\ wire' = Tail(wire) /\ n = Head(wire)
  BY DEF TypeOK, Received
<1>2. /\ Tail(wire) \in Seq(Payload) /\ Len(Tail(wire)) = Len(wire) - 1
      /\ \A i \in 1..Len(Tail(wire)) : Tail(wire)[i] = wire[i + 1]
  BY <1>1, HeadTailProperties
<1>3. DOMAIN wire' = 1..(Len(wire) - 1)
  BY <1>1, <1>2, LenProperties
<1>4. Len(wire) \in Nat \ {0}
  BY <1>1, EmptySeq
<1>5. n = wire[1]
  BY <1>1
<1>6. QED
  BY <1>1, <1>2, <1>3, <1>4, <1>5, WireType

\* A notification concerns roots only as far as their links are the same.
LEMMA ConcernStays ==
  ASSUME NEW r \in Roots, NEW n,
         TraversesLinks => (<<r, n.id>> \in links' <=> <<r, n.id>> \in links)
  PROVE  Concerns(n, r)' <=> Concerns(n, r)
  BY DEF Concerns

LEMMA NotifiedByAppend ==
  ASSUME TypeOK, NEW n \in Payload, wire' = Append(wire, n), NEW r \in Roots, links' = links
  PROVE  Notified(r)' <=> Notified(r) \/ Concerns(n, r)
<1>1. \A m : Concerns(m, r)' <=> Concerns(m, r)
  BY DEF Concerns
<1>2. DOMAIN wire' = DOMAIN wire \cup {Len(wire) + 1}
  BY Appended, WireType
<1>3. QED
  BY <1>1, <1>2, Appended DEF Notified

LEMMA NotifiedByTail ==
  ASSUME TypeOK, NEW n, Received(n), NEW r \in Roots, links' = links,
         Notified(r), ~Concerns(n, r)
  PROVE  Notified(r)'
<1>1. \A m : Concerns(m, r)' <=> Concerns(m, r)
  BY DEF Concerns
<1>2. PICK i \in DOMAIN wire : Concerns(wire[i], r)
  BY DEF Notified
<1>3. i # 1
  BY <1>2, Taken
<1>4. i - 1 \in DOMAIN wire' /\ wire'[i - 1] = wire[i]
  BY <1>3, Taken
<1>5. QED
  BY <1>1, <1>2, <1>4 DEF Notified

\* A deletion that is received is of a contract that is gone, or is followed by another
\* notification of the contract.
LEMMA HeadDeletion ==
  ASSUME TypeOK, DeletedAreGone, NEW n, Received(n), ~n.link, n.type = "delete"
  PROVE  rows[n.id] = None \/ Notified(n.id)'
<1>1. n = wire[1] /\ 1 \in DOMAIN wire
  BY Taken
<1>2. IsGone(1)
  BY <1>1 DEF DeletedAreGone
<1>3. SUFFICES ASSUME rows[n.id] # None PROVE Notified(n.id)'
  OBVIOUS
<1>4. PICK j \in DOMAIN wire : j > 1 /\ ~wire[j].link /\ wire[j].id = n.id
  BY <1>1, <1>2, <1>3 DEF IsGone
<1>5. j # 1
  BY <1>4, WireType
<1>6. j - 1 \in DOMAIN wire' /\ wire'[j - 1] = wire[j]
  BY <1>5, Taken
<1>7. QED
  BY <1>4, <1>6 DEF Notified, Concerns

LEMMA DeletedByTail ==
  ASSUME TypeOK, DeletedAreGone, NEW n, Received(n), rows' = rows
  PROVE  DeletedAreGone'
<1> SUFFICES ASSUME NEW i \in DOMAIN wire', ~wire'[i].link, wire'[i].type = "delete",
                    rows'[wire'[i].id] # None
             PROVE  \E j \in DOMAIN wire' : j > i /\ ~wire'[j].link /\ wire'[j].id = wire'[i].id
  BY DEF DeletedAreGone, IsGone
<1>1. i \in Nat /\ i + 1 \in DOMAIN wire /\ wire'[i] = wire[i + 1]
  BY Taken
<1>2. IsGone(i + 1)
  BY <1>1 DEF DeletedAreGone
<1>3. PICK j \in DOMAIN wire : j > i + 1 /\ ~wire[j].link /\ wire[j].id = wire'[i].id
  BY <1>1, <1>2 DEF IsGone
<1>4. j \in Nat /\ j # 1
  BY <1>1, <1>3, WireType
<1>5. j - 1 \in DOMAIN wire' /\ wire'[j - 1] = wire[j]
  BY <1>4, Taken
<1>6. j - 1 > i
  BY <1>1, <1>3, <1>4
<1>7. QED
  BY <1>3, <1>5, <1>6

LEMMA DeletedByAppend ==
  ASSUME TypeOK, DeletedAreGone, NEW n \in Payload, wire' = Append(wire, n),
         \A c \in Contracts : rows'[c] = rows[c] \/ (~n.link /\ n.id = c),
         ~n.link /\ n.type = "delete" => rows'[n.id] = None
  PROVE  DeletedAreGone'
<1>1. /\ DOMAIN wire' = 1..(Len(wire) + 1) /\ wire'[Len(wire) + 1] = n
      /\ \A i \in DOMAIN wire : i \in DOMAIN wire' /\ wire'[i] = wire[i]
  BY Appended
<1>2. Len(wire) \in Nat /\ DOMAIN wire = 1..Len(wire)
  BY WireType
<1> SUFFICES ASSUME NEW i \in DOMAIN wire', ~wire'[i].link, wire'[i].type = "delete",
                    rows'[wire'[i].id] # None
             PROVE  \E j \in DOMAIN wire' : j > i /\ ~wire'[j].link /\ wire'[j].id = wire'[i].id
  BY DEF DeletedAreGone, IsGone
<1>3. i \in DOMAIN wire /\ wire'[i] = wire[i]
  BY <1>1, <1>2
<1>4. wire[i].id \in Contracts
  BY <1>3, WireType DEF Payload
<1>5. CASE rows'[wire[i].id] = rows[wire[i].id]
  <2>1. IsGone(i)
    BY <1>3 DEF DeletedAreGone
  <2>2. PICK j \in DOMAIN wire : j > i /\ ~wire[j].link /\ wire[j].id = wire[i].id
    BY <1>3, <1>5, <2>1 DEF IsGone
  <2>3. QED
    BY <1>1, <1>3, <2>2
<1>6. CASE ~n.link /\ n.id = wire[i].id
  <2>1. Len(wire) + 1 \in DOMAIN wire' /\ Len(wire) + 1 > i
    BY <1>1, <1>2, <1>3
  <2>2. QED
    BY <1>1, <1>3, <1>6, <2>1
<1>7. QED
  BY <1>4, <1>5, <1>6

-----------------------------------------------------------------------------
\* The answers.

LEMMA AnswerValue ==
  ASSUME NEW r \in Roots, NEW ids, r \in ids
  PROVE  QueryResult(schema, ids)[r] = Answer(r)
  BY DEF Answer, QueryResult

\* An answer changes with the root, its links and the leaves that it is linked to.
LEMMA AnswerStays ==
  ASSUME NEW r \in Roots, schema' = schema, rows'[r] = rows[r],
         TraversesLinks => \A l \in Leaves : /\ <<r, l>> \in links' <=> <<r, l>> \in links
                                             /\ <<r, l>> \in links => rows'[l] = rows[l]
  PROVE  Answer(r)' = Answer(r)
<1>1. \A l \in Leaves : Leaf(schema, r, l)' = Leaf(schema, r, l)
  BY DEF Leaf
<1>2. Matches(schema, r)' <=> Matches(schema, r)
  BY <1>1 DEF Matches
<1> DEFINE L == [l \in Leaves |-> Leaf(schema, r, l)]
<1>3. L' = L
  BY <1>1
<1>4. Answer(r) = IF Matches(schema, r) THEN [value |-> rows[r], leaves |-> L] ELSE None
  BY DEF Answer, QueryResult
<1>5. Answer(r)' = IF Matches(schema, r)' THEN [value |-> rows'[r], leaves |-> L'] ELSE None
  BY DEF Answer, QueryResult
<1> HIDE DEF L
<1>6. QED
  BY <1>2, <1>3, <1>4, <1>5

LEMMA NoRowNoAnswer ==
  ASSUME TypeOK, NEW r \in Roots, rows[r] = None
  PROVE  Answer(r) = None
<1>1. None \notin schema
  BY StreamAssumption DEF TypeOK
<1>2. ~Matches(schema, r)
  BY <1>1 DEF Matches
<1>3. QED
  BY <1>2 DEF Answer, QueryResult

-----------------------------------------------------------------------------
\* The pushes.

\* A step is the same to push q.
IsUntouched(q) ==
  /\ stage'[q] = stage[q] /\ rootIds'[q] = rootIds[q]
  /\ retries'[q] = retries[q] /\ contracts'[q] = contracts[q]

\* A step is the same to push q as far as root r goes.
SameFor(q, r) ==
  /\ InHand(q, r)' <=> InHand(q, r)
  /\ Pushing(q, r)' <=> Pushing(q, r)
  /\ InHand(q, r) => Told(q, r)' = Told(q, r)
  /\ AsksAbout(q, r)' <=> AsksAbout(q, r)

LEMMA UntouchedIsSame ==
  ASSUME NEW q \in Pushes, NEW r \in Roots, IsUntouched(q)
  PROVE  SameFor(q, r)
<1>1. Unmatching(q)' <=> Unmatching(q)
  BY DEF IsUntouched, Unmatching, NoContracts
<1>2. InHand(q, r)' <=> InHand(q, r)
  BY <1>1 DEF IsUntouched, InHand
<1>3. QED
  BY <1>1, <1>2 DEF IsUntouched, SameFor, Pushing, Told, AsksAbout

LEMMA NotAskedIsSame ==
  ASSUME NEW q \in Pushes, NEW r \in Roots, r \notin rootIds[q], r \notin rootIds'[q]
  PROVE  SameFor(q, r)
  BY DEF SameFor, InHand, Pushing, AsksAbout

\* A root stays fresh as long as neither its answer nor what is known of it changes,
\* and no push starts or stops to tell of it.
LEMMA Carry ==
  ASSUME NEW r \in Roots, NEW k, Fresh(r, k), Answer(r)' = Answer(r),
         Notified(r) => Notified(r)',
         \A q \in Pushes : SameFor(q, r)
  PROVE  Fresh(r, k)'
<1>1. CASE Notified(r)
  BY <1>1 DEF Fresh
<1>2. CASE \E p \in Pushes : AsksAbout(p, r)
  BY <1>2 DEF Fresh, SameFor
<1>3. CASE \E p, q \in Pushes : p # q /\ Pushing(p, r) /\ Pushing(q, r)
  BY <1>3 DEF Fresh, Settled, SameFor
<1>4. CASE \E p \in Pushes : Pushing(p, r) /\ Told(p, r) = Answer(r)
  <2>1. PICK p \in Pushes : Pushing(p, r) /\ Told(p, r) = Answer(r)
    BY <1>4
  <2>2. InHand(p, r)
    BY <2>1 DEF Pushing
  <2>3. Pushing(p, r)' /\ Told(p, r)' = Answer(r)'
    BY <2>1, <2>2 DEF SameFor
  <2>4. QED
    BY <2>3 DEF Fresh, Settled
<1>5. CASE k = Answer(r) /\ \A q \in Pushes : InHand(q, r) => Told(q, r) = Answer(r)
  BY <1>5 DEF Fresh, Settled, SameFor
<1>6. QED
  BY <1>1, <1>2, <1>3, <1>4, <1>5 DEF Fresh, Settled

\* A push tells of r, and no other one will: it is right, unless r will be queried again.
LEMMA Tells ==
  ASSUME NEW r \in Roots, NEW k, Fresh(r, k), Answer(r)' = Answer(r),
         Notified(r) => Notified(r)',
         NEW p \in Pushes, InHand(p, r), NEW told, told = Told(p, r),
         \A q \in Pushes \ {p} : SameFor(q, r), ~AsksAbout(p, r),
         \A q \in Pushes : ~InHand(q, r)'
  PROVE  Fresh(r, told)'
<1>1. CASE Notified(r)
  BY <1>1 DEF Fresh
<1>2. CASE \E q \in Pushes : AsksAbout(q, r)
  BY <1>2 DEF Fresh, SameFor
<1>3. CASE Settled(r, k)
  <2>1. \A q \in Pushes \ {p} : ~InHand(q, r)
    BY DEF SameFor
  <2>2. Told(p, r) = Answer(r)
    BY <1>3, <2>1 DEF Settled, Pushing
  <2>3. QED
    BY <2>2 DEF Fresh, Settled
<1>4. QED
  BY <1>1, <1>2, <1>3 DEF Fresh

-----------------------------------------------------------------------------
\* Steps of the database.

LEMMA WriteIsFresh ==
  ASSUME PInv, NEW c \in Contracts, NEW v \in Maybe(Values), Write(c, v), NEW r \in Roots, NEW k, Fresh(r, k)
  PROVE  Fresh(r, k)'
<1> USE DEF PInv, IInv
<1>1. PICK n \in Payload : wire' = Append(wire, n) /\ ~n.link /\ n.id = c
  <2>1. PICK t \in {"insert", "update", "delete"} : Notify(c, t, FALSE)
    BY DEF Write
  <2>2. [id |-> c, type |-> t, link |-> FALSE] \in Payload
    BY DEF Payload
  <2>3. QED
    BY <2>1, <2>2 DEF Notify
<1>2. /\ UNCHANGED <<links, schema, stage, rootIds, retries, contracts, view>>
      /\ rows' = [rows EXCEPT ![c] = v]
  BY DEF Write, Notify, Quiet, push
<1>3. CASE Concerns(n, r)
  BY <1>1, <1>2, <1>3, NotifiedByAppend DEF Fresh
<1>4. CASE ~Concerns(n, r)
  <2>1. \A x \in Contracts : x # c => rows'[x] = rows[x]
    BY <1>2 DEF TypeOK
  <2>2. r # c /\ (TraversesLinks => <<r, c>> \notin links)
    BY <1>1, <1>4 DEF Concerns
  <2>3. Answer(r)' = Answer(r)
    BY <1>2, <2>1, <2>2, AnswerStays, RootsAreContracts
  <2>4. Notified(r) => Notified(r)'
    BY <1>1, <1>2, NotifiedByAppend
  <2>5. \A q \in Pushes : SameFor(q, r)
    BY <1>2, UntouchedIsSame DEF IsUntouched
  <2>6. QED
    BY <1>2, <2>3, <2>4, <2>5, Carry
<1>5. QED
  BY <1>3, <1>4

LEMMA WriteLinkIsFresh ==
  ASSUME PInv, NEW x \in Roots, NEW l \in Leaves, WriteLink(x, l), NEW r \in Roots, NEW k, Fresh(r, k)
  PROVE  Fresh(r, k)'
<1> USE DEF PInv, IInv
<1>1. PICK n \in Payload : wire' = Append(wire, n)
  BY RootsAreContracts DEF WriteLink, Notify, Payload
<1>2. UNCHANGED <<rows, links, schema, stage, rootIds, retries, contracts, view>>
  BY DEF WriteLink, Notify, Quiet, push
<1>3. Answer(r)' = Answer(r)
  BY <1>2, AnswerStays
<1>4. Notified(r) => Notified(r)'
  BY <1>1, <1>2, NotifiedByAppend
<1>5. \A q \in Pushes : SameFor(q, r)
  BY <1>2, UntouchedIsSame DEF IsUntouched
<1>6. QED
  BY <1>2, <1>3, <1>4, <1>5, Carry

LEMMA LinkLandsIsFresh ==
  ASSUME PInv, NEW x \in Roots, NEW l \in Leaves, LinkLands(x, l),
         NEW r \in Roots, NEW k, Fresh(r, k), r \notin TooLate(x)
  PROVE  Fresh(r, k)'
<1> USE DEF PInv, IInv
<1>1. /\ UNCHANGED <<rows, wire, schema, stage, rootIds, retries, contracts, view>>
      /\ \A m \in Leaves : r # x => (<<r, m>> \in links' <=> <<r, m>> \in links)
  BY DEF LinkLands, Quiet, push
<1>2. \A q \in Pushes : SameFor(q, r)
  BY <1>1, UntouchedIsSame DEF IsUntouched
<1>3. CASE r = x /\ TraversesLinks
  <2>1. CASE \E i \in DOMAIN wire : wire[i].link /\ wire[i].id = r
    BY <1>1, <1>3, <2>1 DEF Fresh, Notified, Concerns
  <2>2. CASE \E p \in Pushes : stage[p] = "waiting" /\ r \in rootIds[p]
    BY <1>1, <2>2 DEF Fresh, AsksAbout
  <2>3. QED
    BY <1>3, <2>1, <2>2 DEF TooLate
<1>4. CASE r # x \/ ~TraversesLinks
  <2>1. Answer(r)' = Answer(r)
    BY <1>1, <1>4, AnswerStays
  <2>2. \A i \in DOMAIN wire : Concerns(wire[i], r) => Concerns(wire[i], r)'
    BY <1>1, <1>4 DEF Concerns, LinkLands
  <2>3. Notified(r) => Notified(r)'
    BY <1>1, <2>2 DEF Notified
  <2>4. QED
    BY <1>1, <1>2, <2>1, <2>3, Carry
<1>5. QED
  BY <1>3, <1>4

-----------------------------------------------------------------------------
\* Steps of the stream.

LEMMA StartIsFresh ==
  ASSUME PInv, NEW p \in Pushes, NEW n, NEW ids, Received(n), Start(p, n, ids),
         NEW r \in Roots, NEW k, Fresh(r, k), Concerns(n, r) => r \in ids
  PROVE  Fresh(r, k)'
<1> USE DEF PInv, IInv
<1>1. /\ stage[p] = "idle" /\ rootIds[p] = {}
      /\ UNCHANGED <<rows, links, schema, contracts, view>>
      /\ stage' = [stage EXCEPT ![p] = "waiting"]
      /\ rootIds' = [rootIds EXCEPT ![p] = ids]
      /\ retries' = [retries EXCEPT ![p] = 1]
  BY DEF Start, Quiet, db, AnswersAreAsked, IsAsked
<1>2. contracts' = [contracts EXCEPT ![p] = contracts[p]]
  BY <1>1 DEF TypeOK
<1>3. /\ stage'[p] = "waiting" /\ rootIds'[p] = ids
      /\ \A q \in Pushes \ {p} : IsUntouched(q)
  BY <1>1, <1>2 DEF TypeOK, IsUntouched
<1>4. CASE r \in ids
  BY <1>3, <1>4 DEF Fresh, AsksAbout
<1>5. CASE r \notin ids
  <2>1. \A q \in Pushes : SameFor(q, r)
    BY <1>1, <1>3, <1>5, UntouchedIsSame, NotAskedIsSame
  <2>2. Answer(r)' = Answer(r)
    BY <1>1, AnswerStays
  <2>3. Notified(r) => Notified(r)'
    BY <1>1, <1>5, NotifiedByTail
  <2>4. QED
    BY <1>1, <2>1, <2>2, <2>3, Carry
<1>6. QED
  BY <1>4, <1>5

LEMMA PushLinkIsFresh ==
  ASSUME PInv, NEW p \in Pushes, PushLink(p), NEW r \in Roots, NEW k, Fresh(r, k)
  PROVE  Fresh(r, k)'
<1>1. PICK n \in Payload : Received(n) /\ n.link /\ TraversesLinks /\ Start(p, n, {n.id} \cap Roots)
  BY DEF PushLink
<1>2. Concerns(n, r) => r \in {n.id} \cap Roots
  BY <1>1 DEF Concerns
<1>3. QED
  BY <1>1, <1>2, StartIsFresh

LEMMA PushUnseenIsFresh ==
  ASSUME PInv, NEW p \in Pushes, PushUnseen(p), NEW r \in Roots, NEW k, Fresh(r, k),
         r \notin Unknown \ Named
  PROVE  Fresh(r, k)'
<1>1. PICK n \in Payload : Received(n) /\ ~n.link /\ seen[n.id] = {} /\ Start(p, n, {n.id})
  BY DEF PushUnseen
<1>2. n.id = r \/ <<r, n.id>> \notin links
  BY <1>1, UnknownParents DEF PInv, IInv, Named, Received
<1>3. Concerns(n, r) => r \in {n.id}
  BY <1>1, <1>2 DEF Concerns
<1>4. QED
  BY <1>1, <1>3, StartIsFresh

LEMMA PushSeenIsFresh ==
  ASSUME PInv, NEW p \in Pushes, PushSeen(p), NEW r \in Roots, NEW k, Fresh(r, k),
         r \notin Unknown \cup Overlooked
  PROVE  Fresh(r, k)'
<1>1. PICK n \in Payload : Received(n) /\ ~n.link /\ seen[n.id] # {} /\ Start(p, n, seen[n.id])
  BY DEF PushSeen
<1>2. ASSUME Concerns(n, r) PROVE r \in seen[n.id]
  <2>1. CASE n.id = r
    BY <1>1, <2>1 DEF Overlooked, Named, Received
  <2>2. CASE <<r, n.id>> \in links
    BY <1>1, <2>2, UnknownParents DEF PInv, IInv
  <2>3. QED
    BY <1>1, <1>2, <2>1, <2>2 DEF Concerns
<1>3. QED
  BY <1>1, <1>2, StartIsFresh

LEMMA PushDeleteIsFresh ==
  ASSUME PInv, PushDelete, NEW r \in Roots, NEW k, k = view[r], Fresh(r, k),
         r \notin Overtaken(Named) \cup Bereaved
  PROVE  Fresh(r, view[r])'
<1> USE DEF PInv, IInv
<1>1. PICK n \in Payload : /\ Received(n) /\ ~n.link /\ RootDeleted(n)
                           /\ EmitOne(n.id, "delete")
                           /\ UNCHANGED <<db, schema, push>>
  BY DEF PushDelete
<1>2. n.id \in Roots /\ n.type = "delete" /\ Named = {n.id}
  BY <1>1 DEF Payload, RootDeleted, TypeOK, Named, Received
<1>3. view' = [view EXCEPT ![n.id] = None]
  BY <1>1, <1>2, EmitOneEffect
<1>4. UNCHANGED <<rows, links, schema, stage, rootIds, retries, contracts>>
  BY <1>1 DEF db, push
<1>5. \A q \in Pushes : SameFor(q, r)
  BY <1>4, UntouchedIsSame DEF IsUntouched
<1>6. Answer(r)' = Answer(r)
  BY <1>4, AnswerStays
<1>7. CASE r = n.id
  <2>1. \A q \in Pushes : ~InHand(q, r)'
    BY <1>2, <1>7 DEF Overtaken
  <2>2. view'[r] = None
    BY <1>3, <1>7 DEF TypeOK
  <2>3. rows[r] = None \/ Notified(r)'
    BY <1>1, <1>2, <1>7, HeadDeletion
  <2>4. rows[r] = None => Answer(r)' = None
    BY <1>6, NoRowNoAnswer
  <2>5. QED
    BY <2>1, <2>2, <2>3, <2>4 DEF Fresh, Settled
<1>8. CASE r # n.id
  <2>1. view'[r] = view[r]
    BY <1>3, <1>8 DEF TypeOK
  <2>2. ~Concerns(n, r)
    BY <1>1, <1>2, <1>8, UnknownParents DEF Concerns
  <2>3. Notified(r) => Notified(r)'
    BY <1>1, <1>4, <2>2, NotifiedByTail
  <2>4. QED
    BY <1>5, <1>6, <2>1, <2>3, Carry
<1>9. QED
  BY <1>7, <1>8

LEMMA PushNothingIsFresh ==
  ASSUME PInv, PushNothing, NEW r \in Roots, NEW k, k = view[r], Fresh(r, k), r \notin Overtaken(Named \cap Roots),
         r \notin Unknown
  PROVE  Fresh(r, view[r])'
<1> USE DEF PInv, IInv
<1>1. PICK n \in Payload : /\ Received(n)
                           /\ IF n.link THEN ~TraversesLinks
                              ELSE seen[n.id] = {} /\ (n.type = "delete" \/ n.id \notin Roots)
                           /\ UNCHANGED <<db, schema, push, view>>
  BY DEF PushNothing, Quiet
<1>2. UNCHANGED <<rows, links, schema, stage, rootIds, retries, contracts, view>> /\ Named = {n.id}
  BY <1>1 DEF db, push, Named, Received
<1>3. \A q \in Pushes : SameFor(q, r)
  BY <1>2, UntouchedIsSame DEF IsUntouched
<1>4. Answer(r)' = Answer(r)
  BY <1>2, AnswerStays
<1>5. CASE ~Concerns(n, r)
  <2>1. Notified(r) => Notified(r)'
    BY <1>1, <1>2, <1>5, NotifiedByTail
  <2>2. QED
    BY <1>2, <1>3, <1>4, <2>1, Carry
<1>6. CASE Concerns(n, r)
  <2>1. ~n.link /\ seen[n.id] = {} /\ (n.id = r \/ (TraversesLinks /\ <<r, n.id>> \in links))
    BY <1>1, <1>6 DEF Concerns
  <2>2. n.id = r
    <3>1. SUFFICES ASSUME <<r, n.id>> \in links PROVE FALSE
      BY <2>1
    <3>2. QED
      BY <1>1, <2>1, <3>1, UnknownParents
  <2>3. \A q \in Pushes : ~InHand(q, r)'
    BY <1>2, <2>2 DEF Overtaken
  <2>4. view'[r] = None
    BY <1>2, <2>1, <2>2 DEF SeenIsHeld
  <2>5. rows[r] = None \/ Notified(r)'
    BY <1>1, <2>1, <2>2, HeadDeletion
  <2>6. rows[r] = None => Answer(r)' = None
    BY <1>4, NoRowNoAnswer
  <2>7. QED
    BY <2>3, <2>4, <2>5, <2>6 DEF Fresh, Settled
<1>7. QED
  BY <1>5, <1>6

LEMMA FinishEffect ==
  ASSUME TypeOK, NEW p \in Pushes, Finish(p)
  PROVE  rootIds'[p] = {} /\ \A q \in Pushes \ {p} : IsUntouched(q)
  BY DEF TypeOK, Finish, IsUntouched

LEMMA QueryIsFresh ==
  ASSUME PInv, NEW p \in Pushes, Query(p), NEW r \in Roots, NEW k, Fresh(r, k)
  PROVE  Fresh(r, k)'
<1> USE DEF PInv, IInv
<1>1. /\ UNCHANGED <<rows, links, wire, schema, view>>
      /\ stage'[p] = "answered" /\ rootIds'[p] = rootIds[p] /\ retries'[p] = retries[p]
      /\ contracts'[p] = QueryResult(schema, rootIds[p])
      /\ \A q \in Pushes \ {p} : IsUntouched(q)
  BY DEF Query, Quiet, db, TypeOK, IsUntouched
<1>2. Answer(r)' = Answer(r)
  BY <1>1, AnswerStays
<1>3. CASE r \notin rootIds[p]
  <2>1. \A q \in Pushes : SameFor(q, r)
    BY <1>1, <1>3, UntouchedIsSame, NotAskedIsSame
  <2>2. Notified(r) => Notified(r)'
    BY <1>1 DEF Notified, Concerns
  <2>3. QED
    BY <1>1, <1>2, <2>1, <2>2, Carry
<1>4. CASE r \in rootIds[p]
  <2>1. contracts'[p][r] = Answer(r)'
    BY <1>1, <1>2, <1>4, AnswerValue
  <2>2. CASE Unmatching(p)'
    <3>1. contracts'[p] = NoContracts
      BY <1>1, <2>2 DEF Unmatching, NoContracts
    <3>2. Told(p, r)' = Answer(r)'
      BY <2>1, <2>2, <3>1 DEF Told, NoContracts
    <3>3. Pushing(p, r)'
      BY <1>1, <1>4, <2>2 DEF Pushing, InHand
    <3>4. QED
      BY <3>2, <3>3 DEF Fresh, Settled
  <2>3. CASE ~Unmatching(p)' /\ contracts'[p][r] = None
    BY <1>1, <1>4, <2>3 DEF Fresh, AsksAbout
  <2>4. CASE ~Unmatching(p)' /\ contracts'[p][r] # None
    <3>1. Told(p, r)' = Answer(r)'
      BY <2>1, <2>4 DEF Told
    <3>2. Pushing(p, r)'
      BY <1>1, <1>4, <2>4 DEF Pushing, InHand
    <3>3. QED
      BY <3>1, <3>2 DEF Fresh, Settled
  <2>5. QED
    BY <2>2, <2>3, <2>4
<1>5. QED
  BY <1>3, <1>4

LEMMA RetryIsFresh ==
  ASSUME PInv, NEW p \in Pushes, Retry(p), NEW r \in Roots, NEW k, Fresh(r, k)
  PROVE  Fresh(r, k)'
<1> USE DEF PInv, IInv
<1>1. /\ UNCHANGED <<rows, links, wire, schema, view>>
      /\ stage'[p] = "waiting" /\ rootIds'[p] = rootIds[p]
      /\ \A q \in Pushes \ {p} : IsUntouched(q)
  BY DEF Retry, Quiet, db, TypeOK, IsUntouched
<1>2. CASE r \in rootIds[p]
  BY <1>1, <1>2 DEF Fresh, AsksAbout
<1>3. CASE r \notin rootIds[p]
  <2>1. \A q \in Pushes : SameFor(q, r)
    BY <1>1, <1>3, UntouchedIsSame, NotAskedIsSame
  <2>2. Notified(r) => Notified(r)'
    BY <1>1 DEF Notified, Concerns
  <2>3. Answer(r)' = Answer(r)
    BY <1>1, AnswerStays
  <2>4. QED
    BY <1>1, <2>1, <2>2, <2>3, Carry
<1>4. QED
  BY <1>2, <1>3

LEMMA FailIsFresh ==
  ASSUME PInv, NEW p \in Pushes, Fail(p), NEW r \in Roots, NEW k, Fresh(r, k), r \notin rootIds[p]
  PROVE  Fresh(r, k)'
<1> USE DEF PInv, IInv
<1>1. UNCHANGED <<rows, links, wire, schema, view>> /\ Finish(p)
  BY DEF Fail, Quiet, db
<1>2. \A q \in Pushes : SameFor(q, r)
  BY <1>1, FinishEffect, UntouchedIsSame, NotAskedIsSame
<1>3. Notified(r) => Notified(r)'
  BY <1>1 DEF Notified, Concerns
<1>4. Answer(r)' = Answer(r)
  BY <1>1, AnswerStays
<1>5. QED
  BY <1>1, <1>2, <1>3, <1>4, Carry

LEMMA DeliverIsFresh ==
  ASSUME PInv, NEW p \in Pushes, Deliver(p), NEW r \in Roots, NEW k, Fresh(r, k),
         NEW told, told = IF contracts[p][r] # None THEN contracts[p][r] ELSE k,
         r \notin {x \in rootIds[p] : contracts[p][x] = None}, r \notin Overtaken(rootIds[p])
  PROVE  Fresh(r, told)'
<1> USE DEF PInv, IInv
<1>1. /\ UNCHANGED <<rows, links, wire, schema>> /\ Finish(p)
      /\ stage[p] = "answered" /\ contracts[p] # NoContracts
  BY DEF Deliver, db
<1>3. Answer(r)' = Answer(r)
  BY <1>1, AnswerStays
<1>4. Notified(r) => Notified(r)'
  BY <1>1 DEF Notified, Concerns
<1>5. rootIds'[p] = {} /\ \A q \in Pushes \ {p} : SameFor(q, r)
  BY <1>1, FinishEffect, UntouchedIsSame
<1>6. CASE r \in rootIds[p]
  <2>1. contracts[p][r] # None
    BY <1>6
  <2>2. InHand(p, r) /\ ~AsksAbout(p, r) /\ told = Told(p, r)
    BY <1>1, <1>6, <2>1 DEF InHand, AsksAbout, Told, Unmatching
  <2>3. \A q \in Pushes : ~InHand(q, r)'
    BY <1>6 DEF Overtaken
  <2>4. QED
    BY <1>3, <1>4, <1>5, <2>2, <2>3, Tells
<1>7. CASE r \notin rootIds[p]
  <2>1. contracts[p][r] = None
    BY <1>7 DEF AnswersAreAsked, IsAsked
  <2>2. SameFor(p, r)
    BY <1>5, <1>7, NotAskedIsSame
  <2>3. QED
    BY <1>3, <1>4, <1>5, <2>1, <2>2, Carry
<1>8. QED
  BY <1>6, <1>7

LEMMA UnmatchIsFresh ==
  ASSUME PInv, NEW p \in Pushes, NEW x \in Roots, Unmatch(p, x), NEW r \in Roots, NEW k, Fresh(r, k),
         NEW told, told = IF r = x THEN None ELSE k,
         r \notin Overtaken({x})
  PROVE  Fresh(r, told)'
<1> USE DEF PInv, IInv
<1>1. /\ UNCHANGED <<rows, links, wire, schema>> /\ Unmatching(p) /\ x \in rootIds[p]
      /\ stage[p] \in {"unmatching", "answered"}
  BY DEF Unmatch, db, Unmatching
<1>3. Answer(r)' = Answer(r)
  BY <1>1, AnswerStays
<1>4. Notified(r) => Notified(r)'
  BY <1>1 DEF Notified, Concerns
<1>5. \A q \in Pushes \ {p} : IsUntouched(q)
  <2>1. CASE rootIds[p] = {x}
    BY <2>1, FinishEffect DEF Unmatch
  <2>2. CASE rootIds[p] # {x}
    BY <2>2 DEF Unmatch, TypeOK, IsUntouched
  <2>3. QED
    BY <2>1, <2>2
<1>6. \A q \in Pushes \ {p} : SameFor(q, r)
  BY <1>5, UntouchedIsSame
<1>7. ~AsksAbout(p, r) /\ stage[p] # "fetched"
  BY <1>1 DEF AsksAbout
<1>8. CASE r = x
  <2>1. InHand(p, r) /\ told = Told(p, r)
    BY <1>1, <1>8 DEF InHand, Told
  <2>2. \A q \in Pushes : ~InHand(q, r)'
    BY <1>8 DEF Overtaken
  <2>3. QED
    BY <1>3, <1>4, <1>6, <1>7, <2>1, <2>2, Tells
<1>9. CASE r # x
  <2>2. SameFor(p, r)
    <3>1. CASE rootIds[p] = {x}
      <4>1. r \notin rootIds[p] /\ rootIds'[p] = {}
        BY <1>9, <3>1, FinishEffect DEF Unmatch
      <4>2. QED
        BY <4>1, NotAskedIsSame
    <3>2. CASE rootIds[p] # {x}
      <4>1. stage'[p] = "unmatching" /\ (r \in rootIds'[p] <=> r \in rootIds[p])
        BY <1>9, <3>2 DEF Unmatch, TypeOK
      <4>2. Unmatching(p)'
        BY <4>1 DEF Unmatching
      <4>3. QED
        BY <1>1, <1>7, <4>1, <4>2 DEF SameFor, InHand, Pushing, Told, AsksAbout
    <3>3. QED
      BY <3>1, <3>2
  <2>3. QED
    BY <1>3, <1>4, <1>6, <1>9, <2>2, Carry
<1>10. QED
  BY <1>8, <1>9

LEMMA DatasetIsFresh ==
  ASSUME PInv, NEW p \in Pushes, Dataset(p), NEW r \in Roots, NEW k, Fresh(r, k),
         NEW told, told = IF contracts[p][r] # None THEN contracts[p][r] ELSE k
  PROVE  Fresh(r, told)'
<1> USE DEF PInv, IInv
<1>1. /\ UNCHANGED <<rows, links, wire, schema>> /\ Finish(p)
      /\ stage[p] = "fetched"
  BY DEF Dataset, db
<1>3. Answer(r)' = Answer(r)
  BY <1>1, AnswerStays
<1>4. Notified(r) => Notified(r)'
  BY <1>1 DEF Notified, Concerns
<1>5. rootIds'[p] = {} /\ \A q \in Pushes \ {p} : SameFor(q, r)
  BY <1>1, FinishEffect, UntouchedIsSame
<1>6. ~Unmatching(p) /\ ~AsksAbout(p, r) /\ ~Pushing(p, r)
  BY <1>1 DEF Unmatching, AsksAbout, Pushing
<1>7. ~InHand(p, r)' /\ ~AsksAbout(p, r)' /\ ~Pushing(p, r)'
  BY <1>5 DEF InHand, AsksAbout, Pushing
<1>8. CASE contracts[p][r] = None
  <2>1. ~InHand(p, r)
    BY <1>6, <1>8 DEF InHand
  <2>2. SameFor(p, r)
    BY <1>6, <1>7, <2>1 DEF SameFor
  <2>3. QED
    BY <1>3, <1>4, <1>5, <1>8, <2>2, Carry
<1>9. CASE contracts[p][r] # None
  <2>1. InHand(p, r) /\ Told(p, r) = told
    BY <1>1, <1>6, <1>9 DEF InHand, Told, AnswersAreAsked, IsAsked
  <2>2. CASE Notified(r) \/ \E q \in Pushes : AsksAbout(q, r)
    BY <1>4, <1>5, <1>6, <2>2 DEF Fresh, SameFor
  <2>3. CASE \E q1, q2 \in Pushes : q1 # q2 /\ Pushing(q1, r) /\ Pushing(q2, r)
    BY <1>5, <1>6, <2>3 DEF Fresh, Settled, SameFor
  <2>4. CASE \E q \in Pushes : Pushing(q, r) /\ Told(q, r) = Answer(r)
    <3>1. PICK q \in Pushes \ {p} : Pushing(q, r) /\ Told(q, r) = Answer(r)
      BY <1>6, <2>4
    <3>2. InHand(q, r)
      BY <3>1 DEF Pushing
    <3>3. Pushing(q, r)' /\ Told(q, r)' = Answer(r)'
      BY <1>3, <1>5, <3>1, <3>2 DEF SameFor
    <3>4. QED
      BY <3>3 DEF Fresh, Settled
  <2>5. CASE \A q \in Pushes : InHand(q, r) => Told(q, r) = Answer(r)
    BY <1>3, <1>5, <1>7, <2>1, <2>5 DEF Fresh, Settled, SameFor
  <2>6. QED
    BY <2>2, <2>3, <2>4, <2>5 DEF Fresh, Settled
<1>10. QED
  BY <1>8, <1>9

LEMMA FetchIsFresh ==
  ASSUME PInv, NEW p \in Pushes, Fetch(p, schema), NEW r \in Roots, NEW k, Fresh(r, k)
  PROVE  Fresh(r, k)'
<1> USE DEF PInv, IInv
<1>1. /\ UNCHANGED <<rows, links, wire, schema, view>>
      /\ stage[p] = "idle" /\ rootIds[p] = {}
      /\ stage'[p] = "fetched" /\ rootIds'[p] = Roots
      /\ contracts'[p] = QueryResult(schema, Roots)
      /\ \A q \in Pushes \ {p} : IsUntouched(q)
  BY DEF Fetch, Quiet, db, TypeOK, IsUntouched, AnswersAreAsked, IsAsked
<1>2. Answer(r)' = Answer(r)
  BY <1>1, AnswerStays
<1>3. Notified(r) => Notified(r)'
  BY <1>1 DEF Notified, Concerns
<1>4. \A q \in Pushes \ {p} : SameFor(q, r)
  BY <1>1, UntouchedIsSame
<1>5. ~InHand(p, r) /\ ~AsksAbout(p, r) /\ ~Pushing(p, r)
  BY <1>1 DEF InHand, AsksAbout, Pushing
<1>6. Told(p, r)' = Answer(r)'
  BY <1>1, <1>2, AnswerValue DEF Told, Unmatching
<1>7. CASE Notified(r) \/ \E q \in Pushes : AsksAbout(q, r)
  BY <1>3, <1>4, <1>5, <1>7 DEF Fresh, SameFor
<1>8. CASE \E q1, q2 \in Pushes : q1 # q2 /\ Pushing(q1, r) /\ Pushing(q2, r)
  BY <1>4, <1>5, <1>8 DEF Fresh, Settled, SameFor
<1>9. CASE \E q \in Pushes : Pushing(q, r) /\ Told(q, r) = Answer(r)
  <2>1. PICK q \in Pushes \ {p} : Pushing(q, r) /\ Told(q, r) = Answer(r)
    BY <1>5, <1>9
  <2>2. InHand(q, r)
    BY <2>1 DEF Pushing
  <2>3. Pushing(q, r)' /\ Told(q, r)' = Answer(r)'
    BY <1>2, <1>4, <2>1, <2>2 DEF SameFor
  <2>4. QED
    BY <2>3 DEF Fresh, Settled
<1>10. CASE k = Answer(r) /\ \A q \in Pushes : InHand(q, r) => Told(q, r) = Answer(r)
  BY <1>1, <1>2, <1>4, <1>6, <1>10 DEF Fresh, Settled, SameFor
<1>11. QED
  BY <1>7, <1>8, <1>9, <1>10 DEF Fresh, Settled

-----------------------------------------------------------------------------
\* The other parts of the invariant.

LEMMA AskedStep ==
  ASSUME TypeOK, AnswersAreAsked, [Next]_vars
  PROVE  AnswersAreAsked'
<1>1. ASSUME NEW q \in Pushes, IsUntouched(q) PROVE IsAsked(q)'
  BY <1>1 DEF IsUntouched, AnswersAreAsked, IsAsked, NoContracts
<1>2. CASE UNCHANGED push
  BY <1>1, <1>2 DEF push, AnswersAreAsked, IsUntouched
<1>3. ASSUME NEW p \in Pushes, Finish(p) PROVE AnswersAreAsked'
  <2>1. /\ stage'[p] = "idle" /\ rootIds'[p] = {} /\ contracts'[p] = NoContracts
        /\ \A q \in Pushes \ {p} : IsUntouched(q)
    BY <1>3 DEF Finish, TypeOK, IsUntouched
  <2>2. IsAsked(p)'
    BY <2>1 DEF IsAsked, NoContracts
  <2>3. QED
    BY <1>1, <2>1, <2>2 DEF AnswersAreAsked
<1>4. ASSUME NEW p \in Pushes, NEW n, NEW ids, Start(p, n, ids) PROVE AnswersAreAsked'
  <2>1. \A r \in Roots : contracts[p][r] = None
    BY <1>4 DEF Start, AnswersAreAsked, IsAsked
  <2>2. contracts[p] = NoContracts
    BY <2>1 DEF TypeOK, NoContracts
  <2>3. /\ stage'[p] = "waiting" /\ contracts'[p] = NoContracts
        /\ \A q \in Pushes \ {p} : IsUntouched(q)
    BY <1>4, <2>2 DEF Start, TypeOK, IsUntouched
  <2>4. IsAsked(p)'
    BY <2>3 DEF IsAsked, NoContracts
  <2>5. QED
    BY <1>1, <2>3, <2>4 DEF AnswersAreAsked
<1>5. ASSUME NEW p \in Pushes, Query(p) PROVE AnswersAreAsked'
  <2>1. /\ stage'[p] = "answered" /\ rootIds'[p] = rootIds[p]
        /\ contracts'[p] = QueryResult(schema, rootIds[p])
        /\ \A q \in Pushes \ {p} : IsUntouched(q)
    BY <1>5 DEF Query, TypeOK, IsUntouched
  <2>2. IsAsked(p)'
    BY <2>1 DEF IsAsked, QueryResult
  <2>3. QED
    BY <1>1, <2>1, <2>2 DEF AnswersAreAsked
<1>6. ASSUME NEW p \in Pushes, Retry(p) PROVE AnswersAreAsked'
  <2>1. /\ stage'[p] = "waiting" /\ contracts'[p] = NoContracts
        /\ \A q \in Pushes \ {p} : IsUntouched(q)
    BY <1>6 DEF Retry, TypeOK, IsUntouched
  <2>2. IsAsked(p)'
    BY <2>1 DEF IsAsked, NoContracts
  <2>3. QED
    BY <1>1, <2>1, <2>2 DEF AnswersAreAsked
<1>7. ASSUME NEW p \in Pushes, NEW r \in Roots, Unmatch(p, r), rootIds[p] # {r}
      PROVE  AnswersAreAsked'
  <2>1. /\ stage'[p] = "unmatching" /\ contracts'[p] = contracts[p]
        /\ \A q \in Pushes \ {p} : IsUntouched(q)
    BY <1>7 DEF Unmatch, TypeOK, IsUntouched
  <2>2. contracts[p] = NoContracts
    BY <1>7 DEF Unmatch, Unmatching, AnswersAreAsked, IsAsked
  <2>3. IsAsked(p)'
    BY <2>1, <2>2 DEF IsAsked, NoContracts
  <2>4. QED
    BY <1>1, <2>1, <2>3 DEF AnswersAreAsked
<1>8. ASSUME NEW p \in Pushes, NEW s \in Schemas, Fetch(p, s) PROVE AnswersAreAsked'
  <2>1. /\ stage'[p] = "fetched" /\ rootIds'[p] = Roots
        /\ \A q \in Pushes \ {p} : IsUntouched(q)
    BY <1>8 DEF Fetch, TypeOK, IsUntouched
  <2>2. IsAsked(p)'
    BY <2>1 DEF IsAsked
  <2>3. QED
    BY <1>1, <2>1, <2>2 DEF AnswersAreAsked
<1>9. CASE Database
  BY <1>2, <1>9 DEF Database, Write, WriteLink, LinkLands, Notify
<1>10. CASE PushDelete \/ PushNothing
  BY <1>2, <1>10 DEF PushDelete, PushNothing
<1>11. ASSUME NEW p \in Pushes, PushLink(p) \/ PushSeen(p) \/ PushUnseen(p) PROVE AnswersAreAsked'
  BY <1>4, <1>11 DEF PushLink, PushSeen, PushUnseen
<1>12. ASSUME NEW p \in Pushes, Deliver(p) \/ Dataset(p) \/ Fail(p) PROVE AnswersAreAsked'
  BY <1>3, <1>12 DEF Deliver, Dataset, Fail
<1>13. ASSUME NEW p \in Pushes, NEW r \in Roots, Unmatch(p, r) PROVE AnswersAreAsked'
  BY <1>3, <1>7, <1>13 DEF Unmatch
<1>14. ASSUME NEW s \in Schemas, SetSchema(s) PROVE AnswersAreAsked'
  BY <1>2, <1>14 DEF SetSchema
<1>15. CASE UNCHANGED vars
  BY <1>2, <1>15 DEF vars
<1>16. QED
  BY <1>5, <1>6, <1>8, <1>9, <1>10, <1>11, <1>12, <1>13, <1>14, <1>15 DEF Next, Push

LEMMA DeletedStep ==
  ASSUME TypeOK, DeletedAreGone, [Next]_vars
  PROVE  DeletedAreGone'
<1>1. CASE UNCHANGED <<rows, wire>>
  BY <1>1 DEF DeletedAreGone, IsGone
<1>2. ASSUME NEW c \in Contracts, NEW v \in Maybe(Values), Write(c, v) PROVE DeletedAreGone'
  <2>1. PICK t \in {"insert", "update", "delete"} : Notify(c, t, FALSE) /\ (t = "delete" => v = None)
    BY <1>2 DEF Write
  <2>2. PICK n \in Payload : n = [id |-> c, type |-> t, link |-> FALSE]
    BY DEF Payload
  <2>3. wire' = Append(wire, n) /\ ~n.link /\ n.id = c /\ n.type = t
    BY <2>1, <2>2 DEF Notify
  <2>4. rows' = [rows EXCEPT ![c] = v]
    BY <1>2 DEF Write
  <2>5. \A x \in Contracts : rows'[x] = rows[x] \/ c = x
    BY <2>4 DEF TypeOK
  <2>6. t = "delete" => rows'[c] = None
    BY <2>1, <2>4 DEF TypeOK
  <2>7. QED
    BY <2>3, <2>5, <2>6, DeletedByAppend
<1>3. ASSUME NEW r \in Roots, NEW l \in Leaves, WriteLink(r, l) PROVE DeletedAreGone'
  <2>1. PICK t \in {"insert", "update"} : Notify(r, t, TRUE)
    BY <1>3 DEF WriteLink
  <2>2. PICK n \in Payload : n = [id |-> r, type |-> t, link |-> TRUE]
    BY RootsAreContracts DEF Payload
  <2>3. wire' = Append(wire, n) /\ n.link /\ UNCHANGED rows
    BY <1>3, <2>1, <2>2 DEF Notify, WriteLink
  <2>4. QED
    BY <2>3, DeletedByAppend
<1>4. ASSUME NEW r \in Roots, NEW l \in Leaves, LinkLands(r, l) PROVE DeletedAreGone'
  BY <1>1, <1>4 DEF LinkLands
<1>5. CASE PushDelete \/ PushNothing
  BY <1>5, DeletedByTail DEF PushDelete, PushNothing, db
<1>6. ASSUME NEW p \in Pushes, PushLink(p) \/ PushSeen(p) \/ PushUnseen(p) PROVE DeletedAreGone'
  <2>1. PICK n : Received(n) /\ UNCHANGED rows
    BY <1>6 DEF PushLink, PushSeen, PushUnseen, Start, db
  <2>2. QED
    BY <2>1, DeletedByTail
<1>7. ASSUME NEW p \in Pushes, Query(p) \/ Retry(p) \/ Fail(p) \/ Deliver(p) \/ Dataset(p)
      PROVE  DeletedAreGone'
  BY <1>1, <1>7 DEF Query, Retry, Fail, Deliver, Dataset, db
<1>8. ASSUME NEW p \in Pushes, NEW r \in Roots, Unmatch(p, r) PROVE DeletedAreGone'
  BY <1>1, <1>8 DEF Unmatch, db
<1>9. ASSUME NEW p \in Pushes, NEW s \in Schemas, Fetch(p, s) PROVE DeletedAreGone'
  BY <1>1, <1>9 DEF Fetch, db
<1>10. ASSUME NEW s \in Schemas, SetSchema(s) PROVE DeletedAreGone'
  BY <1>1, <1>10 DEF SetSchema, db
<1>11. CASE UNCHANGED vars
  BY <1>1, <1>11 DEF vars, db
<1>12. QED
  BY <1>2, <1>3, <1>4, <1>5, <1>6, <1>7, <1>8, <1>9, <1>10, <1>11 DEF Next, Database, Push

-----------------------------------------------------------------------------
\* The invariant.

\* What the subscriber knows of r is as fresh as it was.
KeepsFresh(r) == Fresh(r, view[r]) => Fresh(r, view[r])'

LEMMA FreshView ==
  ASSUME NEW r \in Roots, NEW k, view'[r] = k, Fresh(r, k)'
  PROVE  Fresh(r, view[r])'
  BY DEF Fresh, Settled

LEMMA QuietIsFresh ==
  ASSUME NEW r \in Roots, view'[r] = view[r], \A k : Fresh(r, k) => Fresh(r, k)'
  PROVE  KeepsFresh(r)
<1> SUFFICES ASSUME Fresh(r, view[r]) PROVE Fresh(r, view[r])'
  BY DEF KeepsFresh
<1>1. PICK k : k = view[r]
  OBVIOUS
<1>2. Fresh(r, k)
  BY <1>1
<1>3. Fresh(r, k)'
  BY <1>2
<1>4. QED
  BY <1>1, <1>3, FreshView

\* The subscriber learns what the push has told.
LEMMA AnswerIsFresh ==
  ASSUME PInv, NEW p \in Pushes, Deliver(p) \/ Dataset(p), NEW r \in Roots,
         Deliver(p) => r \notin {x \in rootIds[p] : contracts[p][x] = None} /\ r \notin Overtaken(rootIds[p])
  PROVE  KeepsFresh(r)
<1> SUFFICES ASSUME Fresh(r, view[r]) PROVE Fresh(r, view[r])'
  BY DEF KeepsFresh
<1> USE DEF PInv, IInv
<1>1. PICK k : k = view[r]
  OBVIOUS
<1>2. PICK told : told = IF contracts[p][r] # None THEN contracts[p][r] ELSE k
  OBVIOUS
<1>3. view'[r] = told
  <2>1. contracts[p] \in [Roots -> Maybe(Contract)]
    BY DEF TypeOK
  <2>2. CASE Deliver(p)
    BY <1>1, <1>2, <2>1, <2>2, DataEventsAnswer, EmitAnswerEffect DEF Deliver
  <2>3. CASE Dataset(p)
    BY <1>1, <1>2, <2>1, <2>3, DatasetEventsAnswer, EmitAnswerEffect DEF Dataset
  <2>4. QED
    BY <2>2, <2>3
<1>4. Fresh(r, k)
  BY <1>1
<1>5. Fresh(r, told)'
  BY <1>2, <1>4, DeliverIsFresh, DatasetIsFresh
<1>6. QED
  BY <1>3, <1>5, FreshView

LEMMA UnmatchKeepsFresh ==
  ASSUME PInv, NEW p \in Pushes, NEW x \in Roots, Unmatch(p, x), NEW r \in Roots, r \notin Overtaken({x})
  PROVE  KeepsFresh(r)
<1> SUFFICES ASSUME Fresh(r, view[r]) PROVE Fresh(r, view[r])'
  BY DEF KeepsFresh
<1>1. PICK k : k = view[r]
  OBVIOUS
<1>2. PICK told : told = IF r = x THEN None ELSE k
  OBVIOUS
<1>3. view' = [view EXCEPT ![x] = None]
  BY EmitOneEffect DEF Unmatch, PInv, IInv
<1>4. view'[r] = told
  BY <1>1, <1>2, <1>3 DEF PInv, IInv, TypeOK
<1>5. Fresh(r, k)
  BY <1>1
<1>6. Fresh(r, told)'
  BY <1>2, <1>5, UnmatchIsFresh
<1>7. QED
  BY <1>4, <1>6, FreshView

LEMMA PushDeleteKeepsFresh ==
  ASSUME PInv, PushDelete, NEW r \in Roots, r \notin Overtaken(Named) \cup Bereaved
  PROVE  KeepsFresh(r)
<1> SUFFICES ASSUME Fresh(r, view[r]) PROVE Fresh(r, view[r])'
  BY DEF KeepsFresh
<1>1. PICK k : k = view[r]
  OBVIOUS
<1>2. Fresh(r, k)
  BY <1>1
<1>3. QED
  BY <1>1, <1>2, PushDeleteIsFresh

LEMMA PushNothingKeepsFresh ==
  ASSUME PInv, PushNothing, NEW r \in Roots, r \notin Overtaken(Named \cap Roots),
         r \notin Unknown
  PROVE  KeepsFresh(r)
<1> SUFFICES ASSUME Fresh(r, view[r]) PROVE Fresh(r, view[r])'
  BY DEF KeepsFresh
<1>1. PICK k : k = view[r]
  OBVIOUS
<1>2. Fresh(r, k)
  BY <1>1
<1>3. QED
  BY <1>1, <1>2, PushNothingIsFresh

\* A step that keeps the trusted roots fresh, except those that it makes doubtful.
LEMMA DoubtStep ==
  ASSUME TrustedAreFresh, NEW D, Doubt(D), \A r \in Roots : r \notin D => KeepsFresh(r)
  PROVE  TrustedAreFresh'
<1>1. \A r \in trusted' : r \in Roots /\ r \notin D /\ (r \in trusted \/ r \in Right')
  BY DEF Doubt, TrustedAreFresh, Right
<1>2. \A r \in Right' : Fresh(r, view[r])'
  BY DEF Right, Fresh, Settled
<1>3. \A r \in trusted' : Fresh(r, view[r])'
  BY <1>1, <1>2 DEF TrustedAreFresh, KeepsFresh
<1>4. QED
  BY <1>1, <1>3 DEF TrustedAreFresh

LEMMA FreshIsNext == FreshNext => Next
  BY DEF FreshNext, Next, Database, Push

LEMMA TrustedStep ==
  ASSUME FInv, FreshNext
  PROVE  TrustedAreFresh'
<1>0. TrustedAreFresh /\ PInv
  BY DEF FInv
<1>1. ASSUME NEW c \in Contracts, NEW v \in Maybe(Values), Write(c, v), Doubt({}) PROVE TrustedAreFresh'
  <2>1. UNCHANGED view
    BY <1>1 DEF Write, Notify, Quiet
  <2>2. QED
    BY <1>0, <1>1, <2>1, WriteIsFresh, QuietIsFresh, DoubtStep
<1>2. ASSUME NEW r \in Roots, NEW l \in Leaves, WriteLink(r, l), Doubt({}) PROVE TrustedAreFresh'
  <2>1. UNCHANGED view
    BY <1>2 DEF WriteLink, Notify, Quiet
  <2>2. QED
    BY <1>0, <1>2, <2>1, WriteLinkIsFresh, QuietIsFresh, DoubtStep
<1>3. ASSUME NEW r \in Roots, NEW l \in Leaves, LinkLands(r, l), Doubt(TooLate(r)) PROVE TrustedAreFresh'
  <2>1. UNCHANGED view
    BY <1>3 DEF LinkLands, Quiet
  <2>2. QED
    BY <1>0, <1>3, <2>1, LinkLandsIsFresh, QuietIsFresh, DoubtStep
<1>4. CASE PushDelete /\ Doubt(Overtaken(Named) \cup Bereaved)
  BY <1>0, <1>4, PushDeleteKeepsFresh, DoubtStep
<1>5. CASE PushNothing /\ Doubt(Overtaken(Named \cap Roots) \cup Unknown)
  <2>1. \A r \in Roots : r \notin Overtaken(Named \cap Roots) \cup Unknown => KeepsFresh(r)
    BY <1>0, <1>5, PushNothingKeepsFresh
  <2>2. QED
    BY <1>0, <1>5, <2>1, DoubtStep
<1>6. ASSUME NEW p \in Pushes, PushLink(p), Doubt({}) PROVE TrustedAreFresh'
  <2>1. UNCHANGED view
    BY <1>6 DEF PushLink, Start, Quiet
  <2>2. QED
    BY <1>0, <1>6, <2>1, PushLinkIsFresh, QuietIsFresh, DoubtStep
<1>7. ASSUME NEW p \in Pushes, PushSeen(p), Doubt(Unknown \cup Overlooked) PROVE TrustedAreFresh'
  <2>1. UNCHANGED view
    BY <1>7 DEF PushSeen, Start, Quiet
  <2>2. \A r \in Roots : r \notin Unknown \cup Overlooked => KeepsFresh(r)
    BY <1>0, <1>7, <2>1, PushSeenIsFresh, QuietIsFresh
  <2>3. QED
    BY <1>0, <1>7, <2>2, DoubtStep
<1>8. ASSUME NEW p \in Pushes, PushUnseen(p), Doubt(Unknown \ Named) PROVE TrustedAreFresh'
  <2>1. UNCHANGED view
    BY <1>8 DEF PushUnseen, Start, Quiet
  <2>2. \A r \in Roots : r \notin Unknown \ Named => KeepsFresh(r)
    BY <1>0, <1>8, <2>1, PushUnseenIsFresh, QuietIsFresh
  <2>3. QED
    BY <1>0, <1>8, <2>2, DoubtStep
<1>9. ASSUME NEW p \in Pushes, Query(p) \/ Retry(p), Doubt({}) PROVE TrustedAreFresh'
  <2>1. UNCHANGED view
    BY <1>9 DEF Query, Retry, Quiet
  <2>2. QED
    BY <1>0, <1>9, <2>1, QueryIsFresh, RetryIsFresh, QuietIsFresh, DoubtStep
<1>10. ASSUME NEW p \in Pushes, Deliver(p),
             Doubt({r \in rootIds[p] : contracts[p][r] = None} \cup Overtaken(rootIds[p]))
      PROVE  TrustedAreFresh'
  <2> DEFINE D == {r \in rootIds[p] : contracts[p][r] = None}
  <2>1. \A r \in Roots : r \notin D /\ r \notin Overtaken(rootIds[p]) => KeepsFresh(r)
    BY <1>0, <1>10, AnswerIsFresh
  <2>2. Doubt(D \cup Overtaken(rootIds[p]))
    BY <1>10
  <2> HIDE DEF D
  <2>3. \A r \in Roots : r \notin D \cup Overtaken(rootIds[p]) => KeepsFresh(r)
    BY <2>1
  <2>4. QED
    BY <1>0, <2>2, <2>3, DoubtStep
<1>11. ASSUME NEW p \in Pushes, NEW r \in Roots, Unmatch(p, r), Doubt(Overtaken({r})) PROVE TrustedAreFresh'
  BY <1>0, <1>11, UnmatchKeepsFresh, DoubtStep
<1>12. ASSUME NEW p \in Pushes, Fail(p), Doubt(rootIds[p]) PROVE TrustedAreFresh'
  <2>1. UNCHANGED view
    BY <1>12 DEF Fail, Quiet
  <2>2. QED
    BY <1>0, <1>12, <2>1, FailIsFresh, QuietIsFresh, DoubtStep
<1>13. ASSUME NEW p \in Pushes, Dataset(p), Doubt({}) PROVE TrustedAreFresh'
  <2>1. stage[p] = "fetched"
    BY <1>13 DEF Dataset
  <2>2. ~Deliver(p)
    BY <2>1 DEF Deliver
  <2>3. QED
    BY <1>0, <1>13, <2>2, AnswerIsFresh, DoubtStep
<1>14. ASSUME NEW p \in Pushes, NEW s \in Schemas, Fetch(p, s), Doubt(IF s = schema THEN {} ELSE Roots)
       PROVE  TrustedAreFresh'
  <2>1. UNCHANGED view
    BY <1>14 DEF Fetch, Quiet
  <2>2. CASE s = schema
    BY <1>0, <1>14, <2>1, <2>2, FetchIsFresh, QuietIsFresh, DoubtStep
  <2>3. CASE s # schema
    BY <1>0, <1>14, <2>3, DoubtStep
  <2>4. QED
    BY <2>2, <2>3
<1>15. ASSUME NEW s \in Schemas, SetSchema(s), Doubt(Roots) PROVE TrustedAreFresh'
  BY <1>0, <1>15, DoubtStep
<1>16. QED
  BY <1>1, <1>2, <1>3, <1>4, <1>5, <1>6, <1>7, <1>8, <1>9, <1>10, <1>11, <1>12, <1>13, <1>14, <1>15
     DEF FreshNext

LEMMA PInvStep ==
  ASSUME PInv, [Next]_vars
  PROVE  PInv'
  BY IInvStep, AskedStep, DeletedStep DEF PInv, IInv

LEMMA PInvInit == Init => PInv
<1> SUFFICES ASSUME Init PROVE PInv
  OBVIOUS
<1>1. IInv
  BY IInvInit
<1>2. AnswersAreAsked
  BY DEF Init, AnswersAreAsked, IsAsked, NoContracts
<1>3. DeletedAreGone
  BY DEF Init, DeletedAreGone
<1>4. QED
  BY <1>1, <1>2, <1>3 DEF PInv

\* A step that does not concern the stream.
LEMMA StutterIsFresh ==
  ASSUME UNCHANGED vars, NEW r \in Roots, NEW k, Fresh(r, k)
  PROVE  Fresh(r, k)'
<1>1. UNCHANGED <<rows, links, wire, schema, stage, rootIds, retries, contracts>>
  BY DEF vars, db, push
<1>2. \A q \in Pushes : SameFor(q, r)
  BY <1>1, UntouchedIsSame DEF IsUntouched
<1>3. Answer(r)' = Answer(r)
  BY <1>1, AnswerStays
<1>4. Notified(r) => Notified(r)'
  BY <1>1 DEF Notified, Concerns
<1>5. QED
  BY <1>2, <1>3, <1>4, Carry

LEMMA FInvStep ==
  ASSUME FInv, [FreshNext]_<<vars, trusted>>
  PROVE  FInv'
<1>1. PInv'
  BY FreshIsNext, PInvStep DEF FInv
<1>2. TrustedAreFresh'
  <2>1. CASE FreshNext
    BY <2>1, TrustedStep
  <2>2. CASE UNCHANGED <<vars, trusted>>
    <3>1. UNCHANGED view
      BY <2>2 DEF vars, client
    <3>2. \A r \in Roots : KeepsFresh(r)
      BY <2>2, <3>1, StutterIsFresh, QuietIsFresh
    <3>3. QED
      BY <2>2, <3>2 DEF TrustedAreFresh, FInv, KeepsFresh
  <2>3. QED
    BY <2>1, <2>2
<1>3. QED
  BY <1>1, <1>2 DEF FInv

LEMMA FInvInit == FreshInit => FInv
<1> SUFFICES ASSUME FreshInit PROVE FInv
  OBVIOUS
<1>1. PInv
  BY PInvInit DEF FreshInit
<1>2. TrustedAreFresh
  BY DEF FreshInit, TrustedAreFresh, Right, Fresh, Settled
<1>3. QED
  BY <1>1, <1>2 DEF FInv

\* Whatever the subscriber does not know of a trusted root is on its way to it, in every
\* behaviour.
THEOREM FreshInvariance == FreshSpec => []FInv
  BY FInvInit, FInvStep, PTL DEF FreshSpec

\* Whenever nothing is on its way, the answer is known.
LEMMA NothingOnItsWay ==
  ASSUME PInv, AtRest, NEW r, NEW k, Fresh(r, k)
  PROVE  k = Answer(r)
<1>1. ~Notified(r)
  BY DEF AtRest, Notified
<1>2. \A p \in Pushes : rootIds[p] = {}
  BY DEF AtRest, PInv, AnswersAreAsked, IsAsked
<1>3. \A p \in Pushes : ~AsksAbout(p, r) /\ ~InHand(p, r)
  BY <1>2 DEF AsksAbout, InHand
<1>4. QED
  BY <1>1, <1>3 DEF Fresh, Settled, Pushing

\* Whenever a stream is at rest, its subscriber knows of every trusted root what a
\* query would answer (streams.ts:272-320, 363-545).
THEOREM RestIsRight == FreshSpec => []RightAtRest
<1>1. FInv => RightAtRest
  BY NothingOnItsWay DEF FInv, TrustedAreFresh, RightAtRest
<1>2. QED
  BY <1>1, FreshInvariance, PTL
=============================================================================
