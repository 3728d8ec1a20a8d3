----------------------------- MODULE Links_proofs -----------------------------
(***************************************************************************)
(* What an upsert that nothing interferes with leaves behind, for any      *)
(* number of calls, contracts, links and dependents.                       *)
(*                                                                         *)
(* The invariant says what the calls in progress have to do with: a call   *)
(* that is alone shares no contract with any other, a contract that two    *)
(* calls share is disturbed, and a contract being upserted is not settled. *)
(* It follows that what a call has read of an undisturbed contract is its  *)
(* row, and that what it has done of its plan stays done.                  *)
(***************************************************************************)
EXTENDS Links, SequenceTheorems, TLAPS

Upserting == {"upserting", "caching", "indexing", "linking"}

TypeInv ==
  /\ TypeOK
  /\ plan \in [Calls -> Seq(Contracts)]
  /\ upserts \in [Calls -> [contracts: SUBSET Contracts, active: BOOLEAN, replace: BOOLEAN]]

\* What a call has in hand fits what it awaits.
IsWhole(k) ==
  /\ pc[k] \in {"idle", "reading"} => upserts[k] = Idle
  /\ pc[k] \in {"idle", "upserting", "caching", "indexing"} => part[k] = NoPart
  /\ pc[k] = "reading" => \A e \in Ends : part[k][e] \in {"none", "unread", "selected", "read"}
  /\ pc[k] \in Upserting => /\ plan[k] # <<>> /\ Elements(plan[k]) \subseteq upserts[k].contracts
                            /\ \A u \in upserts[k].contracts \cap Users :
                                 Elements(Dependents[u]) \subseteq upserts[k].contracts
  /\ pc[k] \in {"indexing", "linking"} => Head(plan[k]) \in LinkIds
  /\ pc[k] = "linking" => \A e \in Ends : part[k][e] # "none" <=> e \in EndsOf(Head(plan[k]))

CallsAreWhole == \A k \in Calls : IsWhole(k)

\* Calls that have to do with the same contracts are not alone, and disturb them.
AreApart(j, k) ==
  /\ alone[j] => TouchedBy(j) \cap TouchedBy(k) = {}
  /\ TouchedBy(j) \cap TouchedBy(k) \subseteq disturbed

CallsAreApart == \A j, k \in Calls : j # k => AreApart(j, k)

\* What the upserts of a call have to do with.
UpsertTouches(k) == UNION {Touches(c) : c \in upserts[k].contracts}

\* Nothing that an upsert in progress has to do with is settled.
UpsertsUnsettle == \A k \in Calls : UpsertTouches(k) \cap settled = {}

\* What an upsert of call k leaves behind of contract c.
Indexed(k, l) == {r \in links2 : r.id = l} = IF ActiveOf(k) THEN BothRows(l) ELSE {}

IsRecorded(l) ==
  EndsOf(l) \cap disturbed = {} => \A e \in EndsOf(l) : linkedAt[e][NameAt(l, e)] # None

IsDone(k, c) ==
  /\ active[c] = ActiveOf(k)
  /\ c \in LinkIds => Indexed(k, c) /\ (ActiveOf(k) => IsRecorded(c))

\* A call that is alone has upserted what is no longer in its plan.
GetsOn(k) ==
  alone[k] /\ pc[k] \in Upserting =>
    /\ \A c \in upserts[k].contracts \ Elements(plan[k]) : IsDone(k, c)
    /\ pc[k] # "upserting" => active[Head(plan[k])] = ActiveOf(k)
    /\ pc[k] = "linking" => Indexed(k, Head(plan[k]))

WorkIsDone == \A k \in Calls : GetsOn(k)

\* What a call that makes a link active has done with end e of it.
IsLinking(k, e) ==
  LET l == Head(plan[k]) IN
  /\ active[e] # None
  /\ e \notin disturbed /\ part[k][e] \in {"selected", "read", "materialized", "done"} => copy[k][e] # Gone
  /\ EndsOf(l) \cap disturbed = {} /\ part[k][e] \in {"materialized", "done"} =>
       linkedAt[e][NameAt(l, e)] # None

LinkingIsRight ==
  \A k \in Calls : pc[k] = "linking" /\ ActiveOf(k) => \A e \in EndsOf(Head(plan[k])) : IsLinking(k, e)

Caching(k, e) == pc[k] = "caching" /\ Head(plan[k]) = e

\* What is cached and what is read of a contract is its row, but for a call that is
\* about to cache it or to unset it.
IsCurrent(e) ==
  /\ \/ cached[e] \in {Absent, InRow(e)}
     \/ \E k \in Calls : Caching(k, e) \/ part[k][e] = "materialized"
  /\ \A k \in Calls : /\ Caching(k, e) => active[e] # None /\ copy[k][e] = linkedAt[e]
                      /\ part[k][e] \in {"selected", "read"} => copy[k][e] = InRow(e)

CopiesAreCurrent == \A e \in Ends \ disturbed : IsCurrent(e)

LInv ==
  /\ TypeInv /\ CallsAreWhole /\ CallsAreApart /\ UpsertsUnsettle /\ WorkIsDone
  /\ LinkingIsRight /\ CopiesAreCurrent
  /\ RowsFollowLinks /\ LinksAreMaterialized /\ DependentsFollowUser

-----------------------------------------------------------------------------
\* Plans.

LEMMA PlanHead ==
  ASSUME NEW s \in Seq(Contracts), s # <<>>
  PROVE  /\ Head(s) \in Contracts /\ Tail(s) \in Seq(Contracts)
         /\ Elements(s) = {Head(s)} \cup Elements(Tail(s))
         /\ Len(s) > 1 => Tail(s) # <<>>
         /\ ~(Len(s) > 1) => Elements(s) = {Head(s)}
<1>1. Len(s) \in Nat \ {0} /\ DOMAIN s = 1..Len(s)
  BY EmptySeq, LenProperties
<1>2. /\ Head(s) = s[1] /\ Tail(s) \in Seq(Contracts) /\ Len(Tail(s)) = Len(s) - 1
      /\ \A i \in 1..Len(Tail(s)) : Tail(s)[i] = s[i + 1]
  BY HeadTailProperties
<1>3. DOMAIN Tail(s) = 1..(Len(s) - 1)
  BY <1>2, LenProperties
<1>4. Head(s) \in Contracts
  BY <1>1, <1>2, ElementOfSeq
<1>5. Elements(s) = {Head(s)} \cup Elements(Tail(s))
  <2>1. ASSUME NEW i \in DOMAIN s PROVE s[i] \in {Head(s)} \cup Elements(Tail(s))
    <3>1. CASE i = 1
      BY <1>2, <3>1
    <3>2. CASE i # 1
      <4>1. i - 1 \in DOMAIN Tail(s) /\ Tail(s)[i - 1] = s[i]
        BY <1>1, <1>2, <1>3, <3>2
      <4>2. QED
        BY <4>1 DEF Elements
    <3>3. QED
      BY <3>1, <3>2
  <2>2. ASSUME NEW i \in DOMAIN Tail(s) PROVE Tail(s)[i] \in Elements(s)
    <3>1. i + 1 \in DOMAIN s /\ Tail(s)[i] = s[i + 1]
      BY <1>1, <1>2, <1>3
    <3>2. QED
      BY <3>1 DEF Elements
  <2>3. Head(s) \in Elements(s)
    BY <1>1, <1>2 DEF Elements
  <2>4. QED
    BY <2>1, <2>2, <2>3 DEF Elements
<1>6. Len(s) > 1 => Tail(s) # <<>>
  <2>1. PICK t : t = Tail(s)
    OBVIOUS
  <2>2. PICK n \in Nat : n = Len(s)
    BY <1>1
  <2>3. Len(t) = n - 1
    BY <1>2, <2>1, <2>2
  <2>4. t = <<>> => Len(t) = 0
    BY EmptySeq
  <2>5. n > 1 => t # <<>>
    BY <2>3, <2>4
  <2>6. QED
    BY <2>1, <2>2, <2>5
<1>7. ~(Len(s) > 1) => Elements(Tail(s)) = {}
  <2>1. ~(Len(s) > 1) => DOMAIN Tail(s) = {}
    BY <1>1, <1>3
  <2>2. QED
    BY <2>1 DEF Elements
<1>8. QED
  BY <1>2, <1>4, <1>5, <1>6, <1>7

LEMMA PlanOf ==
  ASSUME NEW c \in Contracts
  PROVE  /\ Plan(c) \in Seq(Contracts) /\ Plan(c) # <<>>
         /\ Elements(Plan(c)) = {c} \cup IF c \in Users THEN Elements(Dependents[c]) ELSE {}
         /\ Elements(Plan(c)) \subseteq Contracts
<1>1. PICK d : d = IF c \in Users THEN Dependents[c] ELSE <<>>
  OBVIOUS
<1>2. d \in Seq(Contracts)
  <2>1. c \in Users => d \in Seq(Contracts \ Users)
    BY <1>1, ConstantsAssumption
  <2>2. Contracts \ Users \subseteq Contracts
    OBVIOUS
  <2>3. c \in Users => d \in Seq(Contracts)
    BY <2>1, <2>2, SeqMonotonic
  <2>4. QED
    BY <1>1, <2>3, EmptySeq
<1>3. <<c>> \in Seq(Contracts) /\ Len(<<c>>) = 1 /\ <<c>>[1] = c
  OBVIOUS
<1>4. Plan(c) = <<c>> \o d
  BY <1>1 DEF Plan
<1>5. /\ Plan(c) \in Seq(Contracts) /\ Len(Plan(c)) = 1 + Len(d)
      /\ \A i \in 1..(1 + Len(d)) : Plan(c)[i] = IF i <= 1 THEN <<c>>[i] ELSE d[i - 1]
  BY <1>2, <1>3, <1>4, ConcatProperties
<1>6. Len(d) \in Nat /\ DOMAIN d = 1..Len(d) /\ DOMAIN Plan(c) = 1..(1 + Len(d))
  BY <1>2, <1>5, LenProperties
<1>7. Elements(Plan(c)) = {c} \cup Elements(d)
  <2>1. ASSUME NEW i \in DOMAIN Plan(c) PROVE Plan(c)[i] \in {c} \cup Elements(d)
    <3>1. CASE i = 1
      BY <1>3, <1>5, <1>6, <3>1
    <3>2. CASE i # 1
      <4>1. i - 1 \in DOMAIN d /\ Plan(c)[i] = d[i - 1]
        BY <1>5, <1>6, <3>2
      <4>2. QED
        BY <4>1 DEF Elements
    <3>3. QED
      BY <3>1, <3>2
  <2>2. ASSUME NEW i \in DOMAIN d PROVE d[i] \in Elements(Plan(c))
    <3>1. i + 1 \in DOMAIN Plan(c) /\ Plan(c)[i + 1] = d[i]
      BY <1>5, <1>6
    <3>2. QED
      BY <3>1 DEF Elements
  <2>3. 1 \in DOMAIN Plan(c) /\ Plan(c)[1] = c
    BY <1>3, <1>5, <1>6
  <2>4. c \in Elements(Plan(c))
    BY <2>3 DEF Elements
  <2>5. QED
    BY <2>1, <2>2, <2>4 DEF Elements
<1>8. Elements(Plan(c)) \subseteq Contracts
  BY <1>5, ElementOfSeq, LenProperties DEF Elements
<1>9. Elements(<<>>) = {}
  BY DEF Elements
<1>10. Plan(c) # <<>>
  BY <1>5, <1>6
<1>11. QED
  BY <1>1, <1>5, <1>7, <1>8, <1>9, <1>10

\* No dependent of a user is a user.
LEMMA DependentsAreNoUsers ==
  ASSUME NEW u \in Users
  PROVE  Elements(Dependents[u]) \subseteq Contracts \ Users
<1>1. Dependents[u] \in Seq(Contracts \ Users)
  BY ConstantsAssumption
<1>2. QED
  BY <1>1, ElementOfSeq, LenProperties DEF Elements

-----------------------------------------------------------------------------
\* Types.

LEMMA TouchesType ==
  ASSUME TypeInv
  PROVE  /\ \A c \in Contracts : Touches(c) \subseteq Contracts /\ c \in Touches(c)
         /\ \A k \in Calls : UpsertTouches(k) \subseteq TouchedBy(k) /\ TouchedBy(k) \subseteq Contracts
<1>1. ASSUME NEW c \in Contracts PROVE Touches(c) \subseteq Contracts /\ c \in Touches(c)
  <2>1. c \in LinkIds => EndsOf(c) \subseteq Contracts
    BY ConstantsAssumption DEF EndsOf, Contracts
  <2>2. Users \subseteq Contracts
    BY ConstantsAssumption DEF Contracts
  <2>3. QED
    BY <2>1, <2>2 DEF Touches
<1>2. ASSUME NEW k \in Calls PROVE UpsertTouches(k) \subseteq TouchedBy(k) /\ TouchedBy(k) \subseteq Contracts
  <2>1. upserts[k].contracts \subseteq Contracts
    BY DEF TypeInv
  <2>2. UpsertTouches(k) \subseteq Contracts
    BY <1>1, <2>1 DEF UpsertTouches
  <2>3. TouchedBy(k) = UpsertTouches(k) \cup {e \in Ends : part[k][e] # "none"}
    BY DEF TouchedBy, UpsertTouches
  <2>4. QED
    BY <2>2, <2>3 DEF Contracts
<1>3. QED
  BY <1>1, <1>2

LEMMA UpdatedType ==
  ASSUME TypeInv, NEW k \in Calls, NEW e \in Ends,
         Head(plan[k]) \in LinkIds, e \in EndsOf(Head(plan[k])), copy[k][e] # Gone
  PROVE  /\ Updated(k, e) \in [Names -> LinkIds \cup {None}]
         /\ NameAt(Head(plan[k]), e) \in Names
         /\ ActiveOf(k) => Updated(k, e)[NameAt(Head(plan[k]), e)] # None
         /\ \A n \in Names : copy[k][e][n] # None => Updated(k, e)[n] = copy[k][e][n]
<1>1. PICK l \in LinkIds : l = Head(plan[k])
  OBVIOUS
<1>2. NameAt(l, e) \in Names
  BY DEF NameAt, Names
<1>3. copy[k][e] \in [Names -> LinkIds \cup {None}]
  BY DEF TypeInv, TypeOK
<1>4. l # None
  BY ConstantsAssumption
<1>5. PICK f : f = copy[k][e]
  OBVIOUS
<1>6. PICK n : n = NameAt(l, e)
  OBVIOUS
<1>7. Updated(k, e) = IF ActiveOf(k) THEN IF f[n] = None THEN [f EXCEPT ![n] = l] ELSE f ELSE f
  BY <1>1, <1>5, <1>6 DEF Updated, AddLink
<1>8. f \in [Names -> LinkIds \cup {None}] /\ n \in Names
  BY <1>2, <1>3, <1>5, <1>6
<1>9. /\ Updated(k, e) \in [Names -> LinkIds \cup {None}]
      /\ ActiveOf(k) => Updated(k, e)[n] # None
      /\ \A m \in Names : f[m] # None => Updated(k, e)[m] = f[m]
  BY <1>4, <1>7, <1>8
<1>10. QED
  BY <1>1, <1>5, <1>6, <1>8, <1>9

LEMMA MeetType ==
  ASSUME TypeInv, NEW k \in Calls, NEW touched, Meet(k, touched)
  PROVE  /\ alone' \in [Calls -> BOOLEAN] /\ begun' \in 0..MaxCalls
         /\ disturbed' \subseteq Contracts
<1>1. alone' \in [Calls -> BOOLEAN] /\ begun' \in 0..MaxCalls
  <2>1. begun' \in 0..MaxCalls
    BY ConstantsAssumption DEF Meet, TypeInv, TypeOK
  <2>2. alone \in [Calls -> BOOLEAN]
    BY DEF TypeInv, TypeOK
  <2>3. QED
    BY <2>1, <2>2, Zenon DEF Meet
<1>2. disturbed' \subseteq Contracts
  BY TouchesType DEF Meet, TypeInv, TypeOK
<1>3. QED
  BY <1>1, <1>2

LEMMA ResetType ==
  ASSUME TypeInv, NEW k \in Calls, Reset(k)
  PROVE  /\ plan' \in [Calls -> Seq(Contracts)]
         /\ upserts' \in [Calls -> [contracts: SUBSET Contracts, active: BOOLEAN, replace: BOOLEAN]]
         /\ part' \in [Calls -> [Ends -> PartStates]]
         /\ copy' \in [Calls -> [Ends -> [Names -> LinkIds \cup {None}] \cup {Gone}]]
         /\ alone' \in [Calls -> BOOLEAN]
<1>1. <<>> \in Seq(Contracts) /\ Idle \in [contracts: SUBSET Contracts, active: BOOLEAN, replace: BOOLEAN]
  BY EmptySeq DEF Idle
<1>2. /\ NoPart \in [Ends -> PartStates]
      /\ NoCopy \in [Ends -> [Names -> LinkIds \cup {None}] \cup {Gone}]
  BY DEF NoPart, NoCopy, PartStates
<1>3. /\ plan' \in [Calls -> Seq(Contracts)]
      /\ upserts' \in [Calls -> [contracts: SUBSET Contracts, active: BOOLEAN, replace: BOOLEAN]]
  BY <1>1 DEF Reset, TypeInv
<1>4. QED
  BY <1>2, <1>3 DEF Reset, TypeInv, TypeOK

LEMMA GoOnType ==
  ASSUME TypeInv, NEW k \in Calls, GoOn(k), plan[k] # <<>>
  PROVE  /\ plan' \in [Calls -> Seq(Contracts)]
         /\ upserts' \in [Calls -> [contracts: SUBSET Contracts, active: BOOLEAN, replace: BOOLEAN]]
         /\ pc' \in [Calls -> PcStates]
         /\ part' \in [Calls -> [Ends -> PartStates]]
         /\ copy' \in [Calls -> [Ends -> [Names -> LinkIds \cup {None}] \cup {Gone}]]
         /\ alone' \in [Calls -> BOOLEAN]
         /\ settled' \subseteq Contracts
<1>1. CASE Len(plan[k]) > 1
  <2>1. plan[k] \in Seq(Contracts)
    BY DEF TypeInv
  <2>2. Tail(plan[k]) \in Seq(Contracts)
    BY <2>1, PlanHead
  <2>3. /\ NoPart \in [Ends -> PartStates]
        /\ NoCopy \in [Ends -> [Names -> LinkIds \cup {None}] \cup {Gone}]
    BY DEF NoPart, NoCopy, PartStates
  <2>4. plan' \in [Calls -> Seq(Contracts)]
    BY <1>1, <2>2 DEF GoOn, TypeInv
  <2>5. pc' \in [Calls -> PcStates] /\ UNCHANGED <<upserts, settled, alone>>
    BY <1>1 DEF GoOn, TypeInv, TypeOK, PcStates
  <2>6. /\ part' \in [Calls -> [Ends -> PartStates]]
        /\ copy' \in [Calls -> [Ends -> [Names -> LinkIds \cup {None}] \cup {Gone}]]
    BY <1>1, <2>3 DEF GoOn, TypeInv, TypeOK
  <2>7. QED
    BY <2>4, <2>5, <2>6 DEF TypeInv, TypeOK
<1>2. CASE ~(Len(plan[k]) > 1)
  <2>1. Reset(k) /\ pc' = [pc EXCEPT ![k] = "idle"]
    BY <1>2 DEF GoOn
  <2>2. pc' \in [Calls -> PcStates]
    BY <2>1 DEF TypeInv, TypeOK, PcStates
  <2>3. settled' \subseteq Contracts
    BY <1>2 DEF GoOn, TypeInv, TypeOK
  <2>4. QED
    BY <2>1, <2>2, <2>3, ResetType
<1>3. QED
  BY <1>1, <1>2

LEMMA TypeStep ==
  ASSUME TypeInv, CallsAreWhole, NEW k \in Calls, OfCall(k)
  PROVE  TypeInv'
<1> USE DEF PcStates, PartStates
<1>1. ASSUME NEW c \in Requested, NEW a \in BOOLEAN, NEW r \in BOOLEAN, Upsert(k, c, a, r) PROVE TypeInv'
  <2>1. c \in Contracts
    BY ConstantsAssumption
  <2>2. Plan(c) \in Seq(Contracts) /\ Elements(Plan(c)) \subseteq Contracts
    BY <2>1, PlanOf
  <2>3. plan' \in [Calls -> Seq(Contracts)] /\ UNCHANGED <<active, linkedAt, links2, cached, part, copy>>
    BY <1>1, <2>2 DEF Upsert, TypeInv
  <2>4. upserts' \in [Calls -> [contracts: SUBSET Contracts, active: BOOLEAN, replace: BOOLEAN]]
    BY <1>1, <2>2 DEF Upsert, TypeInv
  <2>5. pc' \in [Calls -> PcStates]
    BY <1>1 DEF Upsert, TypeInv, TypeOK
  <2>6. alone' \in [Calls -> BOOLEAN] /\ begun' \in 0..MaxCalls /\ disturbed' \subseteq Contracts
    BY <1>1, MeetType DEF Upsert
  <2>7. settled' \subseteq Contracts
    BY <1>1 DEF Upsert, TypeInv, TypeOK
  <2>8. QED
    BY <2>3, <2>4, <2>5, <2>6, <2>7 DEF TypeInv, TypeOK
<1>2. ASSUME NEW e \in Requested \cap Ends, Read(k, e) PROVE TypeInv'
  <2>1. alone' \in [Calls -> BOOLEAN] /\ begun' \in 0..MaxCalls /\ disturbed' \subseteq Contracts
    BY <1>2, MeetType DEF Read
  <2>2. pc' \in [Calls -> PcStates] /\ part' \in [Calls -> [Ends -> PartStates]]
    BY <1>2 DEF Read, TypeInv, TypeOK
  <2>3. UNCHANGED <<active, linkedAt, links2, cached, plan, upserts, copy, settled>>
    BY <1>2 DEF Read
  <2>4. QED
    BY <2>1, <2>2, <2>3 DEF TypeInv, TypeOK
<1>3. ASSUME NEW e \in Ends, ReadCache(k, e) PROVE TypeInv'
  <2>1. /\ part' \in [Calls -> [Ends -> PartStates]]
        /\ copy' \in [Calls -> [Ends -> [Names -> LinkIds \cup {None}] \cup {Gone}]]
    BY <1>3 DEF ReadCache, TypeInv, TypeOK
  <2>2. QED
    BY <1>3, <2>1 DEF ReadCache, TypeInv, TypeOK
<1>4. ASSUME NEW e \in Ends, SelectRow(k, e) PROVE TypeInv'
  <2>1. InRow(e) \in [Names -> LinkIds \cup {None}] \cup {Gone}
    BY DEF InRow, TypeInv, TypeOK
  <2>2. /\ part' \in [Calls -> [Ends -> PartStates]]
        /\ copy' \in [Calls -> [Ends -> [Names -> LinkIds \cup {None}] \cup {Gone}]]
        /\ cached' \in [Ends -> [Names -> LinkIds \cup {None}] \cup {Absent, Gone}]
    BY <1>4, <2>1 DEF SelectRow, TypeInv, TypeOK
  <2>3. QED
    BY <1>4, <2>2 DEF SelectRow, TypeInv, TypeOK
<1>5. ASSUME NEW e \in Ends, CacheRead(k, e) PROVE TypeInv'
  <2>1. /\ part' \in [Calls -> [Ends -> PartStates]]
        /\ cached' \in [Ends -> [Names -> LinkIds \cup {None}] \cup {Absent, Gone}]
    BY <1>5 DEF CacheRead, TypeInv, TypeOK
  <2>2. QED
    BY <1>5, <2>1 DEF CacheRead, TypeInv, TypeOK
<1>6. ASSUME NEW e \in Ends, Materialize(k, e) PROVE TypeInv'
  <2>1. part' \in [Calls -> [Ends -> PartStates]]
    <3>1. CASE part' = [part EXCEPT ![k][e] = "materialized"]
      BY <3>1 DEF TypeInv, TypeOK
    <3>2. CASE part' = [part EXCEPT ![k][e] = "done"]
      BY <3>2 DEF TypeInv, TypeOK
    <3>3. QED
      BY <1>6, <3>1, <3>2, Zenon DEF Materialize
  <2>2. linkedAt' \in [Ends -> [Names -> LinkIds \cup {None}]]
    <3>1. CASE Materializes(k, e)
      <4>1. Head(plan[k]) \in LinkIds /\ e \in EndsOf(Head(plan[k]))
        BY <1>6 DEF Materialize, CallsAreWhole, IsWhole
      <4>2. copy[k][e] # Gone
        BY <3>1, <4>1 DEF Materializes
      <4>3. Updated(k, e) \in [Names -> LinkIds \cup {None}]
        BY <4>1, <4>2, UpdatedType
      <4>4. linkedAt' = [linkedAt EXCEPT ![e] = Updated(k, e)]
        BY <1>6, <3>1 DEF Materialize
      <4>5. QED
        BY <4>3, <4>4 DEF TypeInv, TypeOK
    <3>2. CASE ~Materializes(k, e)
      <4>1. linkedAt' = linkedAt
        BY <1>6, <3>2 DEF Materialize
      <4>2. QED
        BY <4>1 DEF TypeInv, TypeOK
    <3>3. QED
      BY <3>1, <3>2
  <2>3. UNCHANGED <<active, links2, cached, pc, plan, upserts, copy, alone, settled, disturbed, begun>>
    BY <1>6 DEF Materialize
  <2>4. QED
    BY <2>1, <2>2, <2>3 DEF TypeInv, TypeOK
<1>7. ASSUME NEW e \in Ends, Unset(k, e) PROVE TypeInv'
  <2>1. /\ part' \in [Calls -> [Ends -> PartStates]]
        /\ cached' \in [Ends -> [Names -> LinkIds \cup {None}] \cup {Absent, Gone}]
    BY <1>7 DEF Unset, TypeInv, TypeOK
  <2>2. QED
    BY <1>7, <2>1 DEF Unset, TypeInv, TypeOK
<1>8. ASSUME UpsertRow(k) PROVE TypeInv'
  <2>1. Head(plan[k]) \in Contracts
    <3>1. plan[k] \in Seq(Contracts) /\ plan[k] # <<>>
      BY <1>8 DEF UpsertRow, CallsAreWhole, IsWhole, Upserting, TypeInv
    <3>2. QED
      BY <3>1, PlanHead
  <2>2. active' \in [Contracts -> BOOLEAN \cup {None}]
    BY <1>8, <2>1 DEF UpsertRow, ActiveOf, TypeInv, TypeOK
  <2>3. copy' \in [Calls -> [Ends -> [Names -> LinkIds \cup {None}] \cup {Gone}]]
    BY <1>8, <2>1 DEF UpsertRow, TypeInv, TypeOK
  <2>4. pc' \in [Calls -> PcStates]
    BY <1>8 DEF UpsertRow, TypeInv, TypeOK
  <2>5. UNCHANGED <<linkedAt, links2, cached, plan, upserts, part, alone, settled, disturbed, begun>>
    BY <1>8 DEF UpsertRow
  <2>6. QED
    BY <2>2, <2>3, <2>4, <2>5 DEF TypeInv, TypeOK
<1>9. ASSUME CacheRow(k) PROVE TypeInv'
  <2>1. plan[k] # <<>>
    BY <1>9 DEF CacheRow, CallsAreWhole, IsWhole, Upserting
  <2>2. UNCHANGED <<active, linkedAt, links2, disturbed, begun>>
    BY <1>9 DEF CacheRow
  <2>3. CASE Head(plan[k]) \in Ends
    <3>1. GoOn(k) /\ cached' = [cached EXCEPT ![Head(plan[k])] = copy[k][Head(plan[k])]]
      BY <1>9, <2>3 DEF CacheRow
    <3>2. cached' \in [Ends -> [Names -> LinkIds \cup {None}] \cup {Absent, Gone}]
      BY <2>3, <3>1 DEF TypeInv, TypeOK
    <3>3. QED
      BY <2>1, <2>2, <3>1, <3>2, GoOnType DEF TypeInv, TypeOK
  <2>4. CASE Head(plan[k]) \notin Ends
    <3>1. pc' \in [Calls -> PcStates] /\ UNCHANGED <<cached, plan, upserts, part, copy, settled, alone>>
      BY <1>9, <2>4 DEF CacheRow, TypeInv, TypeOK
    <3>2. QED
      BY <2>2, <3>1 DEF TypeInv, TypeOK
  <2>5. QED
    BY <2>3, <2>4
<1>10. ASSUME IndexLink(k) PROVE TypeInv'
  <2>1. Head(plan[k]) \in LinkIds
    BY <1>10 DEF IndexLink, CallsAreWhole, IsWhole
  <2>2. links2' \subseteq [id: LinkIds, forward: BOOLEAN]
    <3>1. BothRows(Head(plan[k])) \subseteq [id: LinkIds, forward: BOOLEAN]
      BY <2>1 DEF BothRows, Row
    <3>2. links2' \in {links2 \cup BothRows(Head(plan[k])), links2 \ BothRows(Head(plan[k]))}
      BY <1>10 DEF IndexLink, WithoutRows
    <3>3. QED
      BY <3>1, <3>2 DEF TypeInv, TypeOK
  <2>3. part' \in [Calls -> [Ends -> PartStates]] /\ pc' \in [Calls -> PcStates]
    BY <1>10 DEF IndexLink, TypeInv, TypeOK
  <2>4. UNCHANGED <<active, linkedAt, cached, plan, upserts, copy, alone, settled, disturbed, begun>>
    BY <1>10 DEF IndexLink
  <2>5. QED
    BY <2>2, <2>3, <2>4 DEF TypeInv, TypeOK
<1>11. ASSUME Returned(k) PROVE TypeInv'
  <2>1. Reset(k) /\ pc' \in [Calls -> PcStates] /\ UNCHANGED <<active, linkedAt, links2, cached, settled, disturbed, begun>>
    BY <1>11 DEF Returned, TypeInv, TypeOK
  <2>2. QED
    BY <2>1, ResetType DEF TypeInv, TypeOK
<1>12. ASSUME Linked(k) PROVE TypeInv'
  <2>1. plan[k] # <<>> /\ GoOn(k) /\ UNCHANGED <<active, linkedAt, links2, cached, disturbed, begun>>
    BY <1>12 DEF Linked, CallsAreWhole, IsWhole, Upserting
  <2>2. QED
    BY <2>1, GoOnType DEF TypeInv, TypeOK
<1>13. ASSUME Fail(k) PROVE TypeInv'
  <2>1. Reset(k) /\ pc' \in [Calls -> PcStates] /\ UNCHANGED <<active, linkedAt, links2, cached, settled, begun>>
    BY <1>13 DEF Fail, TypeInv, TypeOK
  <2>2. disturbed' \subseteq Contracts
    BY <1>13, TouchesType DEF Fail, TypeInv, TypeOK
  <2>3. QED
    BY <2>1, <2>2, ResetType DEF TypeInv, TypeOK
<1>14. QED
  BY <1>1, <1>2, <1>3, <1>4, <1>5, <1>6, <1>7, <1>8, <1>9, <1>10, <1>11, <1>12, <1>13 DEF OfCall

-----------------------------------------------------------------------------
\* What a call's step leaves of the other calls.

IsLeft(j) ==
  /\ pc'[j] = pc[j] /\ plan'[j] = plan[j] /\ upserts'[j] = upserts[j]
  /\ part'[j] = part[j] /\ copy'[j] = copy[j] /\ (alone'[j] => alone[j])

IsReset(k) ==
  pc'[k] = "idle" /\ upserts'[k] = Idle /\ part'[k] = NoPart /\ alone'[k] /\ plan'[k] = <<>>

GoesOn(k) ==
  /\ pc'[k] = "upserting" /\ plan'[k] = Tail(plan[k]) /\ part'[k] = NoPart /\ Len(plan[k]) > 1
  /\ UNCHANGED <<upserts, settled, alone>>

LEMMA ResetLeaves ==
  ASSUME TypeInv, NEW k \in Calls, Reset(k), pc' = [pc EXCEPT ![k] = "idle"]
  PROVE  IsReset(k) /\ \A j \in Calls \ {k} : IsLeft(j)
<1>1. IsReset(k)
  BY DEF IsReset, Reset, TypeInv, TypeOK
<1>2. \A j \in Calls \ {k} : IsLeft(j)
  BY DEF IsLeft, Reset, TypeInv, TypeOK
<1>3. QED
  BY <1>1, <1>2

LEMMA GoOnLeaves ==
  ASSUME TypeInv, NEW k \in Calls, GoOn(k)
  PROVE  /\ \/ GoesOn(k)
            \/ IsReset(k) /\ ~(Len(plan[k]) > 1)
               /\ settled' = settled \cup IF alone[k] THEN upserts[k].contracts ELSE {}
         /\ \A j \in Calls \ {k} : IsLeft(j)
<1>1. CASE Len(plan[k]) > 1
  <2>1. GoesOn(k)
    BY <1>1 DEF GoesOn, GoOn, TypeInv, TypeOK
  <2>2. \A j \in Calls \ {k} : IsLeft(j)
    BY <1>1 DEF IsLeft, GoOn, TypeInv, TypeOK
  <2>3. QED
    BY <2>1, <2>2
<1>2. CASE ~(Len(plan[k]) > 1)
  <2>1. Reset(k) /\ pc' = [pc EXCEPT ![k] = "idle"]
    BY <1>2 DEF GoOn
  <2>2. settled' = settled \cup IF alone[k] THEN upserts[k].contracts ELSE {}
    BY <1>2 DEF GoOn
  <2>3. QED
    BY <1>2, <2>1, <2>2, ResetLeaves
<1>3. QED
  BY <1>1, <1>2

LEMMA OthersAreLeft ==
  ASSUME TypeInv, NEW k \in Calls, OfCall(k), NEW j \in Calls \ {k}
  PROVE  IsLeft(j)
<1>1. ASSUME NEW c \in Requested, NEW a \in BOOLEAN, NEW r \in BOOLEAN, Upsert(k, c, a, r) PROVE IsLeft(j)
  <2>1. alone'[j] => alone[j]
    BY <1>1 DEF Upsert, Meet
  <2>2. QED
    BY <1>1, <2>1 DEF IsLeft, Upsert, TypeInv, TypeOK
<1>2. ASSUME NEW e \in Requested \cap Ends, Read(k, e) PROVE IsLeft(j)
  <2>1. alone'[j] => alone[j]
    BY <1>2 DEF Read, Meet
  <2>2. QED
    BY <1>2, <2>1 DEF IsLeft, Read, TypeInv, TypeOK
<1>3. ASSUME NEW e \in Ends, ReadCache(k, e) PROVE IsLeft(j)
  BY <1>3 DEF IsLeft, ReadCache, TypeInv, TypeOK
<1>4. ASSUME NEW e \in Ends, SelectRow(k, e) PROVE IsLeft(j)
  BY <1>4 DEF IsLeft, SelectRow, TypeInv, TypeOK
<1>5. ASSUME NEW e \in Ends, CacheRead(k, e) PROVE IsLeft(j)
  BY <1>5 DEF IsLeft, CacheRead, TypeInv, TypeOK
<1>6. ASSUME NEW e \in Ends, Materialize(k, e) PROVE IsLeft(j)
  <2>1. UNCHANGED <<pc, plan, upserts, copy, alone>>
    BY <1>6 DEF Materialize
  <2>2. part'[j] = part[j]
    <3>1. CASE part' = [part EXCEPT ![k][e] = "materialized"]
      BY <3>1 DEF TypeInv, TypeOK
    <3>2. CASE part' = [part EXCEPT ![k][e] = "done"]
      BY <3>2 DEF TypeInv, TypeOK
    <3>3. QED
      BY <1>6, <3>1, <3>2, Zenon DEF Materialize
  <2>3. QED
    BY <2>1, <2>2 DEF IsLeft
<1>7. ASSUME NEW e \in Ends, Unset(k, e) PROVE IsLeft(j)
  BY <1>7 DEF IsLeft, Unset, TypeInv, TypeOK
<1>8. ASSUME UpsertRow(k) PROVE IsLeft(j)
  BY <1>8 DEF IsLeft, UpsertRow, TypeInv, TypeOK
<1>9. ASSUME CacheRow(k) PROVE IsLeft(j)
  <2>1. CASE Head(plan[k]) \in Ends
    BY <1>9, <2>1, GoOnLeaves DEF CacheRow
  <2>2. CASE Head(plan[k]) \notin Ends
    BY <1>9, <2>2 DEF IsLeft, CacheRow, TypeInv, TypeOK
  <2>3. QED
    BY <2>1, <2>2
<1>10. ASSUME IndexLink(k) PROVE IsLeft(j)
  BY <1>10 DEF IsLeft, IndexLink, TypeInv, TypeOK
<1>11. ASSUME Returned(k) PROVE IsLeft(j)
  BY <1>11, ResetLeaves DEF Returned
<1>12. ASSUME Linked(k) PROVE IsLeft(j)
  BY <1>12, GoOnLeaves DEF Linked
<1>13. ASSUME Fail(k) PROVE IsLeft(j)
  BY <1>13, ResetLeaves DEF Fail
<1>14. QED
  BY <1>1, <1>2, <1>3, <1>4, <1>5, <1>6, <1>7, <1>8, <1>9, <1>10, <1>11, <1>12, <1>13 DEF OfCall

LEMMA LeftIsSame ==
  ASSUME NEW j \in Calls, IsLeft(j)
  PROVE  /\ TouchedBy(j)' = TouchedBy(j) /\ UpsertTouches(j)' = UpsertTouches(j)
         /\ ActiveOf(j)' = ActiveOf(j) /\ (IsWhole(j) => IsWhole(j)')
<1>1. TouchedBy(j)' = TouchedBy(j) /\ UpsertTouches(j)' = UpsertTouches(j)
  BY DEF IsLeft, TouchedBy, UpsertTouches
<1>2. ActiveOf(j)' = ActiveOf(j)
  BY DEF IsLeft, ActiveOf
<1>3. IsWhole(j) => IsWhole(j)'
  BY DEF IsLeft, IsWhole
<1>4. QED
  BY <1>1, <1>2, <1>3

-----------------------------------------------------------------------------
\* What a call has in hand goes on fitting what it awaits.

LEMMA ResetIsWhole ==
  ASSUME NEW k \in Calls, IsReset(k)
  PROVE  IsWhole(k)'
BY DEF IsReset, IsWhole, Upserting

LEMMA GoOnIsWhole ==
  ASSUME TypeInv, NEW k \in Calls, IsWhole(k), pc[k] \in Upserting, GoOn(k)
  PROVE  IsWhole(k)'
<1>1. CASE IsReset(k)
  BY <1>1, ResetIsWhole
<1>2. CASE GoesOn(k)
  <2>1. plan[k] \in Seq(Contracts) /\ plan[k] # <<>>
    BY DEF IsWhole, TypeInv
  <2>2. Tail(plan[k]) # <<>> /\ Elements(Tail(plan[k])) \subseteq Elements(plan[k])
    BY <1>2, <2>1, PlanHead DEF GoesOn
  <2>3. pc'[k] = "upserting" /\ plan'[k] = Tail(plan[k]) /\ part'[k] = NoPart /\ upserts'[k] = upserts[k]
    BY <1>2 DEF GoesOn
  <2>4. QED
    BY <2>2, <2>3 DEF IsWhole, Upserting
<1>3. QED
  BY <1>1, <1>2, GoOnLeaves

LEMMA WholeStep ==
  ASSUME TypeInv, CallsAreWhole, NEW k \in Calls, OfCall(k)
  PROVE  CallsAreWhole'
<1> SUFFICES IsWhole(k)'
  BY OthersAreLeft, LeftIsSame DEF CallsAreWhole
<1>0. IsWhole(k) /\ plan[k] \in Seq(Contracts)
  BY DEF CallsAreWhole, TypeInv
<1>1. ASSUME NEW c \in Requested, NEW a \in BOOLEAN, NEW r \in BOOLEAN, Upsert(k, c, a, r) PROVE IsWhole(k)'
  <2>1. c \in Contracts
    BY ConstantsAssumption
  <2>2. Plan(c) # <<>> /\ Elements(Plan(c)) = {c} \cup IF c \in Users THEN Elements(Dependents[c]) ELSE {}
    BY <2>1, PlanOf
  <2>3. /\ pc'[k] = "upserting" /\ plan'[k] = Plan(c) /\ upserts'[k].contracts = Elements(Plan(c))
        /\ part'[k] = NoPart
    BY <1>0, <1>1 DEF Upsert, TypeInv, TypeOK, IsWhole
  <2>4. ASSUME NEW u \in Elements(Plan(c)) \cap Users PROVE Elements(Dependents[u]) \subseteq Elements(Plan(c))
    <3>1. CASE u = c
      BY <2>2, <3>1
    <3>2. CASE u # c
      <4>1. c \in Users /\ u \in Elements(Dependents[c])
        BY <2>2, <3>2
      <4>2. QED
        BY <4>1, DependentsAreNoUsers
    <3>3. QED
      BY <3>1, <3>2
  <2>5. QED
    BY <2>2, <2>3, <2>4 DEF IsWhole, Upserting
<1>2. ASSUME NEW e \in Requested \cap Ends, Read(k, e) PROVE IsWhole(k)'
  <2>1. pc'[k] = "reading" /\ upserts'[k] = Idle /\ part'[k] = [NoPart EXCEPT ![e] = "unread"]
    BY <1>0, <1>2 DEF Read, TypeInv, TypeOK, IsWhole
  <2>2. QED
    BY <2>1 DEF IsWhole, Upserting, NoPart
<1>3. ASSUME NEW e \in Ends, NEW old \in {"unread", "selected", "read"}, NEW new \in {"selected", "read"},
             part[k][e] = old, part' = [part EXCEPT ![k][e] = new], UNCHANGED <<pc, plan, upserts>>
      PROVE  IsWhole(k)'
  <2>1. part'[k] = [part[k] EXCEPT ![e] = new] /\ part[k] \in [Ends -> PartStates]
    BY <1>3 DEF TypeInv, TypeOK
  <2>2. pc[k] \in {"reading", "linking"}
    <3>1. part[k] # NoPart
      BY <1>3 DEF NoPart
    <3>2. QED
      BY <1>0, <3>1 DEF IsWhole, TypeInv, TypeOK, PcStates
  <2>3. QED
    BY <1>0, <1>3, <2>1, <2>2 DEF IsWhole, Upserting
<1>4. ASSUME NEW e \in Ends, NEW old \in {"read", "materialized"}, NEW new \in {"materialized", "done"},
             part[k][e] = old, part' = [part EXCEPT ![k][e] = new], UNCHANGED <<pc, plan, upserts>>,
             pc[k] = "linking"
      PROVE  IsWhole(k)'
  <2>1. part'[k] = [part[k] EXCEPT ![e] = new] /\ part[k] \in [Ends -> PartStates]
    BY <1>4 DEF TypeInv, TypeOK
  <2>2. QED
    BY <1>0, <1>4, <2>1 DEF IsWhole, Upserting
<1>5. ASSUME NEW e \in Ends, ReadCache(k, e) PROVE IsWhole(k)'
  BY <1>5, <1>3 DEF ReadCache
<1>6. ASSUME NEW e \in Ends, SelectRow(k, e) PROVE IsWhole(k)'
  BY <1>6, <1>3 DEF SelectRow
<1>7. ASSUME NEW e \in Ends, CacheRead(k, e) PROVE IsWhole(k)'
  BY <1>7, <1>3 DEF CacheRead
<1>8. ASSUME NEW e \in Ends, Materialize(k, e) PROVE IsWhole(k)'
  <2>1. part[k][e] = "read" /\ pc[k] = "linking" /\ UNCHANGED <<pc, plan, upserts>>
    BY <1>8 DEF Materialize
  <2>2. CASE part' = [part EXCEPT ![k][e] = "materialized"]
    BY <1>4, <2>1, <2>2
  <2>3. CASE part' = [part EXCEPT ![k][e] = "done"]
    BY <1>4, <2>1, <2>3
  <2>4. QED
    BY <1>8, <2>2, <2>3, Zenon DEF Materialize
<1>9. ASSUME NEW e \in Ends, Unset(k, e) PROVE IsWhole(k)'
  <2>1. pc[k] = "linking"
    <3>1. part[k] # NoPart /\ part[k][e] = "materialized"
      BY <1>9 DEF NoPart, Unset
    <3>2. QED
      BY <1>0, <3>1 DEF IsWhole, TypeInv, TypeOK, PcStates
  <2>2. QED
    BY <1>4, <1>9, <2>1 DEF Unset
<1>10. ASSUME UpsertRow(k) PROVE IsWhole(k)'
  <2>1. pc'[k] = "caching" /\ pc[k] = "upserting" /\ UNCHANGED <<plan, upserts, part>>
    BY <1>10 DEF UpsertRow, TypeInv, TypeOK
  <2>2. QED
    BY <1>0, <2>1 DEF IsWhole, Upserting
<1>11. ASSUME CacheRow(k) PROVE IsWhole(k)'
  <2>1. pc[k] \in Upserting /\ pc[k] = "caching"
    BY <1>11 DEF CacheRow, Upserting
  <2>2. CASE Head(plan[k]) \in Ends
    BY <1>0, <1>11, <2>1, <2>2, GoOnIsWhole DEF CacheRow
  <2>3. CASE Head(plan[k]) \notin Ends
    <3>1. pc'[k] = "indexing" /\ UNCHANGED <<plan, upserts, part>>
      BY <1>11, <2>3 DEF CacheRow, TypeInv, TypeOK
    <3>2. Head(plan[k]) \in LinkIds
      BY <1>0, <2>1, <2>3, PlanHead DEF IsWhole, Contracts
    <3>3. QED
      BY <1>0, <2>1, <3>1, <3>2 DEF IsWhole, Upserting
  <2>4. QED
    BY <2>2, <2>3
<1>12. ASSUME IndexLink(k) PROVE IsWhole(k)'
  <2>1. /\ pc[k] = "indexing" /\ pc'[k] = "linking" /\ UNCHANGED <<plan, upserts>>
        /\ \A e \in Ends : part'[k][e] # "none" <=> e \in EndsOf(Head(plan[k]))
    BY <1>12 DEF IndexLink, TypeInv, TypeOK
  <2>2. QED
    BY <1>0, <2>1 DEF IsWhole, Upserting
<1>13. ASSUME Returned(k) PROVE IsWhole(k)'
  BY <1>13, ResetLeaves, ResetIsWhole DEF Returned
<1>14. ASSUME Linked(k) PROVE IsWhole(k)'
  BY <1>0, <1>14, GoOnIsWhole DEF Linked, Upserting
<1>15. ASSUME Fail(k) PROVE IsWhole(k)'
  BY <1>15, ResetLeaves, ResetIsWhole DEF Fail
<1>16. QED
  BY <1>1, <1>2, <1>5, <1>6, <1>7, <1>8, <1>9, <1>10, <1>11, <1>12, <1>13, <1>14, <1>15 DEF OfCall

-----------------------------------------------------------------------------
\* What a call has to do with.

\* A step that begins call k, one that goes on with it, and one that settles what it
\* has upserted.
Begins(k) ==
  /\ pc[k] = "idle" /\ Meet(k, TouchedBy(k)') /\ settled' = settled \ UpsertTouches(k)'
  /\ UNCHANGED <<active, linkedAt, links2, cached>>

Continues(k) ==
  /\ pc[k] # "idle"
  /\ TouchedBy(k)' \subseteq TouchedBy(k) /\ UpsertTouches(k)' \subseteq UpsertTouches(k)
  /\ \A j \in Calls \ {k} : alone'[j] = alone[j]
  /\ alone'[k] = alone[k] \/ IsReset(k)
  /\ disturbed \subseteq disturbed' /\ disturbed' \subseteq disturbed \cup TouchedBy(k)

Settles(k) ==
  /\ (CacheRow(k) /\ Head(plan[k]) \in Ends) \/ Linked(k)
  /\ pc[k] \in Upserting /\ IsReset(k) /\ alone[k] /\ Elements(plan[k]) = {Head(plan[k])}
  /\ settled' = settled \cup upserts[k].contracts /\ disturbed' = disturbed

LEMMA ResetTouches ==
  ASSUME NEW k \in Calls, IsReset(k)
  PROVE  TouchedBy(k)' = {} /\ UpsertTouches(k)' = {}
<1>1. upserts'[k].contracts = {} /\ \A e \in Ends : part'[k][e] = "none"
  BY DEF IsReset, Idle, NoPart
<1>2. QED
  BY <1>1 DEF TouchedBy, UpsertTouches

LEMMA SameTouches ==
  ASSUME NEW k \in Calls, upserts'[k] = upserts[k],
         \A e \in Ends : part'[k][e] # "none" => e \in TouchedBy(k)
  PROVE  TouchedBy(k)' \subseteq TouchedBy(k) /\ UpsertTouches(k)' = UpsertTouches(k)
<1>1. UpsertTouches(k)' = UpsertTouches(k)
  BY DEF UpsertTouches
<1>2. TouchedBy(k)' = UpsertTouches(k)' \cup {e \in Ends : part'[k][e] # "none"}
  BY DEF TouchedBy, UpsertTouches
<1>3. UpsertTouches(k) \subseteq TouchedBy(k)
  BY DEF TouchedBy, UpsertTouches
<1>4. QED
  BY <1>1, <1>2, <1>3

LEMMA Touching ==
  ASSUME TypeInv, CallsAreWhole, NEW k \in Calls, OfCall(k)
  PROVE  \/ Begins(k)
         \/ Continues(k) /\ (settled' = settled \/ Settles(k))
<1> DEFINE Goal == Begins(k) \/ (Continues(k) /\ (settled' = settled \/ Settles(k)))
<1>0. IsWhole(k) /\ plan[k] \in Seq(Contracts)
  BY DEF CallsAreWhole, TypeInv
<1>a. \A e \in Ends : part[k][e] # "none" => e \in TouchedBy(k)
  BY DEF TouchedBy
<1>1. ASSUME NEW c \in Requested, NEW a \in BOOLEAN, NEW r \in BOOLEAN, Upsert(k, c, a, r) PROVE Goal
  <2>1. pc[k] = "idle" /\ UNCHANGED <<active, linkedAt, links2, cached, part>>
    BY <1>1 DEF Upsert
  <2>2. \A e \in Ends : part[k][e] = "none"
    BY <1>0, <2>1 DEF IsWhole, NoPart
  <2>3. upserts'[k].contracts = Elements(Plan(c))
    BY <1>1 DEF Upsert, TypeInv
  <2>4. PICK T : T = UNION {Touches(d) : d \in Elements(Plan(c))}
    OBVIOUS
  <2>5. UpsertTouches(k)' = T
    BY <2>3, <2>4 DEF UpsertTouches
  <2>6. TouchedBy(k)' = T
    <3>1. TouchedBy(k)' = UpsertTouches(k)' \cup {e \in Ends : part'[k][e] # "none"}
      BY DEF TouchedBy, UpsertTouches
    <3>2. {e \in Ends : part'[k][e] # "none"} = {}
      BY <2>1, <2>2
    <3>3. QED
      BY <2>5, <3>1, <3>2
  <2>7. Meet(k, T) /\ settled' = settled \ T
    BY <1>1, <2>4, Zenon DEF Upsert
  <2>8. QED
    BY <2>1, <2>5, <2>6, <2>7 DEF Begins
<1>2. ASSUME NEW e \in Requested \cap Ends, Read(k, e) PROVE Goal
  <2>1. /\ pc[k] = "idle" /\ Meet(k, {e})
        /\ UNCHANGED <<active, linkedAt, links2, cached, plan, upserts, copy, settled>>
    BY <1>2 DEF Read
  <2>2. upserts[k] = Idle /\ part[k] = NoPart
    BY <1>0, <2>1 DEF IsWhole
  <2>3. part'[k] = [NoPart EXCEPT ![e] = "unread"]
    BY <1>2, <2>2 DEF Read, TypeInv, TypeOK
  <2>4. UpsertTouches(k)' = {}
    BY <2>1, <2>2 DEF UpsertTouches, Idle
  <2>5. TouchedBy(k)' = UpsertTouches(k)' \cup {d \in Ends : part'[k][d] # "none"}
    BY DEF TouchedBy, UpsertTouches
  <2>6. TouchedBy(k)' = {e}
    BY <2>3, <2>4, <2>5 DEF NoPart
  <2>7. QED
    BY <2>1, <2>4, <2>6 DEF Begins
<1>3. ASSUME NEW e \in Ends, part[k][e] # "none", UNCHANGED <<upserts, alone, settled, disturbed>>,
             NEW new, part' = [part EXCEPT ![k][e] = new]
      PROVE  Goal
  <2>1. pc[k] # "idle"
    BY <1>0, <1>3 DEF IsWhole, NoPart
  <2>2. \A d \in Ends : part'[k][d] # "none" => d \in TouchedBy(k)
    BY <1>a, <1>3 DEF TypeInv, TypeOK
  <2>3. QED
    BY <1>3, <2>1, <2>2, SameTouches DEF Continues
<1>4. ASSUME NEW e \in Ends, ReadCache(k, e) PROVE Goal
  BY <1>4, <1>3 DEF ReadCache
<1>5. ASSUME NEW e \in Ends, SelectRow(k, e) PROVE Goal
  BY <1>5, <1>3 DEF SelectRow
<1>6. ASSUME NEW e \in Ends, CacheRead(k, e) PROVE Goal
  BY <1>6, <1>3 DEF CacheRead
<1>7. ASSUME NEW e \in Ends, Materialize(k, e) PROVE Goal
  <2>1. part[k][e] = "read" /\ UNCHANGED <<upserts, alone, settled, disturbed>>
    BY <1>7 DEF Materialize
  <2>2. CASE part' = [part EXCEPT ![k][e] = "materialized"]
    BY <1>3, <2>1, <2>2
  <2>3. CASE part' = [part EXCEPT ![k][e] = "done"]
    BY <1>3, <2>1, <2>3
  <2>4. QED
    BY <1>7, <2>2, <2>3, Zenon DEF Materialize
<1>8. ASSUME NEW e \in Ends, Unset(k, e) PROVE Goal
  BY <1>8, <1>3 DEF Unset
<1>9. ASSUME pc[k] # "idle", UNCHANGED <<upserts, part, alone, settled, disturbed>> PROVE Goal
  BY <1>a, <1>9, SameTouches DEF Continues
<1>10. ASSUME IsReset(k), pc[k] # "idle", \A j \in Calls \ {k} : alone'[j] = alone[j],
              disturbed \subseteq disturbed', disturbed' \subseteq disturbed \cup TouchedBy(k)
       PROVE  Continues(k)
  BY <1>10, ResetTouches DEF Continues
<1>11. ASSUME GoOn(k), pc[k] \in Upserting, disturbed' = disturbed,
              (CacheRow(k) /\ Head(plan[k]) \in Ends) \/ Linked(k)
       PROVE  Goal
  <2>1. plan[k] # <<>>
    BY <1>0, <1>11 DEF IsWhole
  <2>2. CASE GoesOn(k)
    <3>1. upserts' = upserts /\ part'[k] = NoPart /\ UNCHANGED <<alone, settled>>
      BY <2>2 DEF GoesOn
    <3>2. \A e \in Ends : part'[k][e] = "none"
      BY <3>1 DEF NoPart
    <3>3. QED
      BY <1>11, <3>1, <3>2, SameTouches DEF Continues, Upserting
  <2>3. CASE ~GoesOn(k)
    <3>1. /\ IsReset(k) /\ ~(Len(plan[k]) > 1)
          /\ settled' = settled \cup IF alone[k] THEN upserts[k].contracts ELSE {}
      BY <1>11, <2>3, GoOnLeaves
    <3>2. \A j \in Calls \ {k} : alone'[j] = alone[j]
      <4>1. alone' = [alone EXCEPT ![k] = TRUE]
        BY <1>11, <3>1 DEF GoOn, Reset
      <4>2. QED
        BY <4>1 DEF TypeInv, TypeOK
    <3>3. Continues(k)
      BY <1>10, <1>11, <3>1, <3>2 DEF Upserting
    <3>4. Elements(plan[k]) = {Head(plan[k])}
      BY <1>0, <2>1, <3>1, PlanHead
    <3>5. settled' = settled \/ Settles(k)
      BY <1>11, <3>1, <3>4 DEF Settles
    <3>6. QED
      BY <3>3, <3>5
  <2>4. QED
    BY <2>2, <2>3
<1>12. ASSUME UpsertRow(k) PROVE Goal
  BY <1>9, <1>12 DEF UpsertRow
<1>13. ASSUME CacheRow(k) PROVE Goal
  <2>1. CASE Head(plan[k]) \in Ends
    BY <1>11, <1>13, <2>1 DEF CacheRow, Upserting
  <2>2. CASE Head(plan[k]) \notin Ends
    BY <1>9, <1>13, <2>2 DEF CacheRow
  <2>3. QED
    BY <2>1, <2>2
<1>14. ASSUME IndexLink(k) PROVE Goal
  <2>1. pc[k] = "indexing" /\ UNCHANGED <<upserts, alone, settled, disturbed>>
    BY <1>14 DEF IndexLink
  <2>2. \A e \in Ends : part'[k][e] # "none" => e \in EndsOf(Head(plan[k]))
    BY <1>14 DEF IndexLink, TypeInv, TypeOK
  <2>3. Head(plan[k]) \in LinkIds /\ Head(plan[k]) \in upserts[k].contracts
    BY <1>0, <2>1, PlanHead DEF IsWhole, Upserting
  <2>4. EndsOf(Head(plan[k])) \subseteq TouchedBy(k)
    <3>1. EndsOf(Head(plan[k])) \subseteq Touches(Head(plan[k]))
      BY <2>3 DEF Touches
    <3>2. QED
      BY <2>3, <3>1 DEF TouchedBy
  <2>5. QED
    BY <2>1, <2>2, <2>4, SameTouches DEF Continues
<1>15. ASSUME Reset(k), pc[k] # "idle", pc' = [pc EXCEPT ![k] = "idle"], settled' = settled,
              disturbed \subseteq disturbed', disturbed' \subseteq disturbed \cup TouchedBy(k)
       PROVE  Goal
  <2>1. \A j \in Calls \ {k} : alone'[j] = alone[j]
    BY <1>15 DEF Reset, TypeInv, TypeOK
  <2>2. QED
    BY <1>10, <1>15, <2>1, ResetLeaves
<1>16. ASSUME Returned(k) PROVE Goal
  BY <1>15, <1>16 DEF Returned
<1>17. ASSUME Linked(k) PROVE Goal
  BY <1>11, <1>17 DEF Linked, Upserting
<1>18. ASSUME Fail(k) PROVE Goal
  BY <1>15, <1>18 DEF Fail
<1>19. QED
  BY <1>1, <1>2, <1>4, <1>5, <1>6, <1>7, <1>8, <1>12, <1>13, <1>14, <1>16, <1>17, <1>18 DEF OfCall

LEMMA IdleTouches ==
  ASSUME CallsAreWhole, NEW j \in Calls, pc[j] = "idle"
  PROVE  TouchedBy(j) = {} /\ UpsertTouches(j) = {}
<1>1. upserts[j] = Idle /\ part[j] = NoPart
  BY DEF CallsAreWhole, IsWhole
<1>2. QED
  BY <1>1 DEF TouchedBy, UpsertTouches, Idle, NoPart

LEMMA ContractsAreTouched ==
  ASSUME TypeInv, NEW k \in Calls
  PROVE  upserts[k].contracts \subseteq UpsertTouches(k)
BY TouchesType DEF UpsertTouches, TypeInv

LEMMA ApartStep ==
  ASSUME TypeInv, CallsAreWhole, CallsAreApart, NEW k \in Calls, OfCall(k)
  PROVE  CallsAreApart'
<1> SUFFICES ASSUME NEW i \in Calls, NEW j \in Calls, i # j
             PROVE  AreApart(i, j)'
  BY DEF CallsAreApart
<1>1. \A h \in Calls \ {k} : TouchedBy(h)' = TouchedBy(h) /\ (alone'[h] => alone[h])
  BY OthersAreLeft, LeftIsSame DEF IsLeft
<1>2. CASE Begins(k)
  <2>1. Meet(k, TouchedBy(k)') /\ disturbed \subseteq disturbed'
    BY <1>2 DEF Begins, Meet
  <2>2. ASSUME NEW h \in Calls \ {k}, TouchedBy(h) \cap TouchedBy(k)' # {}
        PROVE  /\ ~alone'[h] /\ ~alone'[k]
               /\ TouchedBy(h) \cap TouchedBy(k)' \subseteq disturbed'
    <3>1. pc[h] # "idle"
      BY <2>2, IdleTouches
    <3>2. PICK met : /\ met = {g \in Calls \ {k} : pc[g] # "idle" /\ TouchedBy(g) \cap TouchedBy(k)' # {}}
                     /\ alone' = [g \in Calls |-> IF g = k THEN met = {} ELSE alone[g] /\ g \notin met]
                     /\ disturbed' = disturbed \cup UNION {TouchedBy(g) \cap TouchedBy(k)' : g \in met}
      BY <2>1, Zenon DEF Meet
    <3>3. h \in met
      BY <2>2, <3>1, <3>2
    <3>4. ~alone'[h] /\ ~alone'[k]
      BY <3>2, <3>3
    <3>5. TouchedBy(h) \cap TouchedBy(k)' \subseteq disturbed'
      BY <3>2, <3>3
    <3>6. QED
      BY <3>4, <3>5
  <2>3. CASE i # k /\ j # k
    BY <1>1, <2>1, <2>3 DEF CallsAreApart, AreApart
  <2>4. CASE i = k
    BY <1>1, <2>2, <2>4 DEF AreApart
  <2>5. CASE j = k
    BY <1>1, <2>2, <2>5 DEF AreApart
  <2>6. QED
    BY <2>3, <2>4, <2>5
<1>3. CASE Continues(k)
  <2>1. /\ TouchedBy(k)' \subseteq TouchedBy(k) /\ disturbed \subseteq disturbed'
        /\ (alone'[k] => alone[k]) \/ TouchedBy(k)' = {}
    BY <1>3, ResetTouches DEF Continues
  <2>2. /\ TouchedBy(i)' \subseteq TouchedBy(i) /\ TouchedBy(j)' \subseteq TouchedBy(j)
        /\ (alone'[i] => alone[i]) \/ TouchedBy(i)' = {}
    BY <1>1, <2>1
  <2>3. AreApart(i, j)
    BY DEF CallsAreApart
  <2>4. QED
    BY <2>1, <2>2, <2>3 DEF AreApart
<1>4. QED
  BY <1>2, <1>3, Touching

LEMMA UnsettleStep ==
  ASSUME TypeInv, CallsAreWhole, CallsAreApart, UpsertsUnsettle, NEW k \in Calls, OfCall(k)
  PROVE  UpsertsUnsettle'
<1> SUFFICES ASSUME NEW j \in Calls
             PROVE  UpsertTouches(j)' \cap settled' = {}
  BY DEF UpsertsUnsettle
<1>1. UpsertTouches(j) \cap settled = {}
  BY DEF UpsertsUnsettle
<1>2. j # k => UpsertTouches(j)' = UpsertTouches(j)
  BY OthersAreLeft, LeftIsSame
<1>3. CASE Begins(k)
  BY <1>1, <1>2, <1>3 DEF Begins
<1>4. CASE Continues(k) /\ settled' = settled
  BY <1>1, <1>2, <1>4 DEF Continues
<1>5. CASE Continues(k) /\ Settles(k)
  <2>1. CASE j = k
    BY <1>5, <2>1, ResetTouches DEF Settles
  <2>2. CASE j # k
    <3>1. TouchedBy(k) \cap TouchedBy(j) = {}
      BY <1>5, <2>2 DEF Settles, CallsAreApart, AreApart
    <3>2. upserts[k].contracts \subseteq TouchedBy(k) /\ UpsertTouches(j) \subseteq TouchedBy(j)
      BY ContractsAreTouched, TouchesType
    <3>3. settled' = settled \cup upserts[k].contracts
      BY <1>5 DEF Settles
    <3>4. QED
      BY <1>1, <1>2, <2>2, <3>1, <3>2, <3>3
  <2>3. QED
    BY <2>1, <2>2
<1>6. QED
  BY <1>3, <1>4, <1>5, Touching

-----------------------------------------------------------------------------
\* What a step writes.

LEMMA Effects ==
  ASSUME NEW k \in Calls, OfCall(k)
  PROVE  /\ active' = active \/ UpsertRow(k)
         /\ links2' = links2 \/ IndexLink(k)
         /\ linkedAt' = linkedAt \/ \E e \in Ends : Materialize(k, e) /\ Materializes(k, e)
<1>1. active' = active \/ UpsertRow(k)
  BY DEF OfCall, Upsert, Read, ReadCache, SelectRow, CacheRead, Materialize, Unset, CacheRow,
         IndexLink, Returned, Linked, Fail
<1>2. links2' = links2 \/ IndexLink(k)
  BY DEF OfCall, Upsert, Read, ReadCache, SelectRow, CacheRead, Materialize, Unset, CacheRow,
         UpsertRow, Returned, Linked, Fail
<1>3. linkedAt' = linkedAt \/ \E e \in Ends : Materialize(k, e) /\ Materializes(k, e)
  <2>1. ASSUME NEW e \in Ends, Materialize(k, e), ~Materializes(k, e) PROVE linkedAt' = linkedAt
    BY <2>1 DEF Materialize
  <2>2. QED
    BY <2>1 DEF OfCall, Upsert, Read, ReadCache, SelectRow, CacheRead, Unset, CacheRow,
                UpsertRow, IndexLink, Returned, Linked, Fail
<1>4. QED
  BY <1>1, <1>2, <1>3

\* The head of a plan is among what its call upserts.
LEMMA HeadIsUpserted ==
  ASSUME TypeInv, CallsAreWhole, NEW k \in Calls, pc[k] \in Upserting
  PROVE  /\ Head(plan[k]) \in upserts[k].contracts /\ Head(plan[k]) \in Contracts
         /\ Head(plan[k]) \in Elements(plan[k])
         /\ Elements(plan[k]) = {Head(plan[k])} \cup Elements(Tail(plan[k]))
<1>1. plan[k] \in Seq(Contracts) /\ plan[k] # <<>> /\ Elements(plan[k]) \subseteq upserts[k].contracts
  BY DEF TypeInv, CallsAreWhole, IsWhole
<1>2. QED
  BY <1>1, PlanHead

\* Rows of a contract are written by the call that is upserting it.
LEMMA RowsAreLeft ==
  ASSUME TypeInv, CallsAreWhole, NEW k \in Calls, OfCall(k), NEW c \in Contracts,
         ~(pc[k] \in Upserting /\ c = Head(plan[k]))
  PROVE  active'[c] = active[c] /\ {r \in links2' : r.id = c} = {r \in links2 : r.id = c}
<1>1. active'[c] = active[c]
  <2>1. CASE active' = active
    BY <2>1
  <2>2. CASE UpsertRow(k)
    <3>1. c # Head(plan[k]) /\ active' = [active EXCEPT ![Head(plan[k])] = ActiveOf(k)]
      BY <2>2 DEF UpsertRow, Upserting
    <3>2. QED
      BY <3>1 DEF TypeInv, TypeOK
  <2>3. QED
    BY <2>1, <2>2, Effects
<1>2. {r \in links2' : r.id = c} = {r \in links2 : r.id = c}
  <2>1. CASE links2' = links2
    BY <2>1
  <2>2. CASE IndexLink(k)
    <3>1. c # Head(plan[k])
      BY <2>2 DEF IndexLink, Upserting
    <3>2. links2' \in {links2 \cup BothRows(Head(plan[k])), links2 \ BothRows(Head(plan[k]))}
      BY <2>2 DEF IndexLink, WithoutRows
    <3>3. \A r \in BothRows(Head(plan[k])) : r.id = Head(plan[k])
      BY DEF BothRows, Row
    <3>4. QED
      BY <3>1, <3>2, <3>3
  <2>3. QED
    BY <2>1, <2>2, Effects
<1>3. QED
  BY <1>1, <1>2

\* A link that materialises at an undisturbed end has read the row of it.
LEMMA ReadsTheRow ==
  ASSUME TypeInv, CallsAreWhole, CopiesAreCurrent, NEW k \in Calls, NEW e \in Ends \ disturbed,
         Materialize(k, e), copy[k][e] # Gone
  PROVE  active[e] # None /\ copy[k][e] = linkedAt[e]
<1>1. part[k][e] = "read"
  BY DEF Materialize
<1>2. copy[k][e] = InRow(e)
  BY <1>1 DEF CopiesAreCurrent, IsCurrent
<1>3. QED
  BY <1>2 DEF InRow

LEMMA MaterializeEnd ==
  ASSUME CallsAreWhole, NEW k \in Calls, NEW e \in Ends, Materialize(k, e)
  PROVE  Head(plan[k]) \in LinkIds /\ e \in EndsOf(Head(plan[k]))
BY DEF Materialize, CallsAreWhole, IsWhole

\* The first link under a name is kept.
LEMMA FirstIsKept ==
  ASSUME TypeInv, CallsAreWhole, CopiesAreCurrent, NEW k \in Calls, OfCall(k),
         NEW e \in Ends \ disturbed, NEW n \in Names, linkedAt[e][n] # None
  PROVE  linkedAt'[e][n] = linkedAt[e][n]
<1>1. CASE linkedAt' = linkedAt
  BY <1>1
<1>2. ASSUME NEW d \in Ends, Materialize(k, d), Materializes(k, d)
      PROVE  linkedAt'[e][n] = linkedAt[e][n]
  <2>1. linkedAt' = [linkedAt EXCEPT ![d] = Updated(k, d)]
    BY <1>2 DEF Materialize
  <2>2. CASE d # e
    BY <2>1, <2>2 DEF TypeInv, TypeOK
  <2>3. CASE d = e
    <3>1. Head(plan[k]) \in LinkIds /\ e \in EndsOf(Head(plan[k]))
      BY <1>2, <2>3, MaterializeEnd
    <3>2. copy[k][e] # Gone
      BY <1>2, <2>3, <3>1 DEF Materializes
    <3>3. copy[k][e] = linkedAt[e]
      BY <1>2, <2>3, <3>2, ReadsTheRow
    <3>4. Updated(k, e)[n] = linkedAt[e][n]
      BY <3>1, <3>2, <3>3, UpdatedType
    <3>5. linkedAt'[e] = Updated(k, e)
      BY <2>1, <2>3 DEF TypeInv, TypeOK
    <3>6. QED
      BY <3>4, <3>5
  <2>4. QED
    BY <2>2, <2>3
<1>3. QED
  BY <1>1, <1>2, Effects

LEMMA DisturbedGrows ==
  ASSUME TypeInv, CallsAreWhole, NEW k \in Calls, OfCall(k)
  PROVE  disturbed \subseteq disturbed'
BY Touching DEF Begins, Meet, Continues

LEMMA RecordedIsKept ==
  ASSUME TypeInv, CallsAreWhole, CopiesAreCurrent, NEW k \in Calls, OfCall(k),
         NEW l \in LinkIds, IsRecorded(l)
  PROVE  IsRecorded(l)'
<1> SUFFICES ASSUME EndsOf(l) \cap disturbed' = {}, NEW e \in EndsOf(l)
             PROVE  linkedAt'[e][NameAt(l, e)] # None
  BY DEF IsRecorded
<1>1. EndsOf(l) \cap disturbed = {}
  BY DisturbedGrows
<1>2. e \in Ends \ disturbed /\ NameAt(l, e) \in Names
  BY <1>1, ConstantsAssumption DEF EndsOf, NameAt, Names
<1>3. linkedAt[e][NameAt(l, e)] # None
  BY <1>1 DEF IsRecorded
<1>4. QED
  BY <1>2, <1>3, FirstIsKept

-----------------------------------------------------------------------------
\* What a call that is alone has done stays done.

LEMMA DoneIsKept ==
  ASSUME TypeInv, CallsAreWhole, CopiesAreCurrent, NEW k \in Calls, OfCall(k),
         NEW j \in Calls, upserts'[j] = upserts[j], NEW c \in Contracts,
         ~(pc[k] \in Upserting /\ c = Head(plan[k])), IsDone(j, c)
  PROVE  IsDone(j, c)'
<1>1. active'[c] = active[c] /\ {r \in links2' : r.id = c} = {r \in links2 : r.id = c}
  BY RowsAreLeft
<1>2. ActiveOf(j)' = ActiveOf(j)
  BY DEF ActiveOf
<1>3. c \in LinkIds => (Indexed(j, c) => Indexed(j, c)')
  BY <1>1, <1>2 DEF Indexed
<1>4. c \in LinkIds => (IsRecorded(c) => IsRecorded(c)')
  BY RecordedIsKept
<1>5. QED
  BY <1>1, <1>2, <1>3, <1>4 DEF IsDone

\* A link that is materialised at all of its ends is recorded there.
LEMMA LinkedIsRecorded ==
  ASSUME TypeInv, CallsAreWhole, LinkingIsRight, NEW k \in Calls, Linked(k), ActiveOf(k)
  PROVE  Head(plan[k]) \in LinkIds /\ IsRecorded(Head(plan[k]))
<1>1. PICK l : l = Head(plan[k])
  OBVIOUS
<1>2. /\ pc[k] = "linking" /\ l \in LinkIds
      /\ \A e \in Ends : part[k][e] # "none" <=> e \in EndsOf(l)
      /\ \A e \in Ends : part[k][e] \in {"none", "done"}
  BY <1>1 DEF Linked, CallsAreWhole, IsWhole
<1>3. EndsOf(l) \subseteq Ends
  BY <1>2, ConstantsAssumption DEF EndsOf
<1>4. \A e \in EndsOf(l) : part[k][e] = "done" /\ IsLinking(k, e)
  BY <1>1, <1>2, <1>3 DEF LinkingIsRight
<1>5. IsRecorded(l)
  BY <1>1, <1>4 DEF IsRecorded, IsLinking
<1>6. QED
  BY <1>1, <1>2, <1>5

LEMMA HeadIsDone ==
  ASSUME TypeInv, CallsAreWhole, WorkIsDone, LinkingIsRight, NEW k \in Calls, alone[k],
         (CacheRow(k) /\ Head(plan[k]) \in Ends) \/ Linked(k)
  PROVE  IsDone(k, Head(plan[k]))
<1>1. CASE CacheRow(k) /\ Head(plan[k]) \in Ends
  <2>1. pc[k] = "caching" /\ Head(plan[k]) \notin LinkIds
    BY <1>1, ConstantsAssumption DEF CacheRow
  <2>2. QED
    BY <2>1 DEF WorkIsDone, GetsOn, Upserting, IsDone
<1>2. CASE Linked(k)
  <2>1. pc[k] = "linking"
    BY <1>2 DEF Linked
  <2>2. active[Head(plan[k])] = ActiveOf(k) /\ Indexed(k, Head(plan[k]))
    BY <2>1 DEF WorkIsDone, GetsOn, Upserting
  <2>3. QED
    BY <1>2, <2>2, LinkedIsRecorded DEF IsDone
<1>3. QED
  BY <1>1, <1>2

LEMMA OthersGetOn ==
  ASSUME TypeInv, CallsAreWhole, CallsAreApart, WorkIsDone, CopiesAreCurrent,
         NEW k \in Calls, OfCall(k), NEW j \in Calls \ {k}
  PROVE  GetsOn(j)'
<1> SUFFICES ASSUME alone'[j], pc'[j] \in Upserting
             PROVE  /\ \A c \in upserts'[j].contracts \ Elements(plan'[j]) : IsDone(j, c)'
                    /\ pc'[j] # "upserting" => active'[Head(plan'[j])] = ActiveOf(j)'
                    /\ pc'[j] = "linking" => Indexed(j, Head(plan[j]))'
  BY DEF GetsOn
<1>1. IsLeft(j) /\ ActiveOf(j)' = ActiveOf(j)
  BY OthersAreLeft, LeftIsSame
<1>2. alone[j] /\ pc[j] \in Upserting
  BY <1>1 DEF IsLeft
<1>3. /\ \A c \in upserts[j].contracts \ Elements(plan[j]) : IsDone(j, c)
      /\ pc[j] # "upserting" => active[Head(plan[j])] = ActiveOf(j)
      /\ pc[j] = "linking" => Indexed(j, Head(plan[j]))
  BY <1>2 DEF WorkIsDone, GetsOn
<1>4. ASSUME NEW c \in upserts[j].contracts
      PROVE  c \in Contracts /\ ~(pc[k] \in Upserting /\ c = Head(plan[k]))
  <2>1. TouchedBy(j) \cap TouchedBy(k) = {}
    BY <1>2 DEF CallsAreApart, AreApart
  <2>2. c \in TouchedBy(j) /\ upserts[k].contracts \subseteq TouchedBy(k)
    BY ContractsAreTouched, TouchesType
  <2>3. c \in Contracts
    BY DEF TypeInv
  <2>4. QED
    BY <2>1, <2>2, <2>3, HeadIsUpserted
<1>5. ASSUME NEW c \in upserts'[j].contracts \ Elements(plan'[j]) PROVE IsDone(j, c)'
  <2>1. c \in upserts[j].contracts \ Elements(plan[j])
    BY <1>1 DEF IsLeft
  <2>2. QED
    BY <1>1, <1>3, <1>4, <2>1, DoneIsKept DEF IsLeft
<1>6. PICK h : h = Head(plan[j])
  OBVIOUS
<1>7. h \in upserts[j].contracts
  BY <1>2, <1>6, HeadIsUpserted
<1>8. active'[h] = active[h] /\ {r \in links2' : r.id = h} = {r \in links2 : r.id = h}
  BY <1>4, <1>7, RowsAreLeft
<1>9. Head(plan'[j]) = h /\ pc'[j] = pc[j]
  BY <1>1, <1>6 DEF IsLeft
<1>10. pc'[j] # "upserting" => active'[Head(plan'[j])] = ActiveOf(j)'
  BY <1>1, <1>3, <1>6, <1>8, <1>9
<1>11. pc'[j] = "linking" => Indexed(j, Head(plan[j]))'
  BY <1>1, <1>3, <1>6, <1>8, <1>9 DEF Indexed
<1>12. QED
  BY <1>5, <1>10, <1>11

LEMMA OwnGetsOn ==
  ASSUME TypeInv, CallsAreWhole, WorkIsDone, LinkingIsRight, CopiesAreCurrent,
         NEW k \in Calls, OfCall(k)
  PROVE  GetsOn(k)'
<1>0. /\ plan[k] \in Seq(Contracts) /\ IsWhole(k) /\ GetsOn(k) /\ upserts[k].contracts \subseteq Contracts
      /\ ActiveOf(k) \in BOOLEAN
  BY DEF TypeInv, CallsAreWhole, WorkIsDone, ActiveOf
<1>1. CASE pc'[k] \notin Upserting
  BY <1>1 DEF GetsOn
<1>2. ASSUME NEW c \in Requested, NEW a \in BOOLEAN, NEW r \in BOOLEAN, Upsert(k, c, a, r) PROVE GetsOn(k)'
  <2>1. pc'[k] = "upserting" /\ plan'[k] = Plan(c) /\ upserts'[k].contracts = Elements(Plan(c))
    BY <1>2 DEF Upsert, TypeInv, TypeOK
  <2>2. QED
    BY <2>1 DEF GetsOn
<1>3. ASSUME pc[k] \in Upserting, UNCHANGED <<active, links2, linkedAt, pc, plan, upserts, alone>>
      PROVE  GetsOn(k)'
  <2>1. SUFFICES ASSUME alone[k] PROVE GetsOn(k)'
    BY <1>3 DEF GetsOn
  <2>2. ASSUME NEW c \in upserts[k].contracts \ Elements(plan[k]) PROVE IsDone(k, c)'
    <3>1. IsDone(k, c) /\ c # Head(plan[k])
      BY <1>0, <1>3, <2>1, HeadIsUpserted DEF GetsOn
    <3>2. QED
      BY <1>0, <1>3, <3>1, DoneIsKept
  <2>3. QED
    BY <1>0, <1>3, <2>1, <2>2 DEF GetsOn, Indexed, ActiveOf
<1>4. ASSUME pc[k] \in Upserting, upserts'[k] = upserts[k], alone[k],
             NEW c \in upserts[k].contracts \ Elements(plan[k])
      PROVE  IsDone(k, c)'
  <2>1. IsDone(k, c) /\ c # Head(plan[k])
    BY <1>0, <1>4, HeadIsUpserted DEF GetsOn
  <2>2. QED
    BY <1>0, <1>4, <2>1, DoneIsKept
<1>5. ASSUME UpsertRow(k) PROVE GetsOn(k)'
  <2>1. /\ pc[k] = "upserting" /\ pc'[k] = "caching" /\ UNCHANGED <<plan, upserts, alone>>
        /\ active' = [active EXCEPT ![Head(plan[k])] = ActiveOf(k)]
    BY <1>5 DEF UpsertRow, TypeInv, TypeOK
  <2>2. Head(plan[k]) \in Contracts
    BY <2>1, HeadIsUpserted DEF Upserting
  <2>3. active'[Head(plan[k])] = ActiveOf(k) /\ ActiveOf(k)' = ActiveOf(k)
    BY <2>1, <2>2 DEF TypeInv, TypeOK, ActiveOf
  <2>4. QED
    BY <1>4, <2>1, <2>3 DEF GetsOn, Upserting
<1>6. ASSUME IndexLink(k) PROVE GetsOn(k)'
  <2>1. /\ pc[k] = "indexing" /\ pc'[k] = "linking" /\ UNCHANGED <<active, plan, upserts, alone>>
        /\ links2' = IF ActiveOf(k) THEN links2 \cup BothRows(Head(plan[k]))
                     ELSE links2 \ BothRows(Head(plan[k]))
    BY <1>0, <1>6 DEF IndexLink, WithoutRows, TypeInv, TypeOK
  <2>2. PICK l \in LinkIds : l = Head(plan[k])
    BY <1>0, <2>1 DEF IsWhole
  <2>3. /\ \A r \in BothRows(l) : r.id = l
        /\ \A r \in [id: LinkIds, forward: BOOLEAN] : r.id = l => r \in BothRows(l)
    BY DEF BothRows, Row
  <2>4. links2 \subseteq [id: LinkIds, forward: BOOLEAN]
    BY DEF TypeInv, TypeOK
  <2>5. {r \in links2' : r.id = l} = IF ActiveOf(k) THEN BothRows(l) ELSE {}
    BY <1>0, <2>1, <2>2, <2>3, <2>4
  <2>6. Indexed(k, Head(plan[k]))'
    BY <2>1, <2>2, <2>5 DEF Indexed, ActiveOf
  <2>7. alone[k] => active[Head(plan[k])] = ActiveOf(k)
    BY <1>0, <2>1 DEF GetsOn, Upserting
  <2>8. QED
    BY <1>4, <2>1, <2>6, <2>7 DEF GetsOn, Upserting, ActiveOf
<1>7. ASSUME GoesOn(k), (CacheRow(k) /\ Head(plan[k]) \in Ends) \/ Linked(k) PROVE GetsOn(k)'
  <2>1. /\ pc'[k] = "upserting" /\ plan'[k] = Tail(plan[k]) /\ UNCHANGED <<active, links2, linkedAt, upserts, alone>>
        /\ pc[k] \in Upserting
    BY <1>7 DEF GoesOn, CacheRow, Linked, Upserting
  <2>2. SUFFICES ASSUME alone[k], NEW c \in upserts[k].contracts \ Elements(Tail(plan[k]))
                 PROVE  IsDone(k, c)'
    BY <2>1 DEF GetsOn
  <2>3. CASE c \notin Elements(plan[k])
    BY <1>4, <2>1, <2>2, <2>3
  <2>4. CASE c \in Elements(plan[k])
    <3>1. c = Head(plan[k])
      BY <2>1, <2>2, <2>4, HeadIsUpserted
    <3>2. IsDone(k, c)
      BY <1>7, <2>2, <3>1, HeadIsDone
    <3>3. c \in LinkIds => (IsRecorded(c) => IsRecorded(c)')
      BY RecordedIsKept
    <3>4. QED
      BY <2>1, <3>2, <3>3 DEF IsDone, Indexed, ActiveOf
  <2>5. QED
    BY <2>3, <2>4
<1>8. ASSUME (CacheRow(k) /\ Head(plan[k]) \in Ends) \/ Linked(k) PROVE GetsOn(k)'
  <2>1. GoesOn(k) \/ IsReset(k)
    BY <1>8, GoOnLeaves DEF CacheRow, Linked
  <2>2. CASE IsReset(k)
    BY <1>1, <2>2 DEF IsReset, Upserting
  <2>3. QED
    BY <1>7, <1>8, <2>1, <2>2
<1>9. ASSUME CacheRow(k), Head(plan[k]) \notin Ends PROVE GetsOn(k)'
  <2>1. /\ pc[k] = "caching" /\ pc'[k] = "indexing"
        /\ UNCHANGED <<active, links2, linkedAt, plan, upserts, alone>>
    BY <1>9 DEF CacheRow, TypeInv, TypeOK
  <2>2. alone[k] => active[Head(plan[k])] = ActiveOf(k)
    BY <1>0, <2>1 DEF GetsOn, Upserting
  <2>3. QED
    BY <1>4, <2>1, <2>2 DEF GetsOn, Upserting, ActiveOf
<1>10. ASSUME NEW e \in Ends, Materialize(k, e) PROVE GetsOn(k)'
  <2>1. pc[k] = "linking" /\ UNCHANGED <<active, links2, pc, plan, upserts, alone>>
    BY <1>10 DEF Materialize
  <2>2. alone[k] => active[Head(plan[k])] = ActiveOf(k) /\ Indexed(k, Head(plan[k]))
    BY <1>0, <2>1 DEF GetsOn, Upserting
  <2>3. QED
    BY <1>4, <2>1, <2>2 DEF GetsOn, Upserting, ActiveOf, Indexed
<1>11. ASSUME UNCHANGED <<active, links2, linkedAt, pc, plan, upserts, alone>> PROVE GetsOn(k)'
  BY <1>1, <1>3, <1>11
<1>12. ASSUME Returned(k) \/ Fail(k) PROVE GetsOn(k)'
  <2>1. IsReset(k)
    BY <1>12, ResetLeaves DEF Returned, Fail
  <2>2. QED
    BY <1>1, <2>1 DEF IsReset, Upserting
<1>13. ASSUME NEW e \in Requested \cap Ends, Read(k, e) PROVE GetsOn(k)'
  BY <1>1, <1>13 DEF Read, Upserting, TypeInv, TypeOK
<1>14. ASSUME NEW e \in Ends, ReadCache(k, e) \/ SelectRow(k, e) \/ CacheRead(k, e) \/ Unset(k, e)
       PROVE  GetsOn(k)'
  BY <1>11, <1>14 DEF ReadCache, SelectRow, CacheRead, Unset
<1>15. ASSUME CacheRow(k) PROVE GetsOn(k)'
  BY <1>8, <1>9, <1>15
<1>16. QED
  BY <1>2, <1>5, <1>6, <1>8, <1>10, <1>12, <1>13, <1>14, <1>15 DEF OfCall

LEMMA WorkStep ==
  ASSUME TypeInv, CallsAreWhole, CallsAreApart, WorkIsDone, LinkingIsRight, CopiesAreCurrent,
         NEW k \in Calls, OfCall(k)
  PROVE  WorkIsDone'
BY OthersGetOn, OwnGetsOn DEF WorkIsDone

-----------------------------------------------------------------------------
\* What is settled is as the last upsert of it has left it.

\* A settled contract is either newly settled, and all that its call upserts is done,
\* or nothing in the step writes a row of it.
LEMMA SettledRows ==
  ASSUME TypeInv, CallsAreWhole, UpsertsUnsettle, WorkIsDone, LinkingIsRight,
         NEW k \in Calls, OfCall(k), NEW c \in settled'
  PROVE  \/ c \in settled /\ ~(pc[k] \in Upserting /\ Head(plan[k]) \in Contracts /\ c \in Touches(Head(plan[k])))
         \/ /\ Settles(k) /\ c \in upserts[k].contracts
            /\ \A d \in upserts[k].contracts : IsDone(k, d)
<1>1. CASE c \in settled
  <2>1. c \notin UpsertTouches(k)
    BY <1>1 DEF UpsertsUnsettle
  <2>2. pc[k] \in Upserting => Touches(Head(plan[k])) \subseteq UpsertTouches(k)
    BY HeadIsUpserted DEF UpsertTouches
  <2>3. QED
    BY <1>1, <2>1, <2>2
<1>2. CASE c \notin settled
  <2>1. Settles(k) /\ c \in upserts[k].contracts
    BY <1>2, Touching DEF Begins, Settles
  <2>2. alone[k] /\ pc[k] \in Upserting /\ Elements(plan[k]) = {Head(plan[k])}
    BY <2>1 DEF Settles
  <2>3. \A d \in upserts[k].contracts \ Elements(plan[k]) : IsDone(k, d)
    BY <2>2 DEF WorkIsDone, GetsOn
  <2>4. IsDone(k, Head(plan[k]))
    BY <2>1, <2>2, HeadIsDone DEF Settles
  <2>5. QED
    BY <2>1, <2>2, <2>3, <2>4
<1>3. QED
  BY <1>1, <1>2

LEMMA SettlesWrites ==
  ASSUME NEW k \in Calls, Settles(k)
  PROVE  UNCHANGED <<active, linkedAt, links2, disturbed>>
BY DEF Settles, CacheRow, Linked

LEMMA RowsStep ==
  ASSUME TypeInv, CallsAreWhole, UpsertsUnsettle, WorkIsDone, LinkingIsRight,
         NEW k \in Calls, OfCall(k), RowsFollowLinks
  PROVE  RowsFollowLinks'
<1> SUFFICES ASSUME NEW l \in settled', l \in LinkIds
             PROVE  {r \in links2' : r.id = l} = IF active'[l] THEN BothRows(l) ELSE {}
  BY DEF RowsFollowLinks
<1>0. l \in Contracts /\ l \in Touches(l)
  BY TouchesType DEF Contracts
<1>1. CASE l \in settled /\ ~(pc[k] \in Upserting /\ Head(plan[k]) \in Contracts /\ l \in Touches(Head(plan[k])))
  <2>1. ~(pc[k] \in Upserting /\ l = Head(plan[k]))
    BY <1>0, <1>1
  <2>2. active'[l] = active[l] /\ {r \in links2' : r.id = l} = {r \in links2 : r.id = l}
    BY <1>0, <2>1, RowsAreLeft
  <2>3. {r \in links2 : r.id = l} = IF active[l] THEN BothRows(l) ELSE {}
    BY <1>1 DEF RowsFollowLinks
  <2>4. QED
    BY <2>2, <2>3
<1>2. CASE Settles(k) /\ IsDone(k, l)
  <2>1. active[l] = ActiveOf(k) /\ {r \in links2 : r.id = l} = IF ActiveOf(k) THEN BothRows(l) ELSE {}
    BY <1>2 DEF IsDone, Indexed
  <2>2. active' = active /\ links2' = links2
    BY <1>2, SettlesWrites
  <2>3. QED
    BY <2>1, <2>2
<1>3. QED
  BY <1>1, <1>2, SettledRows

LEMMA MaterializedStep ==
  ASSUME TypeInv, CallsAreWhole, UpsertsUnsettle, WorkIsDone, LinkingIsRight, CopiesAreCurrent,
         NEW k \in Calls, OfCall(k), LinksAreMaterialized
  PROVE  LinksAreMaterialized'
<1> SUFFICES ASSUME NEW l \in settled', l \in LinkIds, active'[l]
             PROVE  IsRecorded(l)'
  BY DEF LinksAreMaterialized, IsRecorded
<1>0. l \in Contracts /\ l \in Touches(l)
  BY TouchesType DEF Contracts
<1>1. CASE l \in settled /\ ~(pc[k] \in Upserting /\ Head(plan[k]) \in Contracts /\ l \in Touches(Head(plan[k])))
  <2>1. active'[l] = active[l]
    BY <1>0, <1>1, RowsAreLeft
  <2>2. IsRecorded(l)
    BY <1>1, <2>1 DEF LinksAreMaterialized, IsRecorded
  <2>3. QED
    BY <2>2, RecordedIsKept
<1>2. CASE Settles(k) /\ IsDone(k, l)
  <2>1. active[l] = ActiveOf(k) /\ (ActiveOf(k) => IsRecorded(l))
    BY <1>2 DEF IsDone
  <2>2. active'[l] = active[l]
    BY <1>2, SettlesWrites
  <2>3. IsRecorded(l)
    BY <2>1, <2>2
  <2>4. QED
    BY <2>3, RecordedIsKept
<1>3. QED
  BY <1>1, <1>2, SettledRows

LEMMA DependentsStep ==
  ASSUME TypeInv, CallsAreWhole, UpsertsUnsettle, WorkIsDone, LinkingIsRight,
         NEW k \in Calls, OfCall(k), DependentsFollowUser
  PROVE  DependentsFollowUser'
<1> SUFFICES ASSUME NEW u \in settled', u \in Users, NEW c \in Elements(Dependents[u])
             PROVE  active'[c] = active'[u]
  BY DEF DependentsFollowUser
<1>0. u \in Contracts /\ c \in Contracts /\ u \in Touches(u) /\ u \in Touches(c)
  <2>1. u \in Contracts
    BY ConstantsAssumption DEF Contracts
  <2>2. c \in Contracts
    BY DependentsAreNoUsers
  <2>3. QED
    BY <2>1, <2>2 DEF Touches
<1>1. CASE u \in settled /\ ~(pc[k] \in Upserting /\ Head(plan[k]) \in Contracts /\ u \in Touches(Head(plan[k])))
  <2>1. ~(pc[k] \in Upserting /\ u = Head(plan[k])) /\ ~(pc[k] \in Upserting /\ c = Head(plan[k]))
    BY <1>0, <1>1
  <2>2. active'[u] = active[u] /\ active'[c] = active[c]
    BY <1>0, <2>1, RowsAreLeft
  <2>3. QED
    BY <1>1, <2>2 DEF DependentsFollowUser
<1>2. CASE Settles(k) /\ u \in upserts[k].contracts /\ \A d \in upserts[k].contracts : IsDone(k, d)
  <2>1. Elements(Dependents[u]) \subseteq upserts[k].contracts
    BY <1>2 DEF Settles, CallsAreWhole, IsWhole
  <2>2. active[u] = ActiveOf(k) /\ active[c] = ActiveOf(k)
    BY <1>2, <2>1 DEF IsDone
  <2>3. QED
    BY <1>2, <2>2, SettlesWrites
<1>3. QED
  BY <1>1, <1>2, SettledRows

-----------------------------------------------------------------------------
\* What is read of an undisturbed contract is its row.

\* Nobody but a call that has to do with an undisturbed contract has to do with it.
LEMMA OnlyOne ==
  ASSUME TypeInv, CallsAreWhole, CallsAreApart, NEW k \in Calls,
         NEW e \in Ends \ disturbed, e \in TouchedBy(k), NEW j \in Calls \ {k}
  PROVE  e \notin TouchedBy(j) /\ part[j][e] = "none" /\ ~Caching(j, e)
<1>1. e \notin TouchedBy(j)
  BY DEF CallsAreApart, AreApart
<1>2. part[j][e] = "none"
  BY <1>1 DEF TouchedBy
<1>3. ~Caching(j, e)
  <2>1. SUFFICES ASSUME Caching(j, e) PROVE FALSE
    OBVIOUS
  <2>2. e \in upserts[j].contracts
    BY <2>1, HeadIsUpserted DEF Caching, Upserting
  <2>3. QED
    BY <1>1, <2>2, ContractsAreTouched, TouchesType
<1>4. QED
  BY <1>1, <1>2, <1>3

\* The cache has nothing else, unless the one call that has to do with it is about to
\* cache it or to unset it.
LEMMA CachedIsRow ==
  ASSUME TypeInv, CallsAreWhole, CallsAreApart, CopiesAreCurrent, NEW k \in Calls,
         NEW e \in Ends \ disturbed, e \in TouchedBy(k), ~Caching(k, e), part[k][e] # "materialized"
  PROVE  cached[e] \in {Absent, InRow(e)}
BY OnlyOne DEF CopiesAreCurrent, IsCurrent

\* A call that has part in a contract, or caches it, has to do with it.
LEMMA PartIsTouched ==
  ASSUME TypeInv, CallsAreWhole, NEW k \in Calls, NEW e \in Ends,
         part[k][e] # "none" \/ (pc[k] \in Upserting /\ Head(plan[k]) = e)
  PROVE  e \in TouchedBy(k)
<1>1. CASE part[k][e] # "none"
  BY <1>1 DEF TouchedBy
<1>2. CASE pc[k] \in Upserting /\ Head(plan[k]) = e
  BY <1>2, HeadIsUpserted, ContractsAreTouched, TouchesType
<1>3. QED
  BY <1>1, <1>2

\* The rows that exist go on existing.
LEMMA RowsStay ==
  ASSUME TypeInv, NEW k \in Calls, OfCall(k), NEW c \in Contracts, active[c] # None
  PROVE  active'[c] # None
<1>1. CASE active' = active
  BY <1>1
<1>2. CASE UpsertRow(k)
  <2>1. ActiveOf(k) \in BOOLEAN
    BY DEF ActiveOf, TypeInv
  <2>2. ActiveOf(k) # None
    BY <2>1, ConstantsAssumption
  <2>3. QED
    BY <1>2, <2>2 DEF UpsertRow, TypeInv, TypeOK
<1>3. QED
  BY <1>1, <1>2, Effects

\* A call goes on linking when the parts of its link do not change, or the change of
\* one is right.
LEMMA LinkingIsKept ==
  ASSUME TypeInv, CallsAreWhole, CopiesAreCurrent, NEW k \in Calls, OfCall(k),
         NEW j \in Calls, pc[j] = "linking", NEW e \in EndsOf(Head(plan[j])), IsLinking(j, e),
         plan'[j] = plan[j],
         part'[j][e] = part[j][e] \/ {part[j][e], part'[j][e]} \subseteq {"selected", "read"}
           \/ {part[j][e], part'[j][e]} \subseteq {"materialized", "done"},
         copy'[j][e] = copy[j][e]
  PROVE  IsLinking(j, e)'
<1>1. PICK l \in LinkIds : l = Head(plan[j])
  BY DEF CallsAreWhole, IsWhole
<1>2. e \in Ends /\ e \in Contracts /\ NameAt(l, e) \in Names
  BY <1>1, ConstantsAssumption DEF EndsOf, Contracts, NameAt, Names
<1>3. disturbed \subseteq disturbed' /\ active'[e] # None
  BY <1>2, DisturbedGrows, RowsStay DEF IsLinking
<1>4. e \notin disturbed' /\ part'[j][e] \in {"selected", "read", "materialized", "done"} => copy'[j][e] # Gone
  BY <1>3 DEF IsLinking
<1>5. EndsOf(l) \cap disturbed' = {} /\ part'[j][e] \in {"materialized", "done"} =>
        linkedAt'[e][NameAt(l, e)] # None
  <2>1. SUFFICES ASSUME EndsOf(l) \cap disturbed' = {}, part'[j][e] \in {"materialized", "done"}
                 PROVE  linkedAt'[e][NameAt(l, e)] # None
    OBVIOUS
  <2>2. EndsOf(l) \cap disturbed = {} /\ e \in Ends \ disturbed
    BY <1>1, <1>2, <1>3, <2>1
  <2>3. linkedAt[e][NameAt(l, e)] # None
    BY <1>1, <2>1, <2>2 DEF IsLinking
  <2>4. QED
    BY <1>2, <2>2, <2>3, FirstIsKept
<1>6. QED
  BY <1>1, <1>3, <1>4, <1>5 DEF IsLinking

LEMMA OthersLink ==
  ASSUME TypeInv, CallsAreWhole, LinkingIsRight, CopiesAreCurrent, NEW k \in Calls, OfCall(k),
         NEW j \in Calls \ {k}, pc'[j] = "linking", ActiveOf(j)', NEW e \in EndsOf(Head(plan'[j]))
  PROVE  IsLinking(j, e)'
<1>1. IsLeft(j) /\ ActiveOf(j)' = ActiveOf(j)
  BY OthersAreLeft, LeftIsSame
<1>2. pc[j] = "linking" /\ ActiveOf(j) /\ e \in EndsOf(Head(plan[j]))
  BY <1>1 DEF IsLeft
<1>3. IsLinking(j, e)
  BY <1>2 DEF LinkingIsRight
<1>4. QED
  BY <1>1, <1>2, <1>3, LinkingIsKept DEF IsLeft

\* What a link that is active leaves at an end that it has read.
LEMMA MaterializesRight ==
  ASSUME TypeInv, CallsAreWhole, LinkingIsRight, CopiesAreCurrent, NEW k \in Calls, ActiveOf(k),
         NEW e \in Ends, Materialize(k, e), EndsOf(Head(plan[k])) \cap disturbed = {}
  PROVE  linkedAt'[e][NameAt(Head(plan[k]), e)] # None
<1>1. PICK l \in LinkIds : l = Head(plan[k])
  BY MaterializeEnd
<1>2. e \in EndsOf(l) /\ EndsOf(l) \subseteq Ends /\ pc[k] = "linking"
  BY <1>1, MaterializeEnd, ConstantsAssumption DEF EndsOf, Materialize
<1>3. ASSUME NEW d \in EndsOf(l) PROVE copy[k][d] # Gone
  <2>1. part[k][d] \in {"read", "materialized", "done"}
    BY <1>1, <1>2 DEF Materialize, CallsAreWhole, IsWhole, TypeInv, TypeOK, PartStates
  <2>2. QED
    BY <1>1, <1>2, <2>1 DEF LinkingIsRight, IsLinking
<1>4. copy[k][e] = linkedAt[e]
  BY <1>1, <1>2, <1>3, ReadsTheRow
<1>5. Updated(k, e)[NameAt(l, e)] # None
  BY <1>1, <1>2, <1>3, UpdatedType
<1>6. CASE Materializes(k, e)
  <2>1. linkedAt' = [linkedAt EXCEPT ![e] = Updated(k, e)]
    BY <1>6 DEF Materialize
  <2>2. QED
    BY <1>1, <1>5, <2>1 DEF TypeInv, TypeOK
<1>7. CASE ~Materializes(k, e)
  <2>1. Updated(k, e) = copy[k][e]
    BY <1>1, <1>3, <1>7 DEF Materializes
  <2>2. linkedAt' = linkedAt
    BY <1>7 DEF Materialize
  <2>3. QED
    BY <1>1, <1>4, <1>5, <2>1, <2>2
<1>8. QED
  BY <1>6, <1>7

LEMMA OwnLinks ==
  ASSUME TypeInv, CallsAreWhole, CallsAreApart, LinkingIsRight, CopiesAreCurrent,
         NEW k \in Calls, OfCall(k), pc'[k] = "linking", ActiveOf(k)', NEW e \in EndsOf(Head(plan'[k]))
  PROVE  IsLinking(k, e)'
<1>1. CASE IndexLink(k)
  <2>1. UNCHANGED <<active, plan, upserts>> /\ ActiveOf(k)
    BY <1>1 DEF IndexLink, ActiveOf
  <2>2. PICK l \in LinkIds : l = Head(plan[k])
    BY <1>1 DEF IndexLink, CallsAreWhole, IsWhole
  <2>3. e \in Ends
    BY <2>1, <2>2, ConstantsAssumption DEF EndsOf
  <2>4. active[e] # None
    BY <1>1, <2>1 DEF IndexLink
  <2>5. part'[k][e] = "unread"
    BY <1>1, <2>1, <2>3 DEF IndexLink, TypeInv, TypeOK
  <2>6. QED
    BY <2>1, <2>4, <2>5 DEF IsLinking
<1>2. CASE ~IndexLink(k)
  <2>1. pc[k] = "linking" /\ UNCHANGED <<pc, plan, upserts, alone, settled, disturbed, active>>
        /\ \E d \in Ends : ReadCache(k, d) \/ SelectRow(k, d) \/ CacheRead(k, d) \/ Materialize(k, d) \/ Unset(k, d)
    <3>1. ~ (CacheRow(k) \/ Linked(k))
      <4>1. ASSUME GoOn(k) PROVE FALSE
        BY <4>1, GoOnLeaves DEF GoesOn, IsReset
      <4>2. ASSUME CacheRow(k), Head(plan[k]) \notin Ends PROVE FALSE
        BY <4>2 DEF CacheRow, TypeInv, TypeOK
      <4>3. QED
        BY <4>1, <4>2 DEF CacheRow, Linked
    <3>2. ~ (UpsertRow(k) \/ Returned(k) \/ Fail(k))
      BY DEF UpsertRow, Returned, Fail, TypeInv, TypeOK
    <3>3. ASSUME NEW c \in Requested, NEW a \in BOOLEAN, NEW r \in BOOLEAN, Upsert(k, c, a, r) PROVE FALSE
      BY <3>3 DEF Upsert, TypeInv, TypeOK
    <3>4. ASSUME NEW d \in Requested \cap Ends, Read(k, d) PROVE FALSE
      BY <3>4 DEF Read, TypeInv, TypeOK
    <3>5. PICK d \in Ends : ReadCache(k, d) \/ SelectRow(k, d) \/ CacheRead(k, d) \/ Materialize(k, d) \/ Unset(k, d)
      BY <1>2, <3>1, <3>2, <3>3, <3>4 DEF OfCall
    <3>6. UNCHANGED <<pc, plan, upserts, alone, settled, disturbed, active>>
      BY <3>5 DEF ReadCache, SelectRow, CacheRead, Materialize, Unset
    <3>7. QED
      BY <3>5, <3>6
  <2>2. PICK l \in LinkIds : l = Head(plan[k])
    BY <2>1 DEF CallsAreWhole, IsWhole
  <2>3. e \in EndsOf(l) /\ e \in Ends /\ ActiveOf(k) /\ part[k][e] # "none"
    BY <2>1, <2>2, ConstantsAssumption DEF EndsOf, ActiveOf, CallsAreWhole, IsWhole
  <2>4. IsLinking(k, e) /\ active[e] # None
    BY <2>1, <2>2, <2>3 DEF LinkingIsRight, IsLinking
  <2>5. PICK d \in Ends : ReadCache(k, d) \/ SelectRow(k, d) \/ CacheRead(k, d) \/ Materialize(k, d) \/ Unset(k, d)
    BY <2>1
  <2>6. CASE d # e
    <3>1. part'[k][e] = part[k][e]
      <4>1. PICK s : part' = [part EXCEPT ![k][d] = s]
        <5>1. CASE ReadCache(k, d) \/ SelectRow(k, d) \/ CacheRead(k, d) \/ Unset(k, d)
          BY <5>1 DEF ReadCache, SelectRow, CacheRead, Unset
        <5>2. CASE Materialize(k, d)
          BY <5>2, Zenon DEF Materialize
        <5>3. QED
          BY <2>5, <5>1, <5>2
      <4>2. QED
        BY <2>3, <2>6, <4>1 DEF TypeInv, TypeOK
    <3>2. copy'[k][e] = copy[k][e]
      <4>1. copy' = copy \/ \E f : copy' = [copy EXCEPT ![k][d] = f]
        BY <2>5 DEF ReadCache, SelectRow, CacheRead, Unset, Materialize
      <4>2. QED
        BY <2>3, <2>6, <4>1 DEF TypeInv, TypeOK
    <3>3. QED
      BY <2>1, <2>2, <2>3, <2>4, <3>1, <3>2, LinkingIsKept
  <2>7. CASE d = e /\ ReadCache(k, e)
    <3>1. /\ part[k][e] = "unread" /\ cached[e] # Absent
          /\ part'[k][e] = "read" /\ copy'[k][e] = cached[e]
      BY <2>3, <2>7 DEF ReadCache, TypeInv, TypeOK
    <3>2. e \notin disturbed => cached[e] # Gone
      <4>1. SUFFICES ASSUME e \notin disturbed PROVE cached[e] # Gone
        OBVIOUS
      <4>2. e \in TouchedBy(k) /\ ~Caching(k, e)
        BY <2>1, <2>3, PartIsTouched DEF Caching
      <4>3. cached[e] = linkedAt[e]
        BY <2>3, <2>4, <3>1, <4>1, <4>2, CachedIsRow DEF InRow
      <4>4. linkedAt[e] # Gone
        BY <2>3, ConstantsAssumption DEF TypeInv, TypeOK
      <4>5. QED
        BY <4>3, <4>4
    <3>3. QED
      BY <2>1, <2>2, <2>4, <3>1, <3>2 DEF IsLinking
  <2>8. CASE d = e /\ SelectRow(k, e)
    <3>1. part'[k][e] = "selected" /\ copy'[k][e] = InRow(e)
      BY <2>3, <2>8 DEF SelectRow, TypeInv, TypeOK
    <3>2. InRow(e) # Gone
      BY <2>3, <2>4, ConstantsAssumption DEF InRow, TypeInv, TypeOK
    <3>3. QED
      BY <2>1, <2>2, <2>4, <3>1, <3>2 DEF IsLinking
  <2>9. CASE d = e /\ (CacheRead(k, e) \/ Unset(k, e))
    <3>1. {part[k][e], part'[k][e]} \subseteq {"selected", "read"}
            \/ {part[k][e], part'[k][e]} \subseteq {"materialized", "done"}
      BY <2>3, <2>9 DEF CacheRead, Unset, TypeInv, TypeOK
    <3>2. copy' = copy
      BY <2>9 DEF CacheRead, Unset
    <3>3. QED
      BY <2>1, <2>2, <2>3, <2>4, <3>1, <3>2, LinkingIsKept
  <2>10. CASE d = e /\ Materialize(k, e)
    <3>1. part[k][e] = "read" /\ copy' = copy
      BY <2>10 DEF Materialize
    <3>2. e \notin disturbed => copy[k][e] # Gone
      BY <2>4, <3>1 DEF IsLinking
    <3>3. EndsOf(l) \cap disturbed = {} => linkedAt'[e][NameAt(l, e)] # None
      BY <2>2, <2>3, <2>10, MaterializesRight
    <3>4. QED
      BY <2>1, <2>2, <2>4, <3>1, <3>2, <3>3 DEF IsLinking
  <2>11. QED
    BY <2>5, <2>6, <2>7, <2>8, <2>9, <2>10
<1>3. QED
  BY <1>1, <1>2

LEMMA LinkingStep ==
  ASSUME TypeInv, CallsAreWhole, CallsAreApart, LinkingIsRight, CopiesAreCurrent,
         NEW k \in Calls, OfCall(k)
  PROVE  LinkingIsRight'
BY OthersLink, OwnLinks DEF LinkingIsRight

LEMMA CurrentIsKept ==
  ASSUME TypeInv, CallsAreWhole, CallsAreApart, CopiesAreCurrent, NEW k \in Calls, OfCall(k),
         NEW e \in Ends \ disturbed',
         Caching(k, e)' => active'[e] # None /\ copy'[k][e] = linkedAt'[e],
         part'[k][e] \in {"selected", "read"} => copy'[k][e] = InRow(e)',
         (active'[e] = active[e] /\ linkedAt'[e] = linkedAt[e]) \/ e \in TouchedBy(k),
         \/ cached'[e] \in {Absent, InRow(e)'} \/ Caching(k, e)' \/ part'[k][e] = "materialized"
         \/ /\ cached'[e] = cached[e] /\ active'[e] = active[e] /\ linkedAt'[e] = linkedAt[e]
            /\ ~Caching(k, e) /\ part[k][e] # "materialized"
  PROVE  IsCurrent(e)'
<1>1. e \notin disturbed /\ IsCurrent(e)
  BY DisturbedGrows DEF CopiesAreCurrent
<1>2. ASSUME NEW j \in Calls \ {k}
      PROVE  /\ part'[j][e] = part[j][e] /\ copy'[j][e] = copy[j][e] /\ (Caching(j, e)' <=> Caching(j, e))
  BY OthersAreLeft DEF IsLeft, Caching
<1>3. ASSUME NEW j \in Calls \ {k}
      PROVE  /\ Caching(j, e)' => active'[e] # None /\ copy'[j][e] = linkedAt'[e]
             /\ part'[j][e] \in {"selected", "read"} => copy'[j][e] = InRow(e)'
  <2>1. CASE active'[e] = active[e] /\ linkedAt'[e] = linkedAt[e]
    BY <1>1, <1>2, <2>1 DEF IsCurrent, InRow
  <2>2. CASE e \in TouchedBy(k)
    BY <1>1, <1>2, <2>2, OnlyOne
  <2>3. QED
    BY <2>1, <2>2
<1>4. \/ cached'[e] \in {Absent, InRow(e)'}
      \/ \E j \in Calls : Caching(j, e)' \/ part'[j][e] = "materialized"
  <2>1. CASE cached'[e] \in {Absent, InRow(e)'} \/ Caching(k, e)' \/ part'[k][e] = "materialized"
    BY <2>1
  <2>2. CASE /\ cached'[e] = cached[e] /\ active'[e] = active[e] /\ linkedAt'[e] = linkedAt[e]
             /\ ~Caching(k, e) /\ part[k][e] # "materialized"
    <3>1. InRow(e)' = InRow(e)
      BY <2>2 DEF InRow
    <3>2. CASE cached[e] \in {Absent, InRow(e)}
      BY <2>2, <3>1, <3>2
    <3>3. CASE \E j \in Calls : Caching(j, e) \/ part[j][e] = "materialized"
      <4>1. PICK j \in Calls \ {k} : Caching(j, e) \/ part[j][e] = "materialized"
        BY <2>2, <3>3
      <4>2. QED
        BY <1>2, <4>1
    <3>4. QED
      BY <1>1, <3>2, <3>3 DEF IsCurrent
  <2>3. QED
    BY <2>1, <2>2
<1>5. \A j \in Calls : /\ Caching(j, e)' => active'[e] # None /\ copy'[j][e] = linkedAt'[e]
                       /\ part'[j][e] \in {"selected", "read"} => copy'[j][e] = InRow(e)'
  BY <1>3
<1>6. QED
  BY <1>4, <1>5 DEF IsCurrent

\* A step that has nothing to do with e leaves it current.
LEMMA ElsewhereIsKept ==
  ASSUME TypeInv, CallsAreWhole, CallsAreApart, CopiesAreCurrent, NEW k \in Calls, OfCall(k),
         NEW e \in Ends \ disturbed', Caching(k, e)' <=> Caching(k, e),
         part'[k][e] = part[k][e] /\ copy'[k][e] = copy[k][e],
         cached'[e] = cached[e] /\ active'[e] = active[e] /\ linkedAt'[e] = linkedAt[e]
  PROVE  IsCurrent(e)'
<1>1. IsCurrent(e)
  BY DisturbedGrows DEF CopiesAreCurrent
<1>2. InRow(e)' = InRow(e)
  BY DEF InRow
<1>3. /\ Caching(k, e)' => active'[e] # None /\ copy'[k][e] = linkedAt'[e]
      /\ part'[k][e] \in {"selected", "read"} => copy'[k][e] = InRow(e)'
  BY <1>1, <1>2 DEF IsCurrent
<1>4. QED
  BY <1>3, CurrentIsKept

\* What is done at one of its ends.
LEMMA CurrentAtEnds ==
  ASSUME TypeInv, CallsAreWhole, CallsAreApart, CopiesAreCurrent, NEW k \in Calls, OfCall(k),
         NEW d \in Ends,
         ReadCache(k, d) \/ SelectRow(k, d) \/ CacheRead(k, d) \/ Materialize(k, d) \/ Unset(k, d),
         NEW e \in Ends \ disturbed'
  PROVE  IsCurrent(e)'
<1>1. UNCHANGED <<active, pc, plan, disturbed>> /\ part[k][d] # "none"
  BY DEF ReadCache, SelectRow, CacheRead, Materialize, Unset
<1>2. part[k] # NoPart
  BY <1>1 DEF NoPart
<1>3. pc[k] \in {"linking", "reading"}
  BY <1>2 DEF CallsAreWhole, IsWhole, TypeInv, TypeOK, PcStates
<1>4. ~Caching(k, e) /\ ~Caching(k, e)'
  BY <1>1, <1>3 DEF Caching
<1>5. e \notin disturbed /\ IsCurrent(e)
  BY <1>1 DEF CopiesAreCurrent
<1>6. PICK s : part' = [part EXCEPT ![k][d] = s]
  <2>1. CASE ReadCache(k, d) \/ SelectRow(k, d) \/ CacheRead(k, d) \/ Unset(k, d)
    BY <2>1 DEF ReadCache, SelectRow, CacheRead, Unset
  <2>2. CASE Materialize(k, d)
    BY <2>2, Zenon DEF Materialize
  <2>3. QED
    BY <2>1, <2>2
<1>7. CASE d # e
  <2>1. part'[k][e] = part[k][e]
    BY <1>6, <1>7 DEF TypeInv, TypeOK
  <2>2. copy'[k][e] = copy[k][e]
    <3>1. copy' = copy \/ \E f : copy' = [copy EXCEPT ![k][d] = f]
      BY DEF ReadCache, SelectRow, CacheRead, Unset, Materialize
    <3>2. QED
      BY <1>7, <3>1 DEF TypeInv, TypeOK
  <2>3. cached'[e] = cached[e]
    <3>1. cached' = cached \/ \E f : cached' = [cached EXCEPT ![d] = f]
      BY DEF ReadCache, SelectRow, CacheRead, Unset, Materialize
    <3>2. QED
      BY <1>7, <3>1 DEF TypeInv, TypeOK
  <2>4. linkedAt'[e] = linkedAt[e]
    <3>1. linkedAt' = linkedAt \/ \E f : linkedAt' = [linkedAt EXCEPT ![d] = f]
      BY DEF ReadCache, SelectRow, CacheRead, Unset, Materialize
    <3>2. QED
      BY <1>7, <3>1 DEF TypeInv, TypeOK
  <2>5. QED
    BY <1>1, <1>4, <2>1, <2>2, <2>3, <2>4, ElsewhereIsKept
<1>8. CASE d = e /\ ReadCache(k, e)
  <2>1. /\ part[k][e] = "unread" /\ cached[e] # Absent /\ UNCHANGED <<cached, linkedAt>>
        /\ part'[k][e] = "read" /\ copy'[k][e] = cached[e]
    BY <1>8 DEF ReadCache, TypeInv, TypeOK
  <2>2. e \in TouchedBy(k)
    BY <2>1, PartIsTouched
  <2>3. cached[e] = InRow(e)
    BY <1>4, <1>5, <2>1, <2>2, CachedIsRow
  <2>4. InRow(e)' = InRow(e)
    BY <1>1, <2>1 DEF InRow
  <2>5. QED
    BY <1>1, <1>4, <2>1, <2>3, <2>4, CurrentIsKept
<1>9. CASE d = e /\ SelectRow(k, e)
  <2>1. part[k][e] = "unread" /\ cached'[e] = Absent /\ copy'[k][e] = InRow(e) /\ UNCHANGED linkedAt
    BY <1>9 DEF SelectRow, TypeInv, TypeOK
  <2>2. InRow(e)' = InRow(e)
    BY <1>1, <2>1 DEF InRow
  <2>3. QED
    BY <1>1, <1>4, <2>1, <2>2, CurrentIsKept
<1>10. CASE d = e /\ CacheRead(k, e)
  <2>1. part[k][e] = "selected" /\ cached'[e] = copy[k][e] /\ UNCHANGED <<copy, linkedAt>>
    BY <1>10 DEF CacheRead, TypeInv, TypeOK
  <2>2. InRow(e)' = InRow(e)
    BY <1>1, <2>1 DEF InRow
  <2>3. copy[k][e] = InRow(e)
    BY <1>5, <2>1 DEF IsCurrent
  <2>4. QED
    BY <1>1, <1>4, <2>1, <2>2, <2>3, CurrentIsKept
<1>11. CASE d = e /\ Unset(k, e)
  <2>1. cached'[e] = Absent /\ part'[k][e] = "done" /\ UNCHANGED linkedAt
    BY <1>11 DEF Unset, TypeInv, TypeOK
  <2>2. QED
    BY <1>1, <1>4, <2>1, CurrentIsKept
<1>12. CASE d = e /\ Materialize(k, e)
  <2>1. part[k][e] = "read" /\ UNCHANGED <<cached, copy>> /\ e \in TouchedBy(k)
    BY <1>12, PartIsTouched DEF Materialize
  <2>2. CASE Materializes(k, e)
    <3>1. part'[k][e] = "materialized"
      BY <1>12, <2>2 DEF Materialize, TypeInv, TypeOK
    <3>2. QED
      BY <1>4, <2>1, <3>1, CurrentIsKept
  <2>3. CASE ~Materializes(k, e)
    <3>1. part'[k][e] = "done" /\ linkedAt' = linkedAt
      BY <1>12, <2>3 DEF Materialize, TypeInv, TypeOK
    <3>2. QED
      BY <1>1, <1>4, <2>1, <3>1, CurrentIsKept
  <2>4. QED
    BY <2>2, <2>3
<1>13. QED
  BY <1>7, <1>8, <1>9, <1>10, <1>11, <1>12

LEMMA CurrentStep ==
  ASSUME TypeInv, CallsAreWhole, CallsAreApart, CopiesAreCurrent, NEW k \in Calls, OfCall(k)
  PROVE  CopiesAreCurrent'
<1> SUFFICES ASSUME NEW e \in Ends \ disturbed'
             PROVE  IsCurrent(e)'
  BY DEF CopiesAreCurrent
<1>0. e \notin disturbed /\ IsCurrent(e) /\ IsWhole(k)
  BY DisturbedGrows DEF CopiesAreCurrent, CallsAreWhole
<1>1. ASSUME pc[k] = "idle", pc'[k] # "caching", UNCHANGED <<active, linkedAt, cached>>,
             part'[k][e] \in {"none", "unread"}
      PROVE  IsCurrent(e)'
  <2>1. part[k][e] = "none" /\ ~Caching(k, e) /\ ~Caching(k, e)'
    BY <1>0, <1>1 DEF IsWhole, NoPart, Caching
  <2>2. QED
    BY <1>1, <2>1, CurrentIsKept
<1>2. ASSUME NEW c \in Requested, NEW a \in BOOLEAN, NEW r \in BOOLEAN, Upsert(k, c, a, r) PROVE IsCurrent(e)'
  <2>1. pc[k] = "idle" /\ pc'[k] = "upserting" /\ UNCHANGED <<active, linkedAt, cached, part>>
    BY <1>2 DEF Upsert, TypeInv, TypeOK
  <2>2. part[k][e] = "none"
    BY <1>0, <2>1 DEF IsWhole, NoPart
  <2>3. QED
    BY <1>1, <2>1, <2>2
<1>3. ASSUME NEW d \in Requested \cap Ends, Read(k, d) PROVE IsCurrent(e)'
  <2>1. pc[k] = "idle" /\ pc'[k] = "reading" /\ UNCHANGED <<active, linkedAt, cached>>
    BY <1>3 DEF Read, TypeInv, TypeOK
  <2>2. part[k] = NoPart
    BY <1>0, <2>1 DEF IsWhole
  <2>3. part'[k] = [NoPart EXCEPT ![d] = "unread"]
    BY <1>3, <2>2 DEF Read, TypeInv, TypeOK
  <2>4. part'[k][e] \in {"none", "unread"}
    BY <2>3 DEF NoPart
  <2>5. QED
    BY <1>1, <2>1, <2>4
<1>4. ASSUME UpsertRow(k) PROVE IsCurrent(e)'
  <2>1. PICK c \in Contracts : c = Head(plan[k])
    BY <1>4, HeadIsUpserted DEF UpsertRow, Upserting
  <2>2. /\ pc[k] = "upserting" /\ pc'[k] = "caching" /\ UNCHANGED <<linkedAt, cached, plan, part>>
        /\ active' = [active EXCEPT ![c] = ActiveOf(k)]
        /\ copy' = IF c \in Ends THEN [copy EXCEPT ![k][c] = linkedAt[c]] ELSE copy
    BY <1>4, <2>1 DEF UpsertRow, TypeInv, TypeOK
  <2>3. part[k][e] = "none" /\ ~Caching(k, e)
    BY <1>0, <2>2 DEF IsWhole, NoPart, Caching
  <2>4. CASE c = e
    <3>1. e \in TouchedBy(k)
      BY <2>1, <2>2, <2>4, PartIsTouched DEF Upserting
    <3>2. Caching(k, e)'
      BY <2>1, <2>2, <2>4 DEF Caching
    <3>3. copy'[k][e] = linkedAt'[e]
      BY <2>2, <2>4 DEF TypeInv, TypeOK
    <3>4. active'[e] # None
      <4>1. ActiveOf(k) \in BOOLEAN
        BY DEF ActiveOf, TypeInv
      <4>2. ActiveOf(k) # None
        BY <4>1, ConstantsAssumption
      <4>3. QED
        BY <2>2, <2>4, <4>2 DEF TypeInv, TypeOK
    <3>5. QED
      BY <2>2, <2>3, <3>1, <3>2, <3>3, <3>4, CurrentIsKept
  <2>5. CASE c # e
    <3>1. ~Caching(k, e)'
      BY <2>1, <2>2, <2>5 DEF Caching
    <3>2. active'[e] = active[e]
      BY <2>2, <2>5 DEF TypeInv, TypeOK, Contracts
    <3>3. copy'[k][e] = copy[k][e]
      BY <2>2, <2>5 DEF TypeInv, TypeOK
    <3>4. QED
      BY <2>2, <2>3, <3>1, <3>2, <3>3, ElsewhereIsKept
  <2>6. QED
    BY <2>4, <2>5
<1>5. ASSUME UNCHANGED <<active, linkedAt, cached>>, ~Caching(k, e), ~Caching(k, e)',
             part[k][e] # "materialized", part'[k][e] \in {"none", "unread"}
      PROVE  IsCurrent(e)'
  BY <1>5, CurrentIsKept
<1>6. ASSUME GoOn(k) PROVE part'[k][e] = "none" /\ ~Caching(k, e)'
  BY <1>6, GoOnLeaves DEF GoesOn, IsReset, NoPart, Caching
<1>7. ASSUME CacheRow(k) PROVE IsCurrent(e)'
  <2>1. pc[k] = "caching" /\ UNCHANGED <<active, linkedAt>> /\ part[k][e] = "none"
    BY <1>0, <1>7 DEF CacheRow, IsWhole, NoPart
  <2>2. CASE Head(plan[k]) \notin Ends
    <3>1. pc'[k] = "indexing" /\ UNCHANGED <<cached, part>>
      BY <1>7, <2>2 DEF CacheRow, TypeInv, TypeOK
    <3>2. ~Caching(k, e) /\ ~Caching(k, e)'
      BY <2>2, <3>1 DEF Caching
    <3>3. QED
      BY <1>5, <2>1, <3>1, <3>2
  <2>3. CASE Head(plan[k]) \in Ends
    <3>1. PICK d \in Ends : d = Head(plan[k])
      BY <2>3
    <3>2. GoOn(k) /\ cached' = [cached EXCEPT ![d] = copy[k][d]]
      BY <1>7, <3>1 DEF CacheRow
    <3>3. part'[k][e] = "none" /\ ~Caching(k, e)'
      BY <1>6, <3>2
    <3>4. CASE d = e
      <4>1. Caching(k, e)
        BY <2>1, <3>1, <3>4 DEF Caching
      <4>2. active[e] # None /\ copy[k][e] = linkedAt[e]
        BY <1>0, <4>1 DEF IsCurrent
      <4>3. cached'[e] = InRow(e)'
        BY <2>1, <3>2, <3>4, <4>2 DEF InRow, TypeInv, TypeOK
      <4>4. QED
        BY <2>1, <3>3, <4>3, CurrentIsKept
    <3>5. CASE d # e
      <4>1. ~Caching(k, e)
        BY <3>1, <3>5 DEF Caching
      <4>2. cached'[e] = cached[e]
        BY <3>2, <3>5 DEF TypeInv, TypeOK
      <4>3. QED
        BY <2>1, <3>3, <4>1, <4>2, CurrentIsKept
    <3>6. QED
      BY <3>4, <3>5
  <2>4. QED
    BY <2>2, <2>3
<1>8. ASSUME IndexLink(k) PROVE IsCurrent(e)'
  <2>1. /\ pc[k] = "indexing" /\ pc'[k] = "linking" /\ UNCHANGED <<active, linkedAt, cached>>
        /\ part'[k][e] \in {"none", "unread"}
    BY <1>8 DEF IndexLink, TypeInv, TypeOK
  <2>2. part[k][e] = "none" /\ ~Caching(k, e) /\ ~Caching(k, e)'
    BY <1>0, <2>1 DEF IsWhole, NoPart, Caching
  <2>3. QED
    BY <1>5, <2>1, <2>2
<1>9. ASSUME IsReset(k) PROVE part'[k][e] = "none" /\ ~Caching(k, e)'
  BY <1>9 DEF IsReset, NoPart, Caching
<1>10. ASSUME Returned(k) PROVE IsCurrent(e)'
  <2>1. part[k][e] # "materialized" /\ ~Caching(k, e) /\ UNCHANGED <<active, linkedAt, cached>>
    BY <1>10 DEF Returned, Caching
  <2>2. IsReset(k)
    BY <1>10, ResetLeaves DEF Returned
  <2>3. QED
    BY <1>5, <1>9, <2>1, <2>2
<1>11. ASSUME Linked(k) PROVE IsCurrent(e)'
  BY <1>5, <1>6, <1>11 DEF Linked, Caching
<1>12. ASSUME Fail(k) PROVE IsCurrent(e)'
  <2>1. e \notin TouchedBy(k) /\ UNCHANGED <<active, linkedAt, cached>>
    BY <1>12 DEF Fail
  <2>2. part[k][e] = "none" /\ ~Caching(k, e)
    BY <2>1, PartIsTouched DEF Caching, Upserting
  <2>3. IsReset(k)
    BY <1>12, ResetLeaves DEF Fail
  <2>4. QED
    BY <1>5, <1>9, <2>1, <2>2, <2>3
<1>13. ASSUME NEW d \in Ends,
              ReadCache(k, d) \/ SelectRow(k, d) \/ CacheRead(k, d) \/ Materialize(k, d) \/ Unset(k, d)
       PROVE  IsCurrent(e)'
  BY <1>13, CurrentAtEnds
<1>14. QED
  BY <1>2, <1>3, <1>4, <1>7, <1>8, <1>10, <1>11, <1>12, <1>13 DEF OfCall

-----------------------------------------------------------------------------
\* The theorems.

LEMMA InitInv == Init => LInv
<1> SUFFICES ASSUME Init PROVE LInv
  OBVIOUS
<1>1. TypeInv
  <2>1. /\ NeverLinked \in [Names -> LinkIds \cup {None}]
        /\ NoPart \in [Ends -> PartStates]
        /\ NoCopy \in [Ends -> [Names -> LinkIds \cup {None}] \cup {Gone}]
        /\ Idle \in [contracts: SUBSET Contracts, active: BOOLEAN, replace: BOOLEAN]
        /\ <<>> \in Seq(Contracts) /\ 0 \in 0..MaxCalls
    BY EmptySeq, ConstantsAssumption DEF NeverLinked, NoPart, NoCopy, Idle, PartStates
  <2>2. pc \in [Calls -> PcStates] /\ active \in [Contracts -> BOOLEAN \cup {None}]
    BY DEF Init, PcStates
  <2>3. QED
    BY <2>1, <2>2 DEF Init, TypeInv, TypeOK
<1>2. CallsAreWhole
  BY DEF Init, CallsAreWhole, IsWhole, Upserting
<1>3. \A k \in Calls : TouchedBy(k) = {} /\ UpsertTouches(k) = {}
  BY <1>2, IdleTouches DEF Init
<1>4. CallsAreApart /\ UpsertsUnsettle
  BY <1>3 DEF CallsAreApart, AreApart, UpsertsUnsettle
<1>5. WorkIsDone /\ LinkingIsRight
  BY DEF Init, WorkIsDone, GetsOn, LinkingIsRight, Upserting
<1>6. CopiesAreCurrent
  BY DEF Init, CopiesAreCurrent, IsCurrent, Caching, NoPart
<1>7. RowsFollowLinks /\ LinksAreMaterialized /\ DependentsFollowUser
  BY DEF Init, RowsFollowLinks, LinksAreMaterialized, DependentsFollowUser
<1>8. QED
  BY <1>1, <1>2, <1>4, <1>5, <1>6, <1>7 DEF LInv

LEMMA StutterInv == LInv /\ UNCHANGED vars => LInv'
<1> SUFFICES ASSUME LInv, UNCHANGED vars PROVE LInv'
  OBVIOUS
<1>1. TypeInv'
  BY DEF vars, LInv, TypeInv, TypeOK
<1>2. CallsAreWhole'
  BY DEF vars, LInv, CallsAreWhole, IsWhole
<1>3. CallsAreApart' /\ UpsertsUnsettle'
  BY DEF vars, LInv, CallsAreApart, AreApart, UpsertsUnsettle, TouchedBy, UpsertTouches
<1>4. WorkIsDone'
  BY DEF vars, LInv, WorkIsDone, GetsOn, IsDone, Indexed, IsRecorded, ActiveOf
<1>5. LinkingIsRight'
  BY DEF vars, LInv, LinkingIsRight, IsLinking, ActiveOf
<1>6. CopiesAreCurrent'
  BY DEF vars, LInv, CopiesAreCurrent, IsCurrent, Caching, InRow
<1>7. RowsFollowLinks' /\ LinksAreMaterialized' /\ DependentsFollowUser'
  BY DEF vars, LInv, RowsFollowLinks, LinksAreMaterialized, DependentsFollowUser
<1>8. QED
  BY <1>1, <1>2, <1>3, <1>4, <1>5, <1>6, <1>7 DEF LInv

LEMMA NextInv == LInv /\ [Next]_vars => LInv'
<1> SUFFICES ASSUME LInv, Next PROVE LInv'
  BY StutterInv
<1>1. PICK k \in Calls : OfCall(k)
  BY DEF Next
<1>2. TypeInv' /\ CallsAreWhole'
  BY <1>1, TypeStep, WholeStep DEF LInv
<1>3. CallsAreApart' /\ UpsertsUnsettle'
  BY <1>1, ApartStep, UnsettleStep DEF LInv
<1>4. WorkIsDone' /\ LinkingIsRight' /\ CopiesAreCurrent'
  BY <1>1, WorkStep, LinkingStep, CurrentStep DEF LInv
<1>5. RowsFollowLinks' /\ LinksAreMaterialized' /\ DependentsFollowUser'
  BY <1>1, RowsStep, MaterializedStep, DependentsStep DEF LInv
<1>6. QED
  BY <1>2, <1>3, <1>4, <1>5 DEF LInv

\* What the calls in progress have to do with, what they have done and what they have
\* read always fits together: two calls that share a contract are not alone and
\* disturb it, and a call that is alone has done all that is no longer in its plan.
THEOREM LinkInvariance == Spec => []LInv
<1>1. QED
  BY InitInv, NextInv, PTL DEF Spec

\* Every variable always has its type; what a call writes to linked_at is a whole
\* column, for the contract it writes was found (index.ts:662-676).
THEOREM LinkTypeCorrectness == Spec => []TypeOK
<1>1. LInv => TypeOK
  BY DEF LInv, TypeInv
<1>2. QED
  BY <1>1, LinkInvariance, PTL

\* Whatever the calls and their failures before it, after an upsert of a link that ran
\* alone links2 has both rows of it if it is active, and none if it is not, although
\* the contract and its rows are written without a transaction (index.ts:632-653).
THEOREM RowsAlwaysFollowLinks == Spec => []RowsFollowLinks
<1>1. LInv => RowsFollowLinks
  BY DEF LInv
<1>2. QED
  BY <1>1, LinkInvariance, PTL

\* After an upsert that ran alone, a link that is active is recorded at both of its
\* ends, if no two calls have met at them and none has failed there: what was read of
\* an end through the cache was its row (index.ts:653-676).
THEOREM LinksStayMaterialized == Spec => []LinksAreMaterialized
<1>1. LInv => LinksAreMaterialized
  BY DEF LInv
<1>2. QED
  BY <1>1, LinkInvariance, PTL

\* After an upsert of a user that ran alone, every contract that belongs to it is
\* active if and only if the user is, however many upserts have stopped half-way
\* before (index.ts:706-850).
THEOREM DependentsAlwaysFollow == Spec => []DependentsFollowUser
<1>1. LInv => DependentsFollowUser
  BY DEF LInv
<1>2. QED
  BY <1>1, LinkInvariance, PTL

\* No step loses or changes when an undisturbed contract was first linked under a
\* name: materializeLink writes the whole column, but from a copy that is the row
\* (index.ts:662-676, links.ts addLink).
THEOREM FirstLinkStays == Spec => FirstLinkIsKept
<1>1. LInv /\ Next =>
        \A e \in Ends \ disturbed, n \in Names : linkedAt[e][n] # None => linkedAt'[e][n] = linkedAt[e][n]
  <2>1. SUFFICES ASSUME LInv, Next, NEW e \in Ends \ disturbed, NEW n \in Names, linkedAt[e][n] # None
                 PROVE  linkedAt'[e][n] = linkedAt[e][n]
    OBVIOUS
  <2>2. PICK k \in Calls : OfCall(k)
    BY <2>1 DEF Next
  <2>3. QED
    BY <2>1, <2>2, FirstIsKept DEF LInv
<1>2. LInv /\ [Next]_vars =>
        [\A e \in Ends \ disturbed, n \in Names : linkedAt[e][n] # None => linkedAt'[e][n] = linkedAt[e][n]]_vars
  BY <1>1
<1>3. QED
  BY <1>2, LinkInvariance, PTL DEF Spec, FirstLinkIsKept
=============================================================================
