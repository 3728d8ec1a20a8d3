-------------------------------- MODULE Links --------------------------------
(***************************************************************************)
(* Links between contracts (upsertObject in index.ts, links.ts).  A link   *)
(* is a contract; when it is upserted, two rows of links2, one for each    *)
(* direction, are written or deleted, and the contracts at its ends record *)
(* in linked_at when they were first linked under its name.  The ends are  *)
(* read through the cache, so what is written back may be older than the   *)
(* row.  Upserting a user upserts contracts that belong to it, and links   *)
(* to them, one by one.                                                    *)
(*                                                                         *)
(* Nothing here is in a transaction.  Calls interleave wherever the code   *)
(* awaits, and each of their statements and commands may fail.             *)
(***************************************************************************)
EXTENDS Naturals, Sequences

CONSTANTS
  Calls,      \* concurrent calls
  Ends,       \* contracts that are not links
  LinkData,   \* of each link contract: from, to, name and inverseName
  Dependents, \* of each user: what is upserted along with it, in that order
  None,       \* no row, no timestamp
  Absent,     \* the cache holds nothing
  Gone,       \* the cache holds 'null', or a SELECT found nothing
  Requested,  \* the contracts that callers upsert, or read
  Existing,   \* the contracts that are there to begin with, active and not linked
  MaxCalls    \* bound: the calls that are begun

VARIABLES
  active,    \* the cards table: whether each contract is active
  linkedAt,  \* the linked_at column: for each name, the link whose created_at it is
  links2,    \* the rows of links2
  cached,    \* the linked_at of the contracts in the cache
  pc,        \* what each call awaits
  plan,      \* the contracts that it has still to upsert
  upserts,   \* what it upserts in all, with which 'active' and whether as a replacement
  part,      \* how far it has got with each end of a link
  copy,      \* the linked_at that it has read of each end
  alone,     \* whether no other call has had to do with the same contracts meanwhile
  settled,   \* the contracts whose last upsert was alone and did not fail
  disturbed, \* the contracts that two calls had to do with at once, or one that failed
  begun      \* how many calls were begun

vars == <<active, linkedAt, links2, cached, pc, plan, upserts, part, copy, alone, settled, disturbed,
          begun>>

LinkIds == DOMAIN LinkData
Contracts == Ends \cup LinkIds
Users == DOMAIN Dependents
Names == {LinkData[l].name : l \in LinkIds} \cup {LinkData[l].inverseName : l \in LinkIds}

\* What belongs to a user are its settings, its credentials and links to them, and no
\* other user (index.ts:706-850).
ASSUME ConstantsAssumption ==
  /\ Ends \cap LinkIds = {}
  /\ Users \subseteq Ends
  /\ \A l \in LinkIds : {LinkData[l].from, LinkData[l].to} \subseteq Ends
  /\ \A u \in Users : Dependents[u] \in Seq(Contracts \ Users)
  /\ None \notin LinkIds \cup BOOLEAN /\ Gone \notin [Names -> LinkIds \cup {None}]
  /\ Requested \subseteq Contracts /\ Existing \subseteq Ends
  /\ MaxCalls \in Nat

Elements(s) == {s[i] : i \in DOMAIN s}

EndsOf(l) == {LinkData[l].from, LinkData[l].to}
Row(l, forward) == [id |-> l, forward |-> forward]
BothRows(l) == {Row(l, TRUE), Row(l, FALSE)}

NeverLinked == [n \in Names |-> None]

\* What a call awaits, with nothing for a call that is not in progress:
\*   upserting   cards.upsert of the first contract of its plan
\*   caching     cache.set of it
\*   indexing    links.upsert of it
\*   linking     what is done with the ends of it
\*   reading     getElementById, for a caller of its own
PcStates == {"idle", "upserting", "caching", "indexing", "linking", "reading"}

\* The ends of a link: not read yet, SELECTed but not cached, read, written to the
\* row but still cached, done; and "none" for other contracts.
PartStates == {"none", "unread", "selected", "read", "materialized", "done"}

TypeOK ==
  /\ active \in [Contracts -> BOOLEAN \cup {None}]
  /\ linkedAt \in [Ends -> [Names -> LinkIds \cup {None}]]
  /\ links2 \subseteq [id: LinkIds, forward: BOOLEAN]
  /\ cached \in [Ends -> [Names -> LinkIds \cup {None}] \cup {Absent, Gone}]
  /\ pc \in [Calls -> PcStates]
  /\ part \in [Calls -> [Ends -> PartStates]]
  /\ copy \in [Calls -> [Ends -> [Names -> LinkIds \cup {None}] \cup {Gone}]]
  /\ alone \in [Calls -> BOOLEAN]
  /\ settled \subseteq Contracts /\ disturbed \subseteq Contracts
  /\ begun \in 0..MaxCalls

Idle == [contracts |-> {}, active |-> FALSE, replace |-> FALSE]
NoPart == [e \in Ends |-> "none"]
NoCopy == [e \in Ends |-> Gone]

Init ==
  /\ active = [c \in Contracts |-> IF c \in Existing THEN TRUE ELSE None]
  /\ linkedAt = [e \in Ends |-> NeverLinked]
  /\ links2 = {}
  /\ cached = [e \in Ends |-> Absent]
  /\ pc = [k \in Calls |-> "idle"]
  /\ plan = [k \in Calls |-> <<>>]
  /\ upserts = [k \in Calls |-> Idle]
  /\ part = [k \in Calls |-> NoPart]
  /\ copy = [k \in Calls |-> NoCopy]
  /\ alone = [k \in Calls |-> TRUE]
  /\ settled = {}
  /\ disturbed = {}
  /\ begun = 0

-----------------------------------------------------------------------------
(* Calls.                                                                  *)

\* What an upsert of a contract has to do with: the ends of a link, and the user that
\* a contract belongs to.
Touches(c) ==
  {c} \cup (IF c \in LinkIds THEN EndsOf(c) ELSE {})
      \cup {u \in Users : c \in Elements(Dependents[u])}

TouchedBy(k) ==
  (UNION {Touches(c) : c \in upserts[k].contracts}) \cup {e \in Ends : part[k][e] # "none"}

\* A call begins that touches these contracts.
Meet(k, touched) ==
  LET met == {j \in Calls \ {k} : pc[j] # "idle" /\ TouchedBy(j) \cap touched # {}} IN
  /\ begun < MaxCalls /\ begun' = begun + 1
  /\ alone' = [j \in Calls |-> IF j = k THEN met = {} ELSE alone[j] /\ j \notin met]
  /\ disturbed' = disturbed \cup UNION {TouchedBy(j) \cap touched : j \in met}

\* What upsertObject upserts: the contract and, after a user, what belongs to it.
Plan(c) == <<c>> \o IF c \in Users THEN Dependents[c] ELSE <<>>

\* insertElement and upsertElement.
Upsert(k, c, isActive, replace) ==
  LET contracts == Elements(Plan(c)) IN
  /\ pc[k] = "idle"
  /\ pc' = [pc EXCEPT ![k] = "upserting"]
  /\ plan' = [plan EXCEPT ![k] = Plan(c)]
  /\ upserts' = [upserts EXCEPT ![k] = [contracts |-> contracts, active |-> isActive, replace |-> replace]]
  /\ Meet(k, UNION {Touches(d) : d \in contracts})
  /\ settled' = settled \ UNION {Touches(d) : d \in contracts}
  /\ UNCHANGED <<active, linkedAt, links2, cached, part, copy>>

\* getElementById, by a caller of its own.
Read(k, e) ==
  /\ pc[k] = "idle"
  /\ pc' = [pc EXCEPT ![k] = "reading"]
  /\ part' = [part EXCEPT ![k][e] = "unread"]
  /\ Meet(k, {e})
  /\ UNCHANGED <<active, linkedAt, links2, cached, plan, upserts, copy, settled>>

Reset(k) ==
  /\ plan' = [plan EXCEPT ![k] = <<>>]
  /\ upserts' = [upserts EXCEPT ![k] = Idle]
  /\ part' = [part EXCEPT ![k] = NoPart]
  /\ copy' = [copy EXCEPT ![k] = NoCopy]
  /\ alone' = [alone EXCEPT ![k] = TRUE]

\* The call goes on with the next contract of its plan, or returns.
GoOn(k) ==
  IF Len(plan[k]) > 1
  THEN /\ pc' = [pc EXCEPT ![k] = "upserting"]
       /\ plan' = [plan EXCEPT ![k] = Tail(@)]
       /\ part' = [part EXCEPT ![k] = NoPart]
       /\ copy' = [copy EXCEPT ![k] = NoCopy]
       /\ UNCHANGED <<upserts, settled, alone>>
  ELSE /\ pc' = [pc EXCEPT ![k] = "idle"]
       /\ settled' = settled \cup IF alone[k] THEN upserts[k].contracts ELSE {}
       /\ Reset(k)

\* Whatever it awaits is rejected.  What it has done stays done.
Fail(k) ==
  /\ pc[k] # "idle"
  /\ pc' = [pc EXCEPT ![k] = "idle"]
  /\ disturbed' = disturbed \cup TouchedBy(k)
  /\ Reset(k)
  /\ UNCHANGED <<active, linkedAt, links2, cached, settled, begun>>

-----------------------------------------------------------------------------
(* upsertObject.                                                           *)

\* Variant: what belongs to a user is active whatever the user is.
AlwaysActive(k) == upserts[k].active \/ Head(plan[k]) \notin Users

\* userContract.active is handed on.
ActiveOf(k) == upserts[k].active

\* cards.upsert; linked_at stays as it is on a conflict.
UpsertRow(k) ==
  LET c == Head(plan[k]) IN
  /\ pc[k] = "upserting"
  /\ active[c] = None \/ upserts[k].replace
  /\ active' = [active EXCEPT ![c] = ActiveOf(k)]
  /\ copy' = IF c \in Ends THEN [copy EXCEPT ![k][c] = linkedAt[c]] ELSE copy
  /\ pc' = [pc EXCEPT ![k] = "caching"]
  /\ UNCHANGED <<linkedAt, links2, cached, plan, upserts, part, alone, settled, disturbed, begun>>

\* cache.set of the row that RETURNING gave.
CacheRow(k) ==
  LET c == Head(plan[k]) IN
  /\ pc[k] = "caching"
  /\ IF c \in Ends
     THEN cached' = [cached EXCEPT ![c] = copy[k][c]] /\ GoOn(k)
     ELSE /\ pc' = [pc EXCEPT ![k] = "indexing"]
          /\ UNCHANGED <<cached, plan, upserts, part, copy, settled, alone>>
  /\ UNCHANGED <<active, linkedAt, links2, disturbed, begun>>

\* Variant: only the row from the one end to the other is deleted.
WithoutForward(l) == links2 \ {Row(l, TRUE)}

\* DELETE FROM links2 WHERE id = $1.
WithoutRows(l) == links2 \ BothRows(l)

\* links.upsert.  The rows refer to the ends, which must exist.
IndexLink(k) ==
  LET l == Head(plan[k]) IN
  /\ pc[k] = "indexing"
  /\ IF ActiveOf(k)
     THEN /\ \A e \in EndsOf(l) : active[e] # None
          /\ links2' = links2 \cup BothRows(l)
     ELSE links2' = WithoutRows(l)
  /\ pc' = [pc EXCEPT ![k] = "linking"]
  /\ part' = [part EXCEPT ![k] = [e \in Ends |-> IF e \in EndsOf(l) THEN "unread" ELSE "none"]]
  /\ UNCHANGED <<active, linkedAt, cached, plan, upserts, copy, alone, settled, disturbed, begun>>

-----------------------------------------------------------------------------
(* getElementById of each end.                                             *)

\* Variant: what was not found is cached as it is, and not as 'null'.
RowAsItIs(e) == IF active[e] = None THEN None ELSE linkedAt[e]

\* cards.getById.
InRow(e) == IF active[e] = None THEN Gone ELSE linkedAt[e]

ReadCache(k, e) ==
  /\ part[k][e] = "unread" /\ cached[e] # Absent
  /\ copy' = [copy EXCEPT ![k][e] = cached[e]]
  /\ part' = [part EXCEPT ![k][e] = "read"]
  /\ UNCHANGED <<active, linkedAt, links2, cached, pc, plan, upserts, alone, settled, disturbed, begun>>

\* The cache has nothing, or had something that has expired by now.
SelectRow(k, e) ==
  /\ part[k][e] = "unread"
  /\ cached' = [cached EXCEPT ![e] = Absent]
  /\ copy' = [copy EXCEPT ![k][e] = InRow(e)]
  /\ part' = [part EXCEPT ![k][e] = "selected"]
  /\ UNCHANGED <<active, linkedAt, links2, pc, plan, upserts, alone, settled, disturbed, begun>>

\* cache.set, or cache.setMissingId.
CacheRead(k, e) ==
  /\ part[k][e] = "selected"
  /\ cached' = [cached EXCEPT ![e] = copy[k][e]]
  /\ part' = [part EXCEPT ![k][e] = "read"]
  /\ UNCHANGED <<active, linkedAt, links2, pc, plan, upserts, copy, alone, settled, disturbed, begun>>

Returned(k) ==
  /\ pc[k] = "reading" /\ \A e \in Ends : part[k][e] \in {"none", "read"}
  /\ pc' = [pc EXCEPT ![k] = "idle"]
  /\ Reset(k)
  /\ UNCHANGED <<active, linkedAt, links2, cached, settled, disturbed, begun>>

-----------------------------------------------------------------------------
(* Materialising a link at its ends, in parallel.                          *)

\* parseCard.
NameAt(l, e) == IF e = LinkData[l].from THEN LinkData[l].name ELSE LinkData[l].inverseName

\* Variant: the timestamp of the last link under a name counts.
AddLast(l, e, linked) == [linked EXCEPT ![NameAt(l, e)] = l]

\* addLink: the first link under a name counts.
AddLink(l, e, linked) == IF linked[NameAt(l, e)] = None THEN [linked EXCEPT ![NameAt(l, e)] = l] ELSE linked

\* removeLink leaves linked_at alone.
Updated(k, e) == IF ActiveOf(k) THEN AddLink(Head(plan[k]), e, copy[k][e]) ELSE copy[k][e]

\* Variant: a link is materialised at the contract that it comes from.
AtItsSource(k, e) ==
  /\ e = LinkData[Head(plan[k])].from
  /\ \A d \in EndsOf(Head(plan[k])) : copy[k][d] # Gone
  /\ Updated(k, e) # copy[k][e]

\* Both ends were found, and linked_at changes.
Materializes(k, e) ==
  /\ \A d \in EndsOf(Head(plan[k])) : copy[k][d] # Gone
  /\ Updated(k, e) # copy[k][e]

\* materializeLink writes the whole column.
Materialize(k, e) ==
  /\ pc[k] = "linking" /\ part[k][e] = "read"
  /\ \A d \in Ends : part[k][d] \notin {"unread", "selected"}
  /\ IF Materializes(k, e)
     THEN /\ linkedAt' = [linkedAt EXCEPT ![e] = Updated(k, e)]
          /\ part' = [part EXCEPT ![k][e] = "materialized"]
     ELSE /\ part' = [part EXCEPT ![k][e] = "done"]
          /\ UNCHANGED linkedAt
  /\ UNCHANGED <<active, links2, cached, pc, plan, upserts, copy, alone, settled, disturbed, begun>>

\* cache.unset of an end that was materialised.
Unset(k, e) ==
  /\ part[k][e] = "materialized"
  /\ cached' = [cached EXCEPT ![e] = Absent]
  /\ part' = [part EXCEPT ![k][e] = "done"]
  /\ UNCHANGED <<active, linkedAt, links2, pc, plan, upserts, copy, alone, settled, disturbed, begun>>

Linked(k) ==
  /\ pc[k] = "linking" /\ \A e \in Ends : part[k][e] \in {"none", "done"}
  /\ GoOn(k)
  /\ UNCHANGED <<active, linkedAt, links2, cached, disturbed, begun>>

-----------------------------------------------------------------------------
OfCall(k) ==
  \/ \E c \in Requested, isActive, replace \in BOOLEAN : Upsert(k, c, isActive, replace)
  \/ \E e \in Requested \cap Ends : Read(k, e)
  \/ \E e \in Ends : \/ ReadCache(k, e) \/ SelectRow(k, e) \/ CacheRead(k, e)
                     \/ Materialize(k, e) \/ Unset(k, e)
  \/ UpsertRow(k) \/ CacheRow(k) \/ IndexLink(k) \/ Returned(k) \/ Linked(k) \/ Fail(k)

Next == \E k \in Calls : OfCall(k)

Spec == Init /\ [][Next]_vars

-----------------------------------------------------------------------------
(* Properties.                                                             *)

\* links2 has both rows of a link that is active and no row of one that is not,
\* except while the link is being upserted, and after upserts that failed or
\* overlapped, until the next one (index.ts:632, no transaction).
RowsFollowLinks ==
  \A l \in settled \cap LinkIds :
    {r \in links2 : r.id = l} = IF active[l] THEN BothRows(l) ELSE {}

\* A link of contracts that no two calls had to do with at once is recorded at both of
\* its ends.
LinksAreMaterialized ==
  \A l \in settled \cap LinkIds :
    active[l] /\ EndsOf(l) \cap disturbed = {} =>
      \A e \in EndsOf(l) : linkedAt[e][NameAt(l, e)] # None

\* When a contract was first linked under a name is never changed, unless two calls
\* had to do with it at once or one failed: calls one after the other do not lose it,
\* although each writes the whole column from what it has read through the cache
\* (index.ts:662-676).
FirstLinkIsKept ==
  [][\A e \in Ends \ disturbed, n \in Names :
       linkedAt[e][n] # None => linkedAt'[e][n] = linkedAt[e][n]]_vars

\* After an upsert of a user, what belongs to it is active if and only if the user is,
\* however many upserts before it have stopped half-way (index.ts:706-850).
DependentsFollowUser ==
  \A u \in settled \cap Users : \A c \in Elements(Dependents[u]) : active[c] = active[u]
=============================================================================
