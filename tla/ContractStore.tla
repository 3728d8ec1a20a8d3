---------------------------- MODULE ContractStore ----------------------------
(***************************************************************************)
(* The contract store: the cards table in Postgres (cards.ts), the Redis   *)
(* cache in front of it (cache.ts), and the operations of PostgresBackend  *)
(* and Kernel that keep the two in step (index.ts, kernel.ts).             *)
(*                                                                         *)
(* A client is one asynchronous call chain, of this process or of another  *)
(* one on the same database and cache.  Clients interleave wherever the    *)
(* code awaits, so an action is what happens between two awaits: one SQL   *)
(* statement, or one Redis command.                                        *)
(***************************************************************************)
CONSTANTS
  Clients,    \* concurrent calls
  Slugs,      \* versioned slugs, `${slug}@${version}`
  Ids,        \* contract ids
  Types,      \* contract types
  Data,       \* what a contract may be inserted or replaced with
  Edits,      \* JSON patches
  SlugEdits,  \* the slugs that a patch may write to /slug
  None,       \* no row, no lock holder, no key
  Absent,     \* the cache holds nothing under the key
  Missing     \* the cache holds 'null' under the key: "known not to exist"

VARIABLES
  cards,      \* the committed rows of the cards table, by versioned slug
  rowLock,    \* the transaction that holds the row lock of a slug
  cache,      \* the Redis keys `cards:id:<id>` and `cards:slug:<slug>@<version>`
  pc,         \* how far the client's call has got
  target,     \* the key it reads, or the slug it patches
  hand,       \* the contract a patch is about to write
  sets        \* the cache writes it has issued that have not landed

vars == <<cards, rowLock, cache, pc, target, hand, sets>>

Table == INSTANCE ContractTable WITH cards <- cards

Contract == Table!Contract
NewContract == Table!NewContract
Keys == Ids \cup Slugs

ASSUME ConstantsAssumption ==
  /\ SlugEdits \subseteq Slugs
  /\ Ids \cap Slugs = {}
  /\ None \notin Contract \cup Clients \cup Keys
  /\ Absent \notin Contract \cup {Missing}
  /\ Missing \notin Contract

\* The states of a call:
\*   idle      no call in progress
\*   reading   the cache had nothing, the SELECT is next
\*   filling   the SELECT is done, its cache writes are landing
\*   storing   an insert or upsert is done, its cache writes are landing
\*   locked    a patch holds the row of SELECT ... FOR UPDATE
\*   upserted  a patch has written its row and has not committed
\*   aborting  a patch has failed, ROLLBACK is next
States == {"idle", "reading", "filling", "storing", "locked", "upserted", "aborting"}

\* Variant (a bug the properties must catch): only the id key is refreshed.
CacheSetIdOnly(o) == {[key |-> o.id, entry |-> o]}

\* cache.set issues both writes at once and awaits the pair.
CacheSet(o) == {[key |-> o.id, entry |-> o], [key |-> o.slug, entry |-> o]}

\* cache.setMissingId and cache.setMissingSlug.
CacheSetMissing(k) == {[key |-> k, entry |-> Missing]}

CacheWrites == [key: Keys, entry: Contract \cup {Missing}]

TypeOK ==
  /\ cards \in [Slugs -> Contract \cup {None}]
  /\ rowLock \in [Slugs -> Clients \cup {None}]
  /\ cache \in [Keys -> Contract \cup {Missing, Absent}]
  /\ pc \in [Clients -> States]
  /\ target \in [Clients -> Keys \cup {None}]
  /\ hand \in [Clients -> Contract \cup {None}]
  /\ sets \in [Clients -> SUBSET CacheWrites]

Init ==
  /\ Table!Init
  /\ rowLock = [s \in Slugs |-> None]
  /\ cache = [k \in Keys |-> Absent]
  /\ pc = [c \in Clients |-> "idle"]
  /\ target = [c \in Clients |-> None]
  /\ hand = [c \in Clients |-> None]
  /\ sets = [c \in Clients |-> {}]

-----------------------------------------------------------------------------
(* The table.                                                              *)

\* The rows that WHERE id = $1, or WHERE slug = $1 AND version..., selects.
Select(k) == {cards[s] : s \in {r \in Slugs : cards[r] # None /\ (r = k \/ cards[r].id = k)}}

\* No row has this primary key.
IdFree(i) == \A s \in Slugs : cards[s] # None => cards[s].id # i

\* INSERT ... ON CONFLICT (slug, version) DO UPDATE: the row it leaves.  The
\* update assigns every column except id, links, linked_at, created_at (kept)
\* and type (not in the list).
UpsertedRow(o) ==
  IF cards[o.slug] = None
  THEN o
  ELSE [o EXCEPT !.id = cards[o.slug].id, !.type = cards[o.slug].type]

\* Variant: the id that RETURNING gave is dropped and the caller's is kept.
UpsertedOwnId(o) == o

\* Variant: the same, when the caller gave no id.
UpsertedNoId(o) == [o EXCEPT !.id = IF cards[o.slug] = None THEN @ ELSE None]

\* What cards.upsert returns, and upsertObject caches: the caller's object
\* with the id that RETURNING gave.
Upserted(o) == [o EXCEPT !.id = UpsertedRow(o).id]

\* A statement that must wait for row s, by a client that may hold it already.
MayLock(c, s) == rowLock[s] \in {None, c}

\* Variant: only COMMIT ends the transaction, a return without a write does not.
UnlockedByCommit(c) ==
  [s \in Slugs |-> IF rowLock[s] = c /\ pc[c] # "locked" THEN None ELSE rowLock[s]]

Unlocked(c) == [s \in Slugs |-> IF rowLock[s] = c THEN None ELSE rowLock[s]]

-----------------------------------------------------------------------------
(* Reads: getElementById, getElementBySlug.                                *)

\* A cache hit returns at once.  A miss, or skipCache, goes on to the table.
Probe(c, k) ==
  /\ pc[c] = "idle"
  /\ cache[k] = Absent \/ k \in Slugs
  /\ pc' = [pc EXCEPT ![c] = "reading"]
  /\ target' = [target EXCEPT ![c] = k]
  /\ UNCHANGED <<cards, rowLock, cache, hand, sets>>

Read(c) ==
  /\ pc[c] = "reading"
  /\ \/ \E o \in Select(target[c]) : sets' = [sets EXCEPT ![c] = CacheSet(o)]
     \/ /\ Select(target[c]) = {}
        /\ sets' = [sets EXCEPT ![c] = CacheSetMissing(target[c])]
  /\ pc' = [pc EXCEPT ![c] = "filling"]
  /\ target' = [target EXCEPT ![c] = None]
  /\ UNCHANGED <<cards, rowLock, cache, hand>>

-----------------------------------------------------------------------------
(* Writes outside a transaction: insertElement, upsertElement.  A unique   *)
(* violation throws ElementAlreadyExists and changes nothing.              *)

Insert(c, o) ==
  /\ pc[c] = "idle"
  /\ cards[o.slug] = None
  /\ IdFree(o.id)
  /\ cards' = [cards EXCEPT ![o.slug] = o]
  /\ sets' = [sets EXCEPT ![c] = CacheSet(o)]
  /\ pc' = [pc EXCEPT ![c] = "storing"]
  /\ UNCHANGED <<rowLock, cache, target, hand>>

Replace(c, o) ==
  /\ pc[c] = "idle"
  /\ cards[o.slug] = None => IdFree(o.id)
  /\ rowLock[o.slug] = None
  /\ cards' = [cards EXCEPT ![o.slug] = UpsertedRow(o)]
  /\ sets' = [sets EXCEPT ![c] = CacheSet(Upserted(o))]
  /\ pc' = [pc EXCEPT ![c] = "storing"]
  /\ UNCHANGED <<rowLock, cache, target, hand>>

-----------------------------------------------------------------------------
(* patchContractBySlug: a READ COMMITTED transaction.                      *)

\* Variant: SELECT without FOR UPDATE.
PatchLockUnlocked(c, s, to, e) ==
  /\ pc[c] = "idle"
  /\ cards[s] # None
  /\ target' = [target EXCEPT ![c] = s]
  /\ hand' = [hand EXCEPT ![c] = [cards[s] EXCEPT !.slug = to, !.edits = @ \cup {e}]]
  /\ sets' = [sets EXCEPT ![c] = CacheSet(cards[s])]
  /\ pc' = [pc EXCEPT ![c] = "locked"]
  /\ UNCHANGED <<cards, rowLock, cache>>

\* SELECT ... FOR UPDATE returns the row as of the moment it gets the lock; the
\* row is cached, and the patch is applied to it.
PatchLock(c, s, to, e) ==
  /\ pc[c] = "idle"
  /\ cards[s] # None
  /\ rowLock[s] = None
  /\ rowLock' = [rowLock EXCEPT ![s] = c]
  /\ target' = [target EXCEPT ![c] = s]
  /\ hand' = [hand EXCEPT ![c] = [cards[s] EXCEPT !.slug = to, !.edits = @ \cup {e}]]
  /\ sets' = [sets EXCEPT ![c] = CacheSet(cards[s])]
  /\ pc' = [pc EXCEPT ![c] = "locked"]
  /\ UNCHANGED <<cards, cache>>

\* No such contract: the miss is cached, then the assertion fails.  The transaction
\* has locked nothing and written nothing, so that its ROLLBACK shows nowhere.
PatchNothing(c, s) ==
  /\ pc[c] = "idle"
  /\ cards[s] = None
  /\ sets' = [sets EXCEPT ![c] = CacheSetMissing(s)]
  /\ pc' = [pc EXCEPT ![c] = "filling"]
  /\ UNCHANGED <<cards, rowLock, cache, target, hand>>

\* The upsert inside the transaction.  Its row stays in hand until COMMIT, but
\* upsertObject caches it now.  When the patch moved the contract to a slug that
\* has no row, the INSERT collides with the contract's own id: see Rollback.
PatchUpsert(c) ==
  LET o == hand[c] IN
  /\ pc[c] = "locked"
  /\ sets[c] = {}
  /\ o # cards[target[c]]
  /\ cards[o.slug] # None
  /\ MayLock(c, o.slug)
  /\ rowLock' = [rowLock EXCEPT ![o.slug] = c]
  /\ hand' = [hand EXCEPT ![c] = UpsertedRow(o)]
  /\ sets' = [sets EXCEPT ![c] = CacheSet(Upserted(o))]
  /\ pc' = [pc EXCEPT ![c] = "upserted"]
  /\ UNCHANGED <<cards, cache, target>>

\* The transaction is over: its locks are released.
EndPatch(c) ==
  /\ rowLock' = Unlocked(c)
  /\ pc' = [pc EXCEPT ![c] = "idle"]
  /\ target' = [target EXCEPT ![c] = None]
  /\ hand' = [hand EXCEPT ![c] = None]
  /\ UNCHANGED <<cache, sets>>

\* A patch that changes nothing writes nothing.
PatchNoop(c) ==
  /\ pc[c] = "locked"
  /\ sets[c] = {}
  /\ hand[c] = cards[target[c]]
  /\ EndPatch(c)
  /\ UNCHANGED cards

Commit(c) ==
  /\ pc[c] = "upserted"
  /\ sets[c] = {}
  /\ cards' = [cards EXCEPT ![hand[c].slug] = hand[c]]
  /\ EndPatch(c)

\* The callback throws (the patch does not apply or validate, a constraint, a
\* deadlock or a timeout in Postgres, a failed cache write), or COMMIT fails.
Rollback(c) ==
  /\ pc[c] = "aborting" \/ (pc[c] \in {"locked", "upserted"} /\ sets[c] = {})
  /\ EndPatch(c)
  /\ UNCHANGED cards

-----------------------------------------------------------------------------
(* The cache.                                                              *)

\* One of the writes a client has in flight lands.
CacheLands(c, w) ==
  /\ w \in sets[c]
  /\ cache' = [cache EXCEPT ![w.key] = w.entry]
  /\ sets' = [sets EXCEPT ![c] = @ \ {w}]
  /\ pc' = [pc EXCEPT ![c] = IF @ \in {"filling", "storing"} /\ sets'[c] = {} THEN "idle" ELSE @]
  /\ UNCHANGED <<cards, rowLock, target, hand>>

\* One is lost.  Promise.all gives the caller the error at once, while the other
\* one of the pair is still on its way: the statement before it stands, a
\* transaction rolls back.
CacheFails(c, w) ==
  /\ w \in sets[c]
  /\ sets' = [sets EXCEPT ![c] = @ \ {w}]
  /\ pc' = [pc EXCEPT ![c] = IF @ \in {"idle", "filling", "storing"} THEN "idle" ELSE "aborting"]
  /\ UNCHANGED <<cards, rowLock, cache, target, hand>>

\* Variant: a 'null' is stored without the expiration.
ExpireContracts(k) ==
  /\ cache[k] \in Contract
  /\ cache' = [cache EXCEPT ![k] = Absent]
  /\ UNCHANGED <<cards, rowLock, pc, target, hand, sets>>

\* The one hour expiration, of contracts and of 'null' alike.
Expire(k) ==
  /\ cache[k] # Absent
  /\ cache' = [cache EXCEPT ![k] = Absent]
  /\ UNCHANGED <<cards, rowLock, pc, target, hand, sets>>

-----------------------------------------------------------------------------
\* A call begins.  While a cache write that a failed call has left behind is on
\* its way, the calls of other clients stand for those that follow.
Call(c) ==
  /\ sets[c] = {}
  /\ \/ \E k \in Keys : Probe(c, k)
     \/ \E o \in NewContract : Insert(c, o) \/ Replace(c, o)
     \/ \E s \in Slugs : \/ PatchNothing(c, s)
                         \/ \E to \in {s} \cup SlugEdits, e \in Edits : PatchLock(c, s, to, e)

\* A call that has begun goes on.
Step(c) ==
  \/ Read(c)
  \/ PatchUpsert(c) \/ PatchNoop(c) \/ Commit(c) \/ Rollback(c)
  \/ \E w \in sets[c] : CacheLands(c, w) \/ CacheFails(c, w)

Next ==
  \/ \E c \in Clients : Call(c) \/ Step(c)
  \/ \E k \in Keys : Expire(k)

Spec == Init /\ [][Next]_vars

\* Nobody has to call, but a call goes on (statements time out after 30 s and
\* then fail), and Redis expires its keys.
Fairness ==
  /\ \A c \in Clients : WF_vars(Step(c))
  /\ \A k \in Keys : WF_vars(Expire(k))

FairSpec == Spec /\ Fairness

-----------------------------------------------------------------------------
(* Properties.                                                             *)

\* Whatever the cache, the locks and the interleaving, the table behaves as one
\* in which insert, replace and patch are atomic: a contract keeps its id and its
\* type for life, and a patch that commits was applied to the row it replaces, so
\* that no concurrent patch or replacement of it is lost (FOR UPDATE in
\* cards.getBySlug, held by patchContractBySlug until COMMIT).
ImplementsContractTable == Table!Spec

\* Between SELECT ... FOR UPDATE and COMMIT, the contract that a patch is about to
\* write is still the patched form of the row as committed, and the row it will
\* overwrite is the one whose id and type it took over.
PatchOfCurrentRow ==
  \A c \in Clients : pc[c] \in {"locked", "upserted"} =>
    LET to == hand[c].slug IN
    /\ to \in Table!PatchTargets(target[c])
    /\ cards[target[c]] # None
    /\ \E e \in Edits :
         LET o == Table!Patched(cards[target[c]], to, e) IN
         IF pc[c] = "locked"
         THEN hand[c] = o
         ELSE cards[to] # None /\ hand[c] = Table!Overwrite(cards[to], o)

\* The cache never gives a contract a wrong identity: what the id key and the slug
\* key hold names the row with that id and that slug, however old its contents
\* are, and never a contract that was not inserted (cards.upsert copies the id
\* that RETURNING gave over the caller's, upsertObject caches after that).
CacheIdentity ==
  \A k \in Keys : cache[k] \in Contract =>
    LET o == cache[k] IN
    /\ k \in {o.id, o.slug}
    /\ cards[o.slug] # None
    /\ cards[o.slug].id = o.id
    /\ \A s \in Slugs : cards[s] # None /\ cards[s].id = o.id => s = o.slug

\* What a hit on this key returns is what a query would return.
Coherent(k) ==
  /\ cache[k] = Missing => Select(k) = {}
  /\ cache[k] \in Contract => Select(k) = {cache[k]}

\* A call is about to cache the contract with a type that its row does not have: the
\* update on conflict does not assign the column.
Retyped(s) ==
  \E c \in Clients : \E w \in sets[c] :
    w.entry # Missing /\ w.entry.slug = s /\ w.entry.type # cards[s].type

NoPatch == \A c \in Clients : pc[c] \notin {"locked", "upserted", "aborting"}

\* Staleness is bounded by the expiration: once the table has stopped changing,
\* every hit is eventually right for good, even if calls keep reading (and so keep
\* filling the cache) and cache writes keep failing (cache.ts: EX 3600), unless calls
\* keep replacing a contract with another type.
EventuallyCoherent ==
  <>[]NoPatch /\ <>[](\A s \in Slugs : ~Retyped(s)) /\ <>[][FALSE]_cards => <>[](\A k \in Keys : Coherent(k))

\* A patch gives up every row lock it took, whichever way it ends: it commits,
\* returns without a write, or fails at any of its awaits (withTransaction).
LocksReleased ==
  \A c \in Clients, s \in Slugs : rowLock[s] = c ~> rowLock[s] # c
=============================================================================
