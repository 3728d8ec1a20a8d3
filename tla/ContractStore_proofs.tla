------------------------- MODULE ContractStore_proofs -------------------------
(***************************************************************************)
(* ContractStore implements ContractTable, its cache never gives a         *)
(* contract a wrong identity, and an entry is stale only after a race, a   *)
(* failure or a change of type, for any number of calls, contracts, ids,   *)
(* types, data and patches.                                                *)
(***************************************************************************)
EXTENDS Staleness, TLAPS

\* A row is stored under its own slug, and no two rows share an id.
RowIdentity ==
  /\ \A s \in Slugs : cards[s] # None => cards[s].slug = s
  /\ \A r, s \in Slugs :
       cards[r] # None /\ cards[s] # None /\ cards[r].id = cards[s].id => r = s

\* A SELECT that is due has a key to select.
ReadsAKey == \A c \in Clients : pc[c] = "reading" => target[c] \in Keys

\* A patch holds the lock of the row that it read, and of the row that it wrote.
HoldsLocks ==
  \A c \in Clients : pc[c] \in {"locked", "upserted"} =>
    /\ target[c] \in Slugs
    /\ hand[c] \in Contract
    /\ rowLock[target[c]] = c
    /\ pc[c] = "upserted" => rowLock[hand[c].slug] = c

\* There is a row with the slug and the id of this contract.
Named(o) == cards[o.slug] # None /\ cards[o.slug].id = o.id

CachedIdentity ==
  \A k \in Keys : cache[k] \in Contract => k \in {cache[k].id, cache[k].slug} /\ Named(cache[k])

\* The same of the writes that are on their way to the cache.
SentIdentity ==
  \A c \in Clients : \A w \in sets[c] :
    w.entry \in Contract => w.key \in {w.entry.id, w.entry.slug} /\ Named(w.entry)

IInv ==
  /\ TypeOK
  /\ RowIdentity
  /\ ReadsAKey
  /\ HoldsLocks
  /\ PatchOfCurrentRow
  /\ CachedIdentity
  /\ SentIdentity

-----------------------------------------------------------------------------
\* What the helpers return.

LEMMA ContractFields ==
  ASSUME NEW o \in Contract
  PROVE  /\ o.slug \in Slugs
         /\ o.id \in Ids
         /\ o.slug \in Keys
         /\ o.id \in Keys
         /\ o # None
         /\ o # Missing
         /\ o # Absent
  BY ConstantsAssumption DEF Contract, Table!Contract, Keys

LEMMA NewIsContract == NewContract \subseteq Contract
  BY DEF NewContract, Table!NewContract, Contract, Table!Contract

LEMMA CacheSetType ==
  ASSUME NEW o \in Contract
  PROVE  CacheSet(o) \subseteq CacheWrites
  BY ContractFields DEF CacheSet, CacheWrites

LEMMA CacheSetMissingType ==
  ASSUME NEW k \in Keys
  PROVE  CacheSetMissing(k) \subseteq CacheWrites
  BY DEF CacheSetMissing, CacheWrites

\* A patch of a contract is a contract with the same id, type and data.
LEMMA PatchedType ==
  ASSUME NEW o \in Contract, NEW to \in Slugs, NEW e \in Edits
  PROVE  /\ Table!Patched(o, to, e) \in Contract
         /\ Table!Patched(o, to, e).slug = to
         /\ Table!Patched(o, to, e).id = o.id
         /\ Table!Patched(o, to, e).edits = o.edits \cup {e}
  BY DEF Table!Patched, Contract, Table!Contract

LEMMA OverwriteType ==
  ASSUME NEW row \in Contract, NEW o \in Contract
  PROVE  /\ Table!Overwrite(row, o) \in Contract
         /\ Table!Overwrite(row, o).slug = o.slug
         /\ Table!Overwrite(row, o).id = row.id
  BY DEF Table!Overwrite, Contract, Table!Contract

\* The row that an upsert leaves keeps the identity of the row that it finds.
LEMMA UpsertedRowType ==
  ASSUME TypeOK, NEW o \in Contract
  PROVE  /\ UpsertedRow(o) \in Contract
         /\ UpsertedRow(o).slug = o.slug
         /\ cards[o.slug] = None => UpsertedRow(o) = o
         /\ cards[o.slug] # None => /\ UpsertedRow(o) = Table!Overwrite(cards[o.slug], o)
                                   /\ UpsertedRow(o).id = cards[o.slug].id
  <1>1. cards[o.slug] \in Contract \cup {None}
    BY ContractFields DEF TypeOK
  <1>2. CASE cards[o.slug] = None
    BY <1>2 DEF UpsertedRow
  <1>3. CASE cards[o.slug] # None
    <2>1. cards[o.slug] \in Contract
      BY <1>1, <1>3
    <2>2. UpsertedRow(o) = Table!Overwrite(cards[o.slug], o)
      BY <1>3 DEF UpsertedRow, Table!Overwrite
    <2> QED BY <1>3, <2>1, <2>2, OverwriteType
  <1> QED BY <1>2, <1>3

LEMMA UpsertedType ==
  ASSUME TypeOK, NEW o \in Contract
  PROVE  /\ Upserted(o) \in Contract
         /\ Upserted(o).slug = o.slug
         /\ Upserted(o).id = UpsertedRow(o).id
  <1>1. UpsertedRow(o).id \in Ids
    BY UpsertedRowType, ContractFields
  <1> QED BY <1>1 DEF Upserted, Contract, Table!Contract

-----------------------------------------------------------------------------
\* The invariant.

\* Nothing that follows from the table alone is disturbed by a step that leaves the
\* table alone; the cache may only take what was on its way to it.
LEMMA InitInv == Init => IInv
  <1> SUFFICES ASSUME Init PROVE IInv
    OBVIOUS
  <1>1. TypeOK
    BY DEF Init, Table!Init, TypeOK, States
  <1>2. RowIdentity /\ HoldsLocks /\ ReadsAKey
    BY DEF Init, Table!Init, RowIdentity, HoldsLocks, ReadsAKey
  <1>3. PatchOfCurrentRow
    BY DEF Init, PatchOfCurrentRow
  <1>4. CachedIdentity /\ SentIdentity
    BY ConstantsAssumption DEF Init, CachedIdentity, SentIdentity
  <1> QED BY <1>1, <1>2, <1>3, <1>4 DEF IInv

LEMMA ProbeInv ==
  ASSUME IInv, NEW c \in Clients, NEW k \in Keys, Probe(c, k)
  PROVE  IInv'
  <1> USE DEF IInv, Probe
  <1>1. TypeOK'
    BY DEF TypeOK, States
  <1>2. RowIdentity'
    BY DEF RowIdentity
  <1>3. ReadsAKey'
    BY DEF ReadsAKey, TypeOK
  <1>4. HoldsLocks'
    BY DEF HoldsLocks, TypeOK
  <1>5. PatchOfCurrentRow'
    BY DEF PatchOfCurrentRow, TypeOK
  <1>6. CachedIdentity' /\ SentIdentity'
    BY DEF CachedIdentity, SentIdentity, Named
  <1> QED BY <1>1, <1>2, <1>3, <1>4, <1>5, <1>6

\* A contract that was read is named by its row.
LEMMA SelectNamed ==
  ASSUME TypeOK, RowIdentity, NEW k \in Keys, NEW o \in Select(k)
  PROVE  o \in Contract /\ Named(o)
  BY DEF Select, TypeOK, RowIdentity, Named

LEMMA ReadInv ==
  ASSUME IInv, NEW c \in Clients, Read(c)
  PROVE  IInv'
  <1> USE DEF IInv
  <1>0. target[c] \in Keys
    BY DEF Read, ReadsAKey
  <1>a. \/ \E o \in Select(target[c]) : sets' = [sets EXCEPT ![c] = CacheSet(o)]
       \/ sets' = [sets EXCEPT ![c] = CacheSetMissing(target[c])]
    BY DEF Read
  <1>b. \E W \in SUBSET CacheWrites :
          /\ sets' = [sets EXCEPT ![c] = W]
          /\ \A w \in W : w.entry \in Contract => w.key \in {w.entry.id, w.entry.slug} /\ Named(w.entry)
    <2>1. ASSUME NEW o \in Select(target[c]) 
          PROVE  /\ CacheSet(o) \subseteq CacheWrites
                 /\ \A w \in CacheSet(o) : w.entry \in Contract => w.key \in {w.entry.id, w.entry.slug} /\ Named(w.entry)
      <3>1. o \in Contract /\ Named(o)
        BY <1>0, SelectNamed
      <3> QED BY <3>1, CacheSetType DEF CacheSet
    <2>2. /\ CacheSetMissing(target[c]) \subseteq CacheWrites
          /\ \A w \in CacheSetMissing(target[c]) : w.entry \notin Contract
      BY <1>0, CacheSetMissingType, ConstantsAssumption DEF CacheSetMissing
    <2>3. CASE \E o \in Select(target[c]) : sets' = [sets EXCEPT ![c] = CacheSet(o)]
      BY <2>1, <2>3
    <2>4. CASE sets' = [sets EXCEPT ![c] = CacheSetMissing(target[c])]
      BY <2>2, <2>4
    <2> QED BY <1>a, <2>3, <2>4
  <1>1. TypeOK'
    BY <1>b DEF Read, TypeOK, States
  <1>2. RowIdentity'
    BY DEF Read, RowIdentity
  <1>3. ReadsAKey'
    BY DEF Read, ReadsAKey, TypeOK
  <1>4. HoldsLocks'
    BY DEF Read, HoldsLocks, TypeOK
  <1>5. PatchOfCurrentRow'
    BY DEF Read, PatchOfCurrentRow, TypeOK
  <1>6. CachedIdentity'
    BY DEF Read, CachedIdentity, Named
  <1>7. SentIdentity'
    BY <1>b DEF Read, SentIdentity, Named, TypeOK
  <1> QED BY <1>1, <1>2, <1>3, <1>4, <1>5, <1>6, <1>7

\* A write that keeps the id of the row it finds, or inserts a row with a free id,
\* keeps the rows' identities, and every name that the cache may hold.
LEMMA RowWritten ==
  ASSUME TypeOK, RowIdentity, NEW row \in Contract,
         cards' = [cards EXCEPT ![row.slug] = row],
         cards[row.slug] = None => IdFree(row.id),
         cards[row.slug] # None => row.id = cards[row.slug].id
  PROVE  /\ cards' \in [Slugs -> Contract \cup {None}]
         /\ RowIdentity'
         /\ \A o \in Contract : Named(o) => Named(o)'
         /\ \A o \in Contract : o.slug = row.slug /\ o.id = row.id => Named(o)'
  <1>1. row.slug \in Slugs /\ row # None
    BY ContractFields
  <1>2. cards' \in [Slugs -> Contract \cup {None}]
    BY <1>1 DEF TypeOK
  <1>3. RowIdentity'
    BY <1>1 DEF TypeOK, RowIdentity, IdFree
  <1>4. ASSUME NEW o \in Contract, Named(o)
        PROVE  Named(o)'
    BY <1>1, <1>4, ContractFields DEF TypeOK, Named
  <1>5. ASSUME NEW o \in Contract, o.slug = row.slug, o.id = row.id
        PROVE  Named(o)'
    BY <1>1, <1>5 DEF TypeOK, Named
  <1> QED BY <1>2, <1>3, <1>4, <1>5

\* An unlocked write of a row leaves the patches in progress alone.
LEMMA UnlockedWrite ==
  ASSUME TypeOK, HoldsLocks, PatchOfCurrentRow, NEW row \in Contract,
         cards' = [cards EXCEPT ![row.slug] = row],
         cards[row.slug] = None \/ rowLock[row.slug] = None,
         NEW c \in Clients, pc[c] \notin {"locked", "upserted"},
         pc' = [pc EXCEPT ![c] = "storing"],
         UNCHANGED <<rowLock, target, hand>>
  PROVE  HoldsLocks' /\ PatchOfCurrentRow'
  <1>1. row.slug \in Slugs
    BY ContractFields
  <1>2. HoldsLocks'
    BY DEF HoldsLocks, TypeOK
  <1>3. ASSUME NEW d \in Clients, pc'[d] \in {"locked", "upserted"}
        PROVE  /\ pc'[d] = pc[d]
               /\ cards'[target[d]] = cards[target[d]]
               /\ pc[d] = "upserted" => cards'[hand[d].slug] = cards[hand[d].slug]
    <2>1. d # c /\ pc'[d] = pc[d]
      BY <1>3 DEF TypeOK
    <2>2. target[d] \in Slugs /\ hand[d].slug \in Slugs
      BY <1>3, <2>1, ContractFields DEF HoldsLocks
    <2>3. target[d] # row.slug
      BY <1>3, <2>1, ConstantsAssumption DEF HoldsLocks, PatchOfCurrentRow
    <2>4. pc[d] = "upserted" => hand[d].slug # row.slug
      BY <1>3, <2>1, ConstantsAssumption DEF HoldsLocks, PatchOfCurrentRow
    <2> QED BY <1>1, <2>1, <2>2, <2>3, <2>4 DEF TypeOK
  <1>4. PatchOfCurrentRow'
    BY <1>3 DEF PatchOfCurrentRow
  <1> QED BY <1>2, <1>4

LEMMA InsertInv ==
  ASSUME IInv, NEW c \in Clients, NEW o \in NewContract, Insert(c, o)
  PROVE  IInv'
  <1> USE DEF IInv, Insert
  <1>0. o \in Contract
    BY NewIsContract
  <1>a. /\ cards' \in [Slugs -> Contract \cup {None}]
        /\ RowIdentity'
        /\ \A x \in Contract : Named(x) => Named(x)'
        /\ \A x \in Contract : x.slug = o.slug /\ x.id = o.id => Named(x)'
    BY <1>0, RowWritten
  <1>1. TypeOK'
    BY <1>0, <1>a, CacheSetType DEF TypeOK, States
  <1>2. ReadsAKey'
    BY DEF ReadsAKey, TypeOK
  <1>3. HoldsLocks' /\ PatchOfCurrentRow'
    BY <1>0, UnlockedWrite
  <1>4. CachedIdentity'
    BY <1>a DEF CachedIdentity
  <1>5. SentIdentity'
    BY <1>0, <1>a DEF SentIdentity, TypeOK, CacheSet
  <1> QED BY <1>a, <1>1, <1>2, <1>3, <1>4, <1>5

LEMMA ReplaceInv ==
  ASSUME IInv, NEW c \in Clients, NEW o \in NewContract, Replace(c, o)
  PROVE  IInv'
  <1> USE DEF IInv, Replace
  <1>0. o \in Contract
    BY NewIsContract
  <1> DEFINE row == UpsertedRow(o)
             obj == Upserted(o)
  <1>b. /\ row \in Contract /\ row.slug = o.slug
        /\ cards[o.slug] = None => row = o
        /\ cards[o.slug] # None => row.id = cards[o.slug].id
        /\ obj \in Contract /\ obj.slug = row.slug /\ obj.id = row.id
    BY <1>0, UpsertedRowType, UpsertedType
  <1>c. cards' = [cards EXCEPT ![row.slug] = row]
    BY <1>b
  <1>e. cards[row.slug] = None => IdFree(row.id)
    BY <1>b
  <1> HIDE DEF row, obj
  <1>a. /\ cards' \in [Slugs -> Contract \cup {None}]
        /\ RowIdentity'
        /\ \A x \in Contract : Named(x) => Named(x)'
        /\ \A x \in Contract : x.slug = row.slug /\ x.id = row.id => Named(x)'
    BY <1>b, <1>c, <1>e, RowWritten
  <1>d. sets' = [sets EXCEPT ![c] = CacheSet(obj)]
    BY DEF obj
  <1>1. TypeOK'
    BY <1>a, <1>b, <1>d, CacheSetType DEF TypeOK, States
  <1>2. ReadsAKey'
    BY DEF ReadsAKey, TypeOK
  <1>3. HoldsLocks' /\ PatchOfCurrentRow'
    BY <1>b, <1>c, UnlockedWrite
  <1>4. CachedIdentity'
    BY <1>a DEF CachedIdentity
  <1>5. SentIdentity'
    BY <1>a, <1>b, <1>d DEF SentIdentity, TypeOK, CacheSet
  <1> QED BY <1>a, <1>1, <1>2, <1>3, <1>4, <1>5

LEMMA PatchLockInv ==
  ASSUME IInv, NEW c \in Clients, NEW s \in Slugs, NEW to \in Table!PatchTargets(s),
         NEW e \in Edits, PatchLock(c, s, to, e)
  PROVE  IInv'
  <1> USE DEF IInv
  <1>0. to \in Slugs
    BY ConstantsAssumption DEF Table!PatchTargets
  <1>a. cards[s] \in Contract /\ cards[s].slug = s /\ Named(cards[s])
    BY DEF PatchLock, TypeOK, RowIdentity, Named
  <1> DEFINE o == Table!Patched(cards[s], to, e)
  <1>b. o \in Contract /\ o.slug = to
    BY <1>0, <1>a, PatchedType
  <1>c. hand' = [hand EXCEPT ![c] = o]
    BY DEF PatchLock, Table!Patched
  <1> HIDE DEF o
  <1>1. TypeOK'
    BY <1>a, <1>b, <1>c, CacheSetType DEF PatchLock, TypeOK, States, Keys
  <1>2. RowIdentity' /\ ReadsAKey'
    BY DEF PatchLock, RowIdentity, ReadsAKey, TypeOK
  <1>3. HoldsLocks'
    BY <1>b, <1>c, ContractFields, ConstantsAssumption DEF PatchLock, HoldsLocks, TypeOK
  <1>4. PatchOfCurrentRow'
    <2>1. ASSUME NEW d \in Clients, d # c, pc'[d] \in {"locked", "upserted"}
          PROVE  /\ pc[d] = pc'[d]
                 /\ target'[d] = target[d]
                 /\ hand'[d] = hand[d]
      BY <2>1, <1>c DEF PatchLock, TypeOK
    <2>2. /\ pc'[c] = "locked"
          /\ target'[c] = s
          /\ hand'[c] = o
          /\ cards'[s] = cards[s]
          /\ cards'[s] # None
      BY <1>c DEF PatchLock, TypeOK
    <2>3. hand'[c] = Table!Patched(cards'[target'[c]], hand'[c].slug, e)
      BY <1>b, <2>2 DEF o
    <2>4. hand'[c].slug \in Table!PatchTargets(target'[c])
      BY <1>b, <2>2
    <2>5. cards' = cards
      BY DEF PatchLock
    <2> QED BY <2>1, <2>2, <2>3, <2>4, <2>5 DEF PatchOfCurrentRow
  <1>5. CachedIdentity'
    BY DEF PatchLock, CachedIdentity, Named
  <1>6. SentIdentity'
    BY <1>a DEF PatchLock, SentIdentity, Named, TypeOK, CacheSet
  <1> QED BY <1>1, <1>2, <1>3, <1>4, <1>5, <1>6

LEMMA PatchNothingInv ==
  ASSUME IInv, NEW c \in Clients, NEW s \in Slugs, PatchNothing(c, s)
  PROVE  IInv'
  <1> USE DEF IInv, PatchNothing
  <1>1. TypeOK'
    BY CacheSetMissingType DEF TypeOK, States, Keys
  <1>2. RowIdentity' /\ ReadsAKey'
    BY DEF RowIdentity, ReadsAKey, TypeOK
  <1>3. HoldsLocks' /\ PatchOfCurrentRow'
    BY DEF HoldsLocks, PatchOfCurrentRow, TypeOK
  <1>4. CachedIdentity'
    BY DEF CachedIdentity, Named
  <1>5. SentIdentity'
    BY ConstantsAssumption DEF SentIdentity, Named, TypeOK, CacheSetMissing
  <1> QED BY <1>1, <1>2, <1>3, <1>4, <1>5

LEMMA PatchUpsertInv ==
  ASSUME IInv, NEW c \in Clients, PatchUpsert(c)
  PROVE  IInv'
  <1> USE DEF IInv
  <1> DEFINE o == hand[c]
             row == UpsertedRow(o)
             obj == Upserted(o)
  <1>a. /\ pc[c] = "locked"
        /\ o \in Contract /\ o.slug \in Slugs
        /\ target[c] \in Slugs /\ rowLock[target[c]] = c
        /\ cards[o.slug] # None /\ cards[o.slug] \in Contract
        /\ rowLock[o.slug] \in {None, c}
        /\ cards' = cards /\ cache' = cache /\ target' = target
        /\ rowLock' = [rowLock EXCEPT ![o.slug] = c]
    BY ContractFields DEF PatchUpsert, HoldsLocks, MayLock, TypeOK
  <1>b. /\ row \in Contract /\ row.slug = o.slug
        /\ row.id = cards[o.slug].id
        /\ row = Table!Overwrite(cards[o.slug], o)
        /\ obj \in Contract /\ obj.slug = o.slug /\ obj.id = row.id
    BY <1>a, UpsertedRowType, UpsertedType
  <1>c. /\ hand' = [hand EXCEPT ![c] = row]
        /\ sets' = [sets EXCEPT ![c] = CacheSet(obj)]
        /\ pc' = [pc EXCEPT ![c] = "upserted"]
    BY DEF PatchUpsert
  <1>d. PICK e \in Edits : o = Table!Patched(cards[target[c]], o.slug, e)
    BY <1>a DEF PatchOfCurrentRow
  <1>e. o.slug \in Table!PatchTargets(target[c]) /\ cards[target[c]] # None
    BY <1>a DEF PatchOfCurrentRow
  <1> HIDE DEF o, row, obj
  <1>1. TypeOK'
    BY <1>a, <1>b, <1>c, CacheSetType DEF TypeOK, States
  <1>2. RowIdentity' /\ ReadsAKey'
    BY <1>a, <1>c DEF RowIdentity, ReadsAKey, TypeOK
  <1>3. HoldsLocks'
    BY <1>a, <1>b, <1>c, ContractFields, ConstantsAssumption DEF HoldsLocks, TypeOK
  <1>4. PatchOfCurrentRow'
    <2>1. ASSUME NEW d \in Clients, d # c
          PROVE  pc'[d] = pc[d] /\ hand'[d] = hand[d]
      BY <2>1, <1>c DEF TypeOK
    <2>2. pc'[c] = "upserted" /\ hand'[c] = row
      BY <1>c DEF TypeOK
    <2>3. row = Table!Overwrite(cards[row.slug], Table!Patched(cards[target[c]], row.slug, e))
      BY <1>b, <1>d
    <2> QED BY <2>1, <2>2, <2>3, <1>a, <1>b, <1>e DEF PatchOfCurrentRow
  <1>5. CachedIdentity'
    BY <1>a DEF CachedIdentity, Named
  <1>6. SentIdentity'
    BY <1>a, <1>b, <1>c DEF SentIdentity, Named, TypeOK, CacheSet
  <1> QED BY <1>1, <1>2, <1>3, <1>4, <1>5, <1>6

\* Ending a patch without a write.
LEMMA EndPatchInv ==
  ASSUME IInv, NEW c \in Clients, EndPatch(c), UNCHANGED cards
  PROVE  IInv'
  <1> USE DEF IInv, EndPatch
  <1>1. TypeOK'
    BY DEF TypeOK, States, Unlocked
  <1>2. RowIdentity' /\ ReadsAKey'
    BY DEF RowIdentity, ReadsAKey, TypeOK
  <1>3. HoldsLocks'
    BY ContractFields DEF HoldsLocks, TypeOK, Unlocked
  <1>4. PatchOfCurrentRow'
    BY DEF PatchOfCurrentRow, TypeOK
  <1>5. CachedIdentity' /\ SentIdentity'
    BY DEF CachedIdentity, SentIdentity, Named
  <1> QED BY <1>1, <1>2, <1>3, <1>4, <1>5

LEMMA CommitInv ==
  ASSUME IInv, NEW c \in Clients, Commit(c)
  PROVE  IInv'
  <1> USE DEF IInv
  <1> DEFINE row == hand[c]
  <1>a. /\ row \in Contract /\ row.slug \in Slugs
        /\ target[c] \in Slugs
        /\ rowLock[row.slug] = c /\ cards[row.slug] # None
        /\ cards' = [cards EXCEPT ![row.slug] = row]
    BY ContractFields DEF Commit, HoldsLocks, PatchOfCurrentRow
  <1>b. row.id = cards[row.slug].id
    <2>1. PICK e \in Edits :
            row = Table!Overwrite(cards[row.slug], Table!Patched(cards[target[c]], row.slug, e))
      BY DEF Commit, PatchOfCurrentRow
    <2>2. cards[target[c]] \in Contract /\ cards[row.slug] \in Contract
      BY <1>a DEF Commit, PatchOfCurrentRow, TypeOK
    <2> QED BY <2>1, <2>2, <1>a, PatchedType, OverwriteType
  <1>c. /\ rowLock' = Unlocked(c)
        /\ pc' = [pc EXCEPT ![c] = "idle"]
        /\ target' = [target EXCEPT ![c] = None]
        /\ hand' = [hand EXCEPT ![c] = None]
        /\ cache' = cache /\ sets' = sets
    BY DEF Commit, EndPatch
  <1> HIDE DEF row
  <1>d. /\ cards' \in [Slugs -> Contract \cup {None}]
        /\ RowIdentity'
        /\ \A x \in Contract : Named(x) => Named(x)'
    BY <1>a, <1>b, RowWritten
  <1>1. TypeOK'
    BY <1>c, <1>d DEF TypeOK, States, Unlocked
  <1>2. ReadsAKey'
    BY <1>c DEF ReadsAKey, TypeOK
  <1>3. HoldsLocks'
    BY <1>c, ContractFields DEF HoldsLocks, TypeOK, Unlocked
  <1>4. PatchOfCurrentRow'
    <2>1. ASSUME NEW d \in Clients, pc'[d] \in {"locked", "upserted"}
          PROVE  /\ pc'[d] = pc[d] /\ target'[d] = target[d] /\ hand'[d] = hand[d]
                 /\ cards'[target[d]] = cards[target[d]]
                 /\ pc[d] = "upserted" => cards'[hand[d].slug] = cards[hand[d].slug]
      <3>1. d # c /\ pc'[d] = pc[d] /\ target'[d] = target[d] /\ hand'[d] = hand[d]
        BY <1>c, <2>1 DEF TypeOK
      <3>2. target[d] \in Slugs /\ hand[d].slug \in Slugs
        BY <2>1, <3>1, ContractFields DEF HoldsLocks
      <3>3. target[d] # row.slug /\ (pc[d] = "upserted" => hand[d].slug # row.slug)
        BY <1>a, <2>1, <3>1 DEF HoldsLocks
      <3> QED BY <1>a, <3>1, <3>2, <3>3 DEF TypeOK
    <2> QED BY <2>1 DEF PatchOfCurrentRow
  <1>5. CachedIdentity'
    BY <1>c, <1>d DEF CachedIdentity
  <1>6. SentIdentity'
    BY <1>c, <1>d DEF SentIdentity, TypeOK, CacheWrites
  <1> QED BY <1>d, <1>1, <1>2, <1>3, <1>4, <1>5, <1>6

LEMMA CacheLandsInv ==
  ASSUME IInv, NEW c \in Clients, NEW w \in sets[c], CacheLands(c, w)
  PROVE  IInv'
  <1> USE DEF IInv, CacheLands
  <1>0. w \in CacheWrites
    BY DEF TypeOK
  <1>1. TypeOK'
    BY <1>0 DEF TypeOK, States, CacheWrites
  <1>2. RowIdentity' /\ ReadsAKey'
    BY DEF RowIdentity, ReadsAKey, TypeOK
  <1>3. HoldsLocks' /\ PatchOfCurrentRow'
    BY DEF HoldsLocks, PatchOfCurrentRow, TypeOK
  <1>4. CachedIdentity'
    BY <1>0 DEF CachedIdentity, SentIdentity, Named, TypeOK, CacheWrites
  <1>5. SentIdentity'
    BY DEF SentIdentity, Named, TypeOK
  <1> QED BY <1>1, <1>2, <1>3, <1>4, <1>5

LEMMA CacheFailsInv ==
  ASSUME IInv, NEW c \in Clients, NEW w \in sets[c], CacheFails(c, w)
  PROVE  IInv'
  <1> USE DEF IInv, CacheFails
  <1>1. TypeOK'
    BY DEF TypeOK, States
  <1>2. RowIdentity' /\ ReadsAKey'
    BY DEF RowIdentity, ReadsAKey, TypeOK
  <1>3. HoldsLocks' /\ PatchOfCurrentRow'
    BY DEF HoldsLocks, PatchOfCurrentRow, TypeOK
  <1>4. CachedIdentity' /\ SentIdentity'
    BY DEF CachedIdentity, SentIdentity, Named, TypeOK
  <1> QED BY <1>1, <1>2, <1>3, <1>4

LEMMA ExpireInv ==
  ASSUME IInv, NEW k \in Keys, Expire(k)
  PROVE  IInv'
  <1> USE DEF IInv, Expire
  <1>1. TypeOK' /\ RowIdentity' /\ ReadsAKey'
    BY DEF TypeOK, RowIdentity, ReadsAKey
  <1>2. HoldsLocks' /\ PatchOfCurrentRow'
    BY DEF HoldsLocks, PatchOfCurrentRow
  <1>3. CachedIdentity' /\ SentIdentity'
    BY ConstantsAssumption DEF CachedIdentity, SentIdentity, Named, TypeOK
  <1> QED BY <1>1, <1>2, <1>3

LEMMA StutterInv == IInv /\ UNCHANGED vars => IInv'
  BY DEF IInv, TypeOK, RowIdentity, ReadsAKey, HoldsLocks, PatchOfCurrentRow,
         CachedIdentity, SentIdentity, Named, vars, Select

\* Every step of a call, named: the disjuncts of Next.
LEMMA NextInv == IInv /\ [Next]_vars => IInv'
  <1> SUFFICES ASSUME IInv, [Next]_vars PROVE IInv'
    OBVIOUS
  <1>1. ASSUME NEW c \in Clients, Call(c) PROVE IInv'
    <2>1. ASSUME NEW k \in Keys, Probe(c, k) PROVE IInv'
      BY <2>1, ProbeInv
    <2>2. ASSUME NEW o \in NewContract, Insert(c, o) PROVE IInv'
      BY <2>2, InsertInv
    <2>3. ASSUME NEW o \in NewContract, Replace(c, o) PROVE IInv'
      BY <2>3, ReplaceInv
    <2>4. ASSUME NEW s \in Slugs, PatchNothing(c, s) PROVE IInv'
      BY <2>4, PatchNothingInv
    <2>5. ASSUME NEW s \in Slugs, NEW to \in {s} \cup SlugEdits, NEW e \in Edits,
                 PatchLock(c, s, to, e)
          PROVE  IInv'
      BY <2>5, PatchLockInv DEF Table!PatchTargets
    <2> QED BY <1>1, <2>1, <2>2, <2>3, <2>4, <2>5 DEF Call
  <1>2. ASSUME NEW c \in Clients, Step(c) PROVE IInv'
    <2>1. CASE Read(c)
      BY <2>1, ReadInv
    <2>2. CASE PatchUpsert(c)
      BY <2>2, PatchUpsertInv
    <2>3. CASE PatchNoop(c) \/ Rollback(c)
      BY <2>3, EndPatchInv DEF PatchNoop, Rollback
    <2>4. CASE Commit(c)
      BY <2>4, CommitInv
    <2>5. ASSUME NEW w \in sets[c], CacheLands(c, w) PROVE IInv'
      BY <2>5, CacheLandsInv
    <2>6. ASSUME NEW w \in sets[c], CacheFails(c, w) PROVE IInv'
      BY <2>6, CacheFailsInv
    <2> QED BY <1>2, <2>1, <2>2, <2>3, <2>4, <2>5, <2>6 DEF Step
  <1>3. ASSUME NEW k \in Keys, Expire(k) PROVE IInv'
    BY <1>3, ExpireInv
  <1>4. CASE UNCHANGED vars
    BY <1>4, StutterInv
  <1> QED BY <1>1, <1>2, <1>3, <1>4 DEF Next

-----------------------------------------------------------------------------
\* The theorems.

\* The invariant holds in every reachable state.
THEOREM Invariance == Spec => []IInv
  BY InitInv, NextInv, PTL DEF Spec

\* The types of the table, the locks, the cache and the calls are right.
THEOREM TypeCorrectness == Spec => []TypeOK
  <1>1. IInv => TypeOK
    BY DEF IInv
  <1> QED BY <1>1, Invariance, PTL

\* FOR UPDATE does its job: what a patch writes is the patched form of the row as
\* it is when the patch commits.
THEOREM PatchAtomicity == Spec => []PatchOfCurrentRow
  <1>1. IInv => PatchOfCurrentRow
    BY DEF IInv
  <1> QED BY <1>1, Invariance, PTL

\* No hit, however stale, names the wrong contract or one that does not exist.
THEOREM CacheNamesRows == Spec => []CacheIdentity
  <1>1. IInv => CacheIdentity
    <2> SUFFICES ASSUME IInv, NEW k \in Keys, cache[k] \in Contract
                 PROVE  LET o == cache[k] IN
                        /\ k \in {o.id, o.slug}
                        /\ cards[o.slug] # None
                        /\ cards[o.slug].id = o.id
                        /\ \A s \in Slugs : cards[s] # None /\ cards[s].id = o.id => s = o.slug
      BY DEF CacheIdentity
    <2>1. k \in {cache[k].id, cache[k].slug} /\ Named(cache[k])
      BY DEF IInv, CachedIdentity
    <2>2. cache[k].slug \in Slugs
      BY ContractFields
    <2> QED BY <2>1, <2>2 DEF Named, IInv, RowIdentity
  <1> QED BY <1>1, Invariance, PTL

\* Every step of the store is a step of the table, or leaves it alone.
LEMMA StepRefinement == IInv /\ [Next]_vars => [Table!Next]_cards
  <1> SUFFICES ASSUME IInv, [Next]_vars PROVE Table!Next \/ UNCHANGED cards
    OBVIOUS
  <1>1. ASSUME NEW c \in Clients, NEW o \in NewContract, Insert(c, o)
        PROVE  Table!Next
    <2>1. Table!Insert(o)
      BY <1>1 DEF Insert, Table!Insert, IdFree, Table!IdTaken
    <2> QED BY <2>1 DEF Table!Next, NewContract
  <1>2. ASSUME NEW c \in Clients, NEW o \in NewContract, Replace(c, o)
        PROVE  Table!Next
    <2>0. o \in Contract
      BY NewIsContract
    <2>1. CASE cards[o.slug] = None
      <3>1. UpsertedRow(o) = o
        BY <2>1 DEF UpsertedRow
      <3>2. Table!Insert(o)
        BY <1>2, <2>1, <3>1 DEF Replace, Table!Insert, IdFree, Table!IdTaken
      <3> QED BY <3>2 DEF Table!Next, NewContract
    <2>2. CASE cards[o.slug] # None
      <3>1. UpsertedRow(o) = Table!Overwrite(cards[o.slug], o)
        BY <2>0, <2>2, UpsertedRowType DEF IInv
      <3>2. Table!Replace(o)
        BY <1>2, <2>2, <3>1 DEF Replace, Table!Replace
      <3> QED BY <3>2 DEF Table!Next, NewContract
    <2> QED BY <2>1, <2>2
  <1>3. ASSUME NEW c \in Clients, Commit(c)
        PROVE  Table!Next
    <2> DEFINE s == target[c]
               to == hand[c].slug
    <2>1. /\ s \in Slugs /\ to \in Table!PatchTargets(s)
          /\ cards[s] # None /\ cards[to] # None
          /\ cards' = [cards EXCEPT ![to] = hand[c]]
          /\ \E e \in Edits : hand[c] = Table!Overwrite(cards[to], Table!Patched(cards[s], to, e))
      BY <1>3 DEF Commit, IInv, HoldsLocks, PatchOfCurrentRow
    <2>2. PICK e \in Edits : Table!Patch(s, to, e)
      BY <2>1 DEF Table!Patch
    <2> QED BY <2>1, <2>2 DEF Table!Next
  <1>4. ASSUME NEW c \in Clients, Step(c), ~Commit(c)
        PROVE  UNCHANGED cards
    BY <1>4 DEF Step, Read, PatchUpsert, PatchNoop, Rollback, CacheLands, CacheFails
  <1>5. ASSUME NEW c \in Clients, Call(c), 
               \A o \in NewContract : ~Insert(c, o) /\ ~Replace(c, o)
        PROVE  UNCHANGED cards
    BY <1>5 DEF Call, Probe, PatchNothing, PatchLock
  <1>6. ASSUME NEW k \in Keys, Expire(k)
        PROVE  UNCHANGED cards
    BY <1>6 DEF Expire
  <1>7. CASE UNCHANGED vars
    BY <1>7 DEF vars
  <1> QED BY <1>1, <1>2, <1>3, <1>4, <1>5, <1>6, <1>7 DEF Next

\* The store implements the table of atomic inserts, replacements and patches.
THEOREM Refinement == Spec => ImplementsContractTable
  <1>1. Init => Table!Init
    BY DEF Init
  <1> QED BY <1>1, StepRefinement, Invariance, PTL DEF Spec, ImplementsContractTable, Table!Spec

-----------------------------------------------------------------------------
(* Staleness.  The invariant says of a slug that is not in doubt what is   *)
(* on its way to the cache, and that each of its keys is right unless a    *)
(* write of its own is still on its way there.                             *)

\* The keys under which the contract of a slug is cached, and what belongs there.
KeysOf(s) == {s} \cup IF cards[s] = None THEN {} ELSE {cards[s].id}

Due(s) == IF cards[s] = None THEN Missing ELSE cards[s]

\* A patch has written the row of this slug and has not committed.
Writes(c, s) == pc[c] = "upserted" /\ hand[c].slug = s

\* A write to the table is followed by writes to the cache of what it wrote, a single
\* contract.
WritesContracts ==
  \A c \in Clients : pc[c] \in {"storing", "upserted"} =>
    /\ \A w \in sets[c] : w.entry \in Contract /\ (pc[c] = "upserted" => w.entry.slug = hand[c].slug)
    /\ \A v, w \in sets[c] : v.entry = w.entry

\* A call that has yet to read has nothing to cache.
StartsEmpty == \A c \in Clients : pc[c] = "reading" => sets[c] = {}

SentRight(s) ==
  \A c \in Clients : \A w \in sets[c] : w.key \in KeysOf(s) =>
    w.entry = IF pc[c] = "upserted" THEN hand[c] ELSE Due(s)

\* Call c, which has written to the table, has yet to write this key.
Owes(c, k) == pc[c] \in {"storing", "upserted"} /\ \E w \in sets[c] : w.key = k

CachedRight(s) ==
  \A k \in KeysOf(s) :
    \/ cache[k] \in {Absent, Due(s)}
    \/ \E c \in Clients : Owes(c, k) \/ (Writes(c, s) /\ cache[k] = hand[c])

WrittenRight(s) ==
  \A c \in Clients : Writes(c, s) =>
    \A k \in KeysOf(s) : cache[k] \in {Absent, hand[c]} \/ Owes(c, k)

IsRight(s) == ~Overlaps(s) /\ ~Retyped(s) /\ SentRight(s) /\ CachedRight(s) /\ WrittenRight(s)

TrustedAreRight == \A s \in Slugs \ doubtful : IsRight(s)

SInv ==
  /\ IInv
  /\ WritesContracts
  /\ StartsEmpty
  /\ doubtful \subseteq Slugs
  /\ TrustedAreRight

-----------------------------------------------------------------------------
\* What a call is about to cache belongs to the slug whose keys it writes.

LEMMA WritesOf ==
  ASSUME IInv, NEW c \in Clients, NEW w \in sets[c], NEW s \in Slugs
  PROVE  /\ w.key \in KeysOf(s) <=> IF w.entry = Missing
                                    THEN w.key = s \/ (cards[s] # None /\ cards[s].id = w.key)
                                    ELSE w.entry.slug = s
         /\ w.entry \in Contract \cup {Missing} /\ w.key \in Keys
         /\ w.entry # Missing => w.entry \in Contract /\ Named(w.entry)
<1>1. w.entry \in Contract \cup {Missing} /\ w.key \in Keys
  BY DEF IInv, TypeOK, CacheWrites
<1>2. CASE w.entry = Missing
  BY <1>1, <1>2, ConstantsAssumption DEF KeysOf
<1>3. CASE w.entry # Missing
  <2>1. PICK o \in Contract : o = w.entry
    BY <1>1, <1>3
  <2>2. w.key \in {o.id, o.slug} /\ Named(o)
    BY <2>1 DEF IInv, SentIdentity
  <2>3. o.slug \in Slugs /\ o.id \in Ids
    BY ContractFields
  <2>4. cards[o.slug] # None /\ cards[o.slug].id = o.id
    BY <2>2 DEF Named
  <2>5. o.slug = s => w.key \in KeysOf(s)
    BY <2>2, <2>4 DEF KeysOf
  <2>6. ASSUME w.key = s PROVE o.slug = s
    BY <2>2, <2>3, <2>6, ConstantsAssumption
  <2>7. ASSUME cards[s] # None, w.key = cards[s].id PROVE o.slug = s
    <3>1. cards[s].id \in Ids
      BY <2>7, ContractFields DEF IInv, TypeOK
    <3>2. w.key = o.id
      BY <2>2, <2>3, <2>7, <3>1, ConstantsAssumption
    <3>3. QED
      BY <2>3, <2>4, <2>7, <3>2 DEF IInv, RowIdentity
  <2>8. w.key \in KeysOf(s) => o.slug = s
    BY <2>6, <2>7 DEF KeysOf
  <2>9. QED
    BY <1>1, <1>3, <2>1, <2>2, <2>5, <2>8
<1>4. QED
  BY <1>2, <1>3

LEMMA TouchesAre ==
  ASSUME IInv, NEW c \in Clients, NEW s \in Slugs
  PROVE  Touches(c, s) <=> rowLock[s] = c \/ \E w \in sets[c] : w.key \in KeysOf(s)
BY WritesOf DEF Touches

-----------------------------------------------------------------------------
\* The theorem's last step: an entry that nobody is about to write is right.

LEMMA RightIsCoherent ==
  ASSUME SInv, NEW s \in Slugs \ doubtful, \A c \in Clients : ~Touches(c, s)
  PROVE  Coherent(s) /\ (cards[s] # None => Coherent(cards[s].id))
<1>1. IsRight(s) /\ IInv
  BY DEF SInv, TrustedAreRight
<1>2. ASSUME NEW k \in KeysOf(s) PROVE cache[k] \in {Absent, Due(s)}
  <2>1. ASSUME NEW c \in Clients PROVE ~Owes(c, k) /\ ~Writes(c, s)
    <3>1. ~Owes(c, k)
      BY <1>1, <1>2, TouchesAre DEF Owes
    <3>2. ~Writes(c, s)
      BY <1>1, TouchesAre DEF Writes, IInv, HoldsLocks
    <3>3. QED
      BY <3>1, <3>2
  <2>2. QED
    BY <1>1, <2>1 DEF IsRight, CachedRight
<1>3. ASSUME NEW k \in KeysOf(s) PROVE Coherent(k)
  <2>1. CASE cards[s] = None
    <3>1. k = s
      BY <2>1 DEF KeysOf
    <3>2. cache[k] \in {Absent, Missing}
      BY <1>2, <2>1 DEF Due
    <3>3. \A r \in Slugs : cards[r] # None => r # s /\ cards[r].id # s
      BY <1>1, <2>1, ContractFields, ConstantsAssumption DEF IInv, TypeOK
    <3>4. Select(s) = {}
      BY <3>3 DEF Select
    <3>5. QED
      BY <3>1, <3>2, <3>4, ConstantsAssumption DEF Coherent
  <2>2. CASE cards[s] # None
    <3>1. PICK o \in Contract : o = cards[s]
      BY <1>1, <2>2 DEF IInv, TypeOK
    <3>2. k \in {s, o.id} /\ cache[k] \in {Absent, o}
      BY <1>2, <2>2, <3>1 DEF KeysOf, Due
    <3>3. ASSUME NEW r \in Slugs, cards[r] # None PROVE (r = k \/ cards[r].id = k) <=> r = s
      <4>1. cards[r].id \in Ids /\ o.id \in Ids
        BY <1>1, <3>3, ContractFields DEF IInv, TypeOK
      <4>2. cards[r].id = o.id => r = s
        BY <1>1, <2>2, <3>1, <3>3 DEF IInv, RowIdentity
      <4>3. QED
        BY <3>1, <3>2, <4>1, <4>2, ConstantsAssumption
    <3>4. Select(k) = {o}
      BY <2>2, <3>1, <3>3 DEF Select
    <3>5. o # Missing
      BY ContractFields
    <3>6. QED
      BY <3>2, <3>4, <3>5, ConstantsAssumption DEF Coherent
  <2>3. QED
    BY <2>1, <2>2
<1>4. QED
  BY <1>3 DEF KeysOf

-----------------------------------------------------------------------------
\* A step of one call, seen from a slug whose row it does not write.

OthersStay(c) ==
  \A d \in Clients \ {c} : pc'[d] = pc[d] /\ hand'[d] = hand[d] /\ sets'[d] = sets[d]

\* What the call itself sends, caches and writes.
SendsRight(c, s) ==
  \A w \in sets'[c] : w.key \in KeysOf(s) => w.entry = IF pc'[c] = "upserted" THEN hand'[c] ELSE Due(s)

CachesRight(c, s) ==
  \A k \in KeysOf(s) : \/ cache'[k] \in {Absent, Due(s)} \/ Owes(c, k)'
                       \/ Writes(c, s)' /\ cache'[k] = hand'[c]
                       \/ cache'[k] = cache[k] /\ ~Owes(c, k) /\ ~Writes(c, s)

WritesRight(c, s) ==
  Writes(c, s)' => \A k \in KeysOf(s) : cache'[k] \in {Absent, hand'[c]} \/ Owes(c, k)'

LEMMA StepRight ==
  ASSUME NEW c \in Clients, NEW s \in Slugs, IsRight(s), ~Overlaps(s)', ~Retyped(s)',
         cards'[s] = cards[s], OthersStay(c),
         SendsRight(c, s), CachesRight(c, s), WritesRight(c, s),
         cache' = cache \/ \A d \in Clients \ {c}, k \in KeysOf(s) : Writes(d, s) => cache'[k] = cache[k]
  PROVE  IsRight(s)'
<1>1. KeysOf(s)' = KeysOf(s) /\ Due(s)' = Due(s)
  BY DEF KeysOf, Due
<1>2. ASSUME NEW d \in Clients \ {c}
      PROVE  /\ Writes(d, s)' <=> Writes(d, s)
             /\ \A k \in KeysOf(s) : Owes(d, k)' <=> Owes(d, k)
  BY DEF OthersStay, Writes, Owes
<1>3. SentRight(s)'
  <2>1. ASSUME NEW d \in Clients, NEW w \in sets'[d], w.key \in KeysOf(s)
        PROVE  w.entry = IF pc'[d] = "upserted" THEN hand'[d] ELSE Due(s)
    <3>1. CASE d = c
      BY <2>1, <3>1 DEF SendsRight
    <3>2. CASE d # c
      BY <2>1, <3>2 DEF OthersStay, IsRight, SentRight
    <3>3. QED
      BY <3>1, <3>2
  <2>2. QED
    BY <1>1, <2>1 DEF SentRight
<1>4. CachedRight(s)'
  <2>1. ASSUME NEW k \in KeysOf(s)
        PROVE  \/ cache'[k] \in {Absent, Due(s)}
               \/ \E d \in Clients : Owes(d, k)' \/ (Writes(d, s)' /\ cache'[k] = hand'[d])
    <3>1. CASE \/ cache'[k] \in {Absent, Due(s)} \/ Owes(c, k)'
               \/ Writes(c, s)' /\ cache'[k] = hand'[c]
      BY <3>1
    <3>2. CASE cache'[k] = cache[k] /\ ~Owes(c, k) /\ ~Writes(c, s)
      <4>1. CASE cache[k] \in {Absent, Due(s)}
        BY <3>2, <4>1
      <4>2. CASE \E d \in Clients : Owes(d, k) \/ (Writes(d, s) /\ cache[k] = hand[d])
        <5>1. PICK d \in Clients \ {c} : Owes(d, k) \/ (Writes(d, s) /\ cache[k] = hand[d])
          BY <3>2, <4>2
        <5>2. hand'[d] = hand[d]
          BY DEF OthersStay
        <5>3. QED
          BY <1>2, <3>2, <5>1, <5>2
      <4>3. QED
        BY <4>1, <4>2 DEF IsRight, CachedRight
    <3>3. QED
      BY <3>1, <3>2 DEF CachesRight
  <2>2. QED
    BY <1>1, <2>1 DEF CachedRight
<1>5. WrittenRight(s)'
  <2>1. ASSUME NEW d \in Clients, Writes(d, s)', NEW k \in KeysOf(s)
        PROVE  cache'[k] \in {Absent, hand'[d]} \/ Owes(d, k)'
    <3>1. CASE d = c
      BY <2>1, <3>1 DEF WritesRight
    <3>2. CASE d # c
      <4>1. Writes(d, s) /\ cache'[k] = cache[k] /\ hand'[d] = hand[d] /\ (Owes(d, k)' <=> Owes(d, k))
        BY <1>2, <2>1, <3>2 DEF OthersStay
      <4>2. cache[k] \in {Absent, hand[d]} \/ Owes(d, k)
        BY <4>1 DEF IsRight, WrittenRight
      <4>3. QED
        BY <4>1, <4>2
    <3>3. QED
      BY <3>1, <3>2
  <2>2. QED
    BY <1>1, <2>1 DEF WrittenRight
<1>6. QED
  BY <1>3, <1>4, <1>5 DEF IsRight

\* A step of a call that neither has written nor writes to the table.
LEMMA QuietStep ==
  ASSUME NEW c \in Clients, NEW s \in Slugs, IsRight(s), ~Overlaps(s)', ~Retyped(s)',
         cards'[s] = cards[s], cache' = cache, OthersStay(c),
         pc[c] \notin {"storing", "upserted"} \/ (sets[c] = {} /\ ~Writes(c, s)),
         pc'[c] # "upserted",
         \A w \in sets'[c] : w.key \in KeysOf(s) => w.entry = Due(s)
  PROVE  IsRight(s)'
<1>1. SendsRight(c, s)
  BY DEF SendsRight
<1>2. CachesRight(c, s)
  BY DEF CachesRight, Owes, Writes
<1>3. WritesRight(c, s)
  BY DEF WritesRight, Writes
<1>4. QED
  BY <1>1, <1>2, <1>3, StepRight

-----------------------------------------------------------------------------
\* What a call reads is due.

LEMMA SentAfter ==
  ASSUME IInv', NEW c \in Clients, NEW s \in Slugs,
         NEW w \in sets'[c], w.key \in KeysOf(s)', w.entry # Missing
  PROVE  w.entry.slug = s
<1>1. PICK o \in Contract : o = w.entry
  BY DEF IInv, TypeOK, CacheWrites
<1>2. w.key \in {o.id, o.slug} /\ cards'[o.slug] # None /\ cards'[o.slug].id = o.id
  BY <1>1 DEF IInv, SentIdentity, Named
<1>3. o.slug \in Slugs /\ o.id \in Ids
  BY ContractFields
<1>4. ASSUME w.key = s PROVE o.slug = s
  BY <1>2, <1>3, <1>4, ConstantsAssumption
<1>5. ASSUME cards'[s] # None, w.key = cards'[s].id PROVE o.slug = s
  <2>1. cards'[s] \in Contract
    BY <1>5 DEF IInv, TypeOK
  <2>2. cards'[s].id \in Ids
    BY <2>1, ContractFields
  <2>3. cards'[s].id = o.id
    BY <1>2, <1>3, <1>5, <2>2, ConstantsAssumption
  <2>4. QED
    BY <1>2, <1>3, <1>5, <2>3 DEF IInv, RowIdentity
<1>6. QED
  BY <1>1, <1>4, <1>5 DEF KeysOf

\* A call that does not touch a slug writes neither its keys nor its row.
LEMMA UntouchedAfter ==
  ASSUME IInv', NEW c \in Clients, NEW s \in Slugs, ~Touches(c, s)'
  PROVE  ~Writes(c, s)' /\ \A w \in sets'[c] : w.key \notin KeysOf(s)'
<1>1. ~Writes(c, s)'
  BY DEF Touches, Writes, IInv, HoldsLocks
<1>2. ASSUME NEW w \in sets'[c], w.key \in KeysOf(s)' PROVE FALSE
  <2>1. CASE w.entry = Missing
    BY <1>2, <2>1 DEF Touches, KeysOf
  <2>2. CASE w.entry # Missing
    <3>1. w.entry.slug = s
      BY <1>2, <2>2, SentAfter
    <3>2. QED
      BY <2>2, <3>1 DEF Touches
  <2>3. QED
    BY <2>1, <2>2
<1>3. QED
  BY <1>1, <1>2

LEMMA ReadIsDue ==
  ASSUME IInv, IInv', NEW c \in Clients, NEW s \in Slugs, cards' = cards,
         NEW r \in Slugs, cards[r] # None, sets'[c] = CacheSet(cards[r]),
         NEW w \in sets'[c], w.key \in KeysOf(s)
  PROVE  w.entry = Due(s)
<1>1. w.entry = cards[r] /\ cards[r] \in Contract /\ cards[r].slug = r
  BY DEF CacheSet, IInv, TypeOK, RowIdentity
<1>2. w.entry # Missing
  BY <1>1, ContractFields
<1>3. w.entry.slug = s
  BY <1>2, SentAfter DEF KeysOf
<1>4. QED
  BY <1>1, <1>3 DEF Due

LEMMA MissingIsDue ==
  ASSUME IInv, NEW s \in Slugs, NEW k \in Keys, Select(k) = {},
         NEW w \in CacheSetMissing(k), w.key \in KeysOf(s)
  PROVE  w.entry = Due(s)
<1>1. w.key = k /\ w.entry = Missing
  BY DEF CacheSetMissing
<1>2. cards[s] = None
  <2>1. SUFFICES ASSUME cards[s] # None PROVE FALSE
    OBVIOUS
  <2>2. s = k \/ cards[s].id = k
    BY <1>1, <2>1 DEF KeysOf
  <2>3. cards[s] \in Select(k)
    BY <2>1, <2>2 DEF Select
  <2>4. QED
    BY <2>3
<1>3. QED
  BY <1>1, <1>2 DEF Due

-----------------------------------------------------------------------------
\* The steps that leave the contract of a slug as it is.

\* The end of a call: it has not written the row, and has nothing left to cache
\* but what a failure has left behind.
LEMMA EndRight ==
  ASSUME IInv, NEW c \in Clients, EndPatch(c), NEW s \in Slugs, IsRight(s),
         ~Overlaps(s)', ~Retyped(s)', cards'[s] = cards[s],
         sets[c] = {} \/ pc[c] = "aborting", ~Writes(c, s)
  PROVE  IsRight(s)'
<1>1. pc' = [pc EXCEPT ![c] = "idle"] /\ hand' = [hand EXCEPT ![c] = None] /\ UNCHANGED <<cache, sets>>
  BY DEF EndPatch
<1>2. pc'[c] = "idle" /\ OthersStay(c) /\ cache' = cache /\ sets'[c] = sets[c]
  BY <1>1 DEF OthersStay, IInv, TypeOK
<1>3. \A w \in sets'[c] : w.key \in KeysOf(s) => w.entry = Due(s)
  BY <1>2 DEF IsRight, SentRight
<1>4. QED
  BY <1>2, <1>3, QuietStep

\* A call that writes to the table and the keys of another slug.
LEMMA ElsewhereRight ==
  ASSUME IInv', NEW c \in Clients, NEW s \in Slugs, IsRight(s), ~Overlaps(s)', ~Retyped(s)',
         cards'[s] = cards[s], cache' = cache, OthersStay(c), pc[c] \notin {"storing", "upserted"},
         pc'[c] = "upserted" => hand'[c].slug # s,
         \A w \in sets'[c] : w.entry # Missing /\ w.entry.slug # s
  PROVE  IsRight(s)'
<1>1. \A w \in sets'[c] : w.key \notin KeysOf(s)'
  BY SentAfter
<1>2. \A w \in sets'[c] : w.key \notin KeysOf(s)
  BY <1>1 DEF KeysOf
<1>3. SendsRight(c, s)
  BY <1>2 DEF SendsRight
<1>4. CachesRight(c, s)
  BY DEF CachesRight, Owes, Writes
<1>5. WritesRight(c, s)
  BY DEF WritesRight, Writes
<1>6. QED
  BY <1>3, <1>4, <1>5, StepRight

\* An expired key is as good as a right one.
LEMMA ExpireRight ==
  ASSUME IInv, NEW k \in Keys, Expire(k), NEW s \in Slugs, IsRight(s), ~Overlaps(s)', ~Retyped(s)'
  PROVE  IsRight(s)'
<1>1. UNCHANGED <<cards, pc, hand, sets>> /\ cache' = [cache EXCEPT ![k] = Absent]
  BY DEF Expire
<1>2. KeysOf(s)' = KeysOf(s) /\ Due(s)' = Due(s) /\ KeysOf(s) \subseteq Keys
  BY <1>1, ContractFields DEF KeysOf, Due, IInv, TypeOK, Keys
<1>3. \A x \in KeysOf(s) : cache'[x] \in {Absent, cache[x]}
  BY <1>1, <1>2 DEF IInv, TypeOK
<1>4. \A c \in Clients : /\ Writes(c, s)' <=> Writes(c, s)
                         /\ \A x \in KeysOf(s) : Owes(c, x)' <=> Owes(c, x)
  BY <1>1 DEF Writes, Owes
<1>5. SentRight(s)'
  BY <1>1, <1>2 DEF IsRight, SentRight
<1>6. CachedRight(s)'
  <2>1. ASSUME NEW x \in KeysOf(s)
        PROVE  \/ cache'[x] \in {Absent, Due(s)}
               \/ \E c \in Clients : Owes(c, x)' \/ (Writes(c, s)' /\ cache'[x] = hand'[c])
    <3>1. CASE cache'[x] = Absent
      BY <3>1
    <3>2. CASE cache'[x] = cache[x]
      <4>1. CASE cache[x] \in {Absent, Due(s)}
        BY <3>2, <4>1
      <4>2. CASE \E c \in Clients : Owes(c, x) \/ (Writes(c, s) /\ cache[x] = hand[c])
        BY <1>1, <1>4, <3>2, <4>2
      <4>3. QED
        BY <4>1, <4>2 DEF IsRight, CachedRight
    <3>3. QED
      BY <1>3, <3>1, <3>2
  <2>2. QED
    BY <1>2, <2>1 DEF CachedRight
<1>7. WrittenRight(s)'
  <2>1. ASSUME NEW c \in Clients, Writes(c, s), NEW x \in KeysOf(s)
        PROVE  cache'[x] \in {Absent, hand[c]} \/ Owes(c, x)
    <3>1. cache[x] \in {Absent, hand[c]} \/ Owes(c, x)
      BY <2>1 DEF IsRight, WrittenRight
    <3>2. QED
      BY <1>3, <2>1, <3>1
  <2>2. QED
    BY <1>1, <1>2, <1>4, <2>1 DEF WrittenRight
<1>8. QED
  BY <1>5, <1>6, <1>7 DEF IsRight

-----------------------------------------------------------------------------
\* Calls begin, and read.

LEMMA ProbeRight ==
  ASSUME IInv, NEW c \in Clients, NEW k \in Keys, Probe(c, k),
         NEW s \in Slugs, IsRight(s), ~Overlaps(s)', ~Retyped(s)'
  PROVE  IsRight(s)'
<1>1. pc[c] = "idle" /\ pc' = [pc EXCEPT ![c] = "reading"] /\ UNCHANGED <<cards, cache, hand, sets>>
  BY DEF Probe
<1>2. pc'[c] = "reading" /\ OthersStay(c) /\ cards'[s] = cards[s] /\ cache' = cache
  BY <1>1 DEF OthersStay, IInv, TypeOK
<1>3. \A w \in sets'[c] : w.key \in KeysOf(s) => w.entry = Due(s)
  BY <1>1 DEF IsRight, SentRight
<1>4. QED
  BY <1>1, <1>2, <1>3, QuietStep

LEMMA ReadRight ==
  ASSUME IInv, IInv', NEW c \in Clients, Read(c),
         NEW s \in Slugs, IsRight(s), ~Overlaps(s)', ~Retyped(s)'
  PROVE  IsRight(s)'
<1>1. pc[c] = "reading" /\ pc' = [pc EXCEPT ![c] = "filling"] /\ UNCHANGED <<cards, cache, hand>>
  BY DEF Read
<1>2. sets' = [sets EXCEPT ![c] = sets'[c]]
  BY DEF Read, IInv, TypeOK
<1>3. pc'[c] = "filling" /\ OthersStay(c) /\ cards'[s] = cards[s] /\ cache' = cache
  BY <1>1, <1>2 DEF OthersStay, IInv, TypeOK
<1>4. target[c] \in Keys
  BY <1>1 DEF IInv, ReadsAKey
<1>5. \A w \in sets'[c] : w.key \in KeysOf(s) => w.entry = Due(s)
  <2>1. ASSUME NEW o \in Select(target[c]), sets' = [sets EXCEPT ![c] = CacheSet(o)],
               NEW w \in sets'[c], w.key \in KeysOf(s)
        PROVE  w.entry = Due(s)
    <3>1. PICK r \in Slugs : cards[r] # None /\ o = cards[r]
      BY <2>1 DEF Select
    <3>2. sets'[c] = CacheSet(cards[r])
      BY <2>1, <3>1 DEF IInv, TypeOK
    <3>3. QED
      BY <1>1, <2>1, <3>1, <3>2, ReadIsDue
  <2>2. ASSUME Select(target[c]) = {}, sets' = [sets EXCEPT ![c] = CacheSetMissing(target[c])],
               NEW w \in sets'[c], w.key \in KeysOf(s)
        PROVE  w.entry = Due(s)
    <3>1. w \in CacheSetMissing(target[c])
      BY <2>2 DEF IInv, TypeOK
    <3>2. QED
      BY <1>4, <2>2, <3>1, MissingIsDue
  <2>3. QED
    BY <2>1, <2>2 DEF Read
<1>6. QED
  BY <1>1, <1>3, <1>5, QuietStep

LEMMA PatchLockRight ==
  ASSUME IInv, IInv', NEW c \in Clients, NEW r \in Slugs, NEW to, NEW e, PatchLock(c, r, to, e),
         NEW s \in Slugs, IsRight(s), ~Overlaps(s)', ~Retyped(s)'
  PROVE  IsRight(s)'
<1>1. /\ pc[c] = "idle" /\ pc' = [pc EXCEPT ![c] = "locked"] /\ cards[r] # None
      /\ sets' = [sets EXCEPT ![c] = CacheSet(cards[r])] /\ UNCHANGED <<cards, cache>>
  BY DEF PatchLock
<1>2. \E x : hand' = [hand EXCEPT ![c] = x]
  BY DEF PatchLock
<1>3. pc'[c] = "locked" /\ OthersStay(c) /\ cards'[s] = cards[s] /\ cache' = cache
  BY <1>1, <1>2 DEF OthersStay, IInv, TypeOK
<1>4. sets'[c] = CacheSet(cards[r])
  BY <1>1 DEF IInv, TypeOK
<1>5. \A w \in sets'[c] : w.key \in KeysOf(s) => w.entry = Due(s)
  BY <1>1, <1>4, ReadIsDue
<1>6. QED
  BY <1>1, <1>3, <1>5, QuietStep

LEMMA PatchNothingRight ==
  ASSUME IInv, NEW c \in Clients, NEW r \in Slugs, PatchNothing(c, r),
         NEW s \in Slugs, IsRight(s), ~Overlaps(s)', ~Retyped(s)'
  PROVE  IsRight(s)'
<1>1. /\ pc[c] = "idle" /\ pc' = [pc EXCEPT ![c] = "filling"] /\ cards[r] = None
      /\ sets' = [sets EXCEPT ![c] = CacheSetMissing(r)] /\ UNCHANGED <<cards, cache, hand>>
  BY DEF PatchNothing
<1>2. pc'[c] = "filling" /\ OthersStay(c) /\ cards'[s] = cards[s] /\ cache' = cache
  BY <1>1 DEF OthersStay, IInv, TypeOK
<1>3. \A q \in Slugs : cards[q] # None => q # r /\ cards[q].id # r
  BY <1>1, ContractFields, ConstantsAssumption DEF IInv, TypeOK
<1>4. Select(r) = {} /\ r \in Keys /\ sets'[c] = CacheSetMissing(r)
  BY <1>1, <1>3 DEF Select, Keys, IInv, TypeOK
<1>5. \A w \in sets'[c] : w.key \in KeysOf(s) => w.entry = Due(s)
  BY <1>4, MissingIsDue
<1>6. QED
  BY <1>1, <1>2, <1>5, QuietStep

-----------------------------------------------------------------------------
\* Calls write to the table.

\* What an insert or a replacement stores is what its keys are about to hold, and
\* nobody else is about to write them.
LEMMA StoreRight ==
  ASSUME IInv', NEW c \in Clients, NEW row \in Contract, NEW s \in Slugs, row.slug = s,
         ~Overlaps(s)', ~Retyped(s)', cards'[s] = row, pc'[c] = "storing", sets'[c] = CacheSet(row)
  PROVE  IsRight(s)'
<1>1. row # None /\ row # Missing
  BY ContractFields
<1>2. KeysOf(s)' = {s, row.id} /\ Due(s)' = row
  BY <1>1 DEF KeysOf, Due
<1>3. [key |-> row.slug, entry |-> row] \in sets'[c] /\ [key |-> row.id, entry |-> row] \in sets'[c]
  BY DEF CacheSet
<1>4. Touches(c, s)'
  BY <1>1, <1>3 DEF Touches
<1>5. ASSUME NEW d \in Clients \ {c}
      PROVE  ~Writes(d, s)' /\ \A w \in sets'[d] : w.key \notin KeysOf(s)'
  <2>1. ~Touches(d, s)'
    BY <1>4 DEF Overlaps, Writing
  <2>2. QED
    BY <2>1, UntouchedAfter
<1>6. SentRight(s)'
  <2>1. \A w \in sets'[c] : w.entry = row
    BY DEF CacheSet
  <2>2. ASSUME NEW d \in Clients, NEW w \in sets'[d], w.key \in KeysOf(s)'
        PROVE  w.entry = IF pc'[d] = "upserted" THEN hand'[d] ELSE Due(s)'
    <3>1. d = c
      BY <1>5, <2>2
    <3>2. QED
      BY <1>2, <2>1, <2>2, <3>1
  <2>3. QED
    BY <2>2 DEF SentRight
<1>7. \A k \in KeysOf(s)' : Owes(c, k)'
  BY <1>2, <1>3 DEF Owes
<1>8. ~Writes(c, s)'
  BY DEF Writes
<1>9. CachedRight(s)' /\ WrittenRight(s)'
  <2>1. CachedRight(s)'
    BY <1>7 DEF CachedRight
  <2>2. WrittenRight(s)'
    BY <1>5, <1>8 DEF WrittenRight
  <2>3. QED
    BY <2>1, <2>2
<1>10. QED
  BY <1>6, <1>9 DEF IsRight

LEMMA InsertRight ==
  ASSUME IInv, IInv', NEW c \in Clients, NEW o \in NewContract, Insert(c, o),
         NEW s \in Slugs, o.slug = s \/ IsRight(s), ~Overlaps(s)', ~Retyped(s)'
  PROVE  IsRight(s)'
<1>1. o \in Contract /\ o # Missing /\ o.slug \in Slugs
  BY NewIsContract, ContractFields
<1>2. /\ pc[c] = "idle" /\ pc' = [pc EXCEPT ![c] = "storing"] /\ cards' = [cards EXCEPT ![o.slug] = o]
      /\ sets' = [sets EXCEPT ![c] = CacheSet(o)] /\ UNCHANGED <<cache, hand>>
  BY DEF Insert
<1>3. pc'[c] = "storing" /\ sets'[c] = CacheSet(o) /\ cache' = cache /\ OthersStay(c)
  BY <1>2 DEF OthersStay, IInv, TypeOK
<1>4. CASE o.slug = s
  <2>1. cards'[s] = o
    BY <1>1, <1>2, <1>4 DEF IInv, TypeOK
  <2>2. QED
    BY <1>1, <1>3, <1>4, <2>1, StoreRight
<1>5. CASE o.slug # s
  <2>1. cards'[s] = cards[s]
    BY <1>1, <1>2, <1>5 DEF IInv, TypeOK
  <2>2. \A w \in sets'[c] : w.entry # Missing /\ w.entry.slug # s
    BY <1>1, <1>3, <1>5 DEF CacheSet
  <2>3. QED
    BY <1>2, <1>3, <1>5, <2>1, <2>2, ElsewhereRight
<1>6. QED
  BY <1>4, <1>5

\* What a call writes with the row's own type is the row it leaves.
LEMMA UpsertedIsRow ==
  ASSUME TypeOK, NEW o \in Contract, UpsertedRow(o).type = o.type
  PROVE  Upserted(o) = UpsertedRow(o)
BY DEF Upserted, UpsertedRow, TypeOK, Contract, Table!Contract

LEMMA ReplaceRight ==
  ASSUME IInv, IInv', NEW c \in Clients, NEW o \in NewContract, Replace(c, o),
         NEW s \in Slugs, o.slug = s \/ IsRight(s), ~Overlaps(s)', ~Retyped(s)'
  PROVE  IsRight(s)'
<1>1. o \in Contract /\ o.slug \in Slugs /\ TypeOK
  BY NewIsContract, ContractFields DEF IInv
<1>2. PICK row \in Contract : row = UpsertedRow(o)
  BY <1>1, UpsertedRowType
<1>3. PICK obj \in Contract : obj = Upserted(o)
  BY <1>1, UpsertedType
<1>4. row.slug = o.slug /\ obj.slug = o.slug /\ obj # Missing /\ obj.type = o.type
  BY <1>1, <1>2, <1>3, UpsertedRowType, UpsertedType, ContractFields DEF Upserted, Contract, Table!Contract
<1>5. /\ pc[c] = "idle" /\ pc' = [pc EXCEPT ![c] = "storing"] /\ cards' = [cards EXCEPT ![o.slug] = row]
      /\ sets' = [sets EXCEPT ![c] = CacheSet(obj)] /\ UNCHANGED <<cache, hand>>
  BY <1>2, <1>3 DEF Replace
<1>6. pc'[c] = "storing" /\ sets'[c] = CacheSet(obj) /\ cache' = cache /\ OthersStay(c)
  BY <1>5 DEF OthersStay, IInv, TypeOK
<1>7. CASE o.slug = s
  <2>1. cards'[s] = row
    BY <1>1, <1>5, <1>7 DEF TypeOK
  <2>2. [key |-> obj.slug, entry |-> obj] \in sets'[c]
    BY <1>6 DEF CacheSet
  <2>3. obj.type = row.type
    BY <1>4, <1>7, <2>1, <2>2 DEF Retyped
  <2>4. obj = row
    BY <1>1, <1>2, <1>3, <1>4, <2>3, UpsertedIsRow
  <2>5. QED
    BY <1>4, <1>6, <1>7, <2>1, <2>4, StoreRight
<1>8. CASE o.slug # s
  <2>1. cards'[s] = cards[s]
    BY <1>1, <1>5, <1>8 DEF TypeOK
  <2>2. \A w \in sets'[c] : w.entry # Missing /\ w.entry.slug # s
    BY <1>4, <1>6, <1>8 DEF CacheSet
  <2>3. QED
    BY <1>5, <1>6, <1>8, <2>1, <2>2, ElsewhereRight
<1>9. QED
  BY <1>7, <1>8

LEMMA PatchUpsertRight ==
  ASSUME IInv, IInv', NEW c \in Clients, PatchUpsert(c),
         NEW s \in Slugs, IsRight(s), ~Overlaps(s)', ~Retyped(s)'
  PROVE  IsRight(s)'
<1>1. pc[c] = "locked" /\ sets[c] = {} /\ cards[hand[c].slug] # None
  BY DEF PatchUpsert
<1>2. PICK o \in Contract : o = hand[c]
  BY <1>1 DEF IInv, HoldsLocks
<1>3. PICK row \in Contract : row = UpsertedRow(o)
  BY UpsertedRowType DEF IInv
<1>4. PICK obj \in Contract : obj = Upserted(o)
  BY UpsertedType DEF IInv
<1>5. /\ row.slug = o.slug /\ obj.slug = o.slug /\ obj # Missing /\ obj.type = o.type
      /\ row.id = cards[o.slug].id /\ obj.id = row.id /\ o.slug \in Slugs
  BY <1>1, <1>2, <1>3, <1>4, UpsertedRowType, UpsertedType, ContractFields
     DEF Upserted, Contract, Table!Contract, IInv
<1>6. /\ pc' = [pc EXCEPT ![c] = "upserted"] /\ hand' = [hand EXCEPT ![c] = row]
      /\ sets' = [sets EXCEPT ![c] = CacheSet(obj)] /\ UNCHANGED <<cards, cache>>
  BY <1>2, <1>3, <1>4 DEF PatchUpsert
<1>7. /\ pc'[c] = "upserted" /\ hand'[c] = row /\ sets'[c] = CacheSet(obj)
      /\ cache' = cache /\ cards'[s] = cards[s] /\ OthersStay(c)
  BY <1>6 DEF OthersStay, IInv, TypeOK
<1>8. CASE o.slug = s
  <2>1. [key |-> s, entry |-> obj] \in sets'[c] /\ [key |-> obj.id, entry |-> obj] \in sets'[c]
    BY <1>5, <1>7, <1>8 DEF CacheSet
  <2>2. cards[s] = None \/ cards[s].type = row.type
    BY <1>2, <1>3, <1>5, <1>8 DEF UpsertedRow, Contract, Table!Contract, IInv, TypeOK
  <2>3. obj.type = row.type
    BY <1>1, <1>2, <1>5, <1>7, <1>8, <2>1, <2>2 DEF Retyped
  <2>4. obj = row
    BY <1>3, <1>4, <1>5, <2>3, UpsertedIsRow DEF IInv
  <2>5. SendsRight(c, s)
    BY <1>7, <2>4 DEF SendsRight, CacheSet
  <2>6. \A k \in KeysOf(s) : Owes(c, k)'
    BY <1>5, <1>7, <1>8, <2>1 DEF KeysOf, Owes
  <2>7. CachesRight(c, s) /\ WritesRight(c, s)
    BY <2>6 DEF CachesRight, WritesRight
  <2>8. QED
    BY <1>7, <2>5, <2>7, StepRight
<1>9. CASE o.slug # s
  <2>1. \A w \in sets'[c] : w.entry # Missing /\ w.entry.slug # s
    BY <1>5, <1>7, <1>9 DEF CacheSet
  <2>2. QED
    BY <1>1, <1>5, <1>7, <1>9, <2>1, ElsewhereRight
<1>10. QED
  BY <1>8, <1>9

-----------------------------------------------------------------------------
\* Patches end.

\* At the commit, the row becomes what the patch has cached.
LEMMA CommitRight ==
  ASSUME IInv, NEW c \in Clients, Commit(c),
         NEW s \in Slugs, IsRight(s), ~Overlaps(s)', ~Retyped(s)'
  PROVE  IsRight(s)'
<1>1. pc[c] = "upserted" /\ sets[c] = {} /\ cards' = [cards EXCEPT ![hand[c].slug] = hand[c]] /\ EndPatch(c)
  BY DEF Commit
<1>2. PICK o \in Contract : o = hand[c]
  BY <1>1 DEF IInv, HoldsLocks
<1>3. o.slug \in Slugs /\ o # None
  BY ContractFields
<1>4. CASE o.slug # s
  <2>1. cards'[s] = cards[s] /\ ~Writes(c, s)
    BY <1>1, <1>2, <1>3, <1>4 DEF IInv, TypeOK, Writes
  <2>2. QED
    BY <1>1, <2>1, EndRight
<1>5. CASE o.slug = s
  <2>1. cards'[s] = o /\ Writes(c, s)
    BY <1>1, <1>2, <1>3, <1>5 DEF IInv, TypeOK, Writes
  <2>2. cards[s] # None /\ o.id = cards[s].id
    <3>1. PICK e \in Edits : /\ cards[o.slug] # None
                             /\ o = Table!Overwrite(cards[o.slug], Table!Patched(cards[target[c]], o.slug, e))
      BY <1>1, <1>2 DEF IInv, PatchOfCurrentRow
    <3>2. target[c] \in Slugs /\ cards[target[c]] \in Contract
      BY <1>1 DEF IInv, HoldsLocks, PatchOfCurrentRow, TypeOK
    <3>3. cards[o.slug] \in Contract
      BY <1>3, <3>1 DEF IInv, TypeOK
    <3>4. QED
      BY <1>3, <1>5, <3>1, <3>2, <3>3, PatchedType, OverwriteType
  <2>3. KeysOf(s)' = KeysOf(s) /\ Due(s)' = o
    BY <1>3, <2>1, <2>2 DEF KeysOf, Due
  <2>4. UNCHANGED <<cache, sets>> /\ pc' = [pc EXCEPT ![c] = "idle"] /\ hand' = [hand EXCEPT ![c] = None]
    BY <1>1 DEF EndPatch
  <2>5. \A k \in KeysOf(s) : cache'[k] \in {Absent, o}
    BY <1>1, <1>2, <2>1, <2>4 DEF IsRight, WrittenRight, Owes
  <2>6. Touches(c, s) /\ Writing(c)
    BY <1>1, <1>2, <1>5 DEF Touches, Writing, IInv, HoldsLocks
  <2>7. ASSUME NEW d \in Clients
        PROVE  ~Writes(d, s)' /\ \A w \in sets'[d] : w.key \notin KeysOf(s)
    <3>1. CASE d = c
      BY <1>1, <2>4, <3>1 DEF Writes, IInv, TypeOK
    <3>2. CASE d # c
      <4>1. ~Touches(d, s)
        BY <2>6, <3>2 DEF IsRight, Overlaps
      <4>2. ~Writes(d, s)
        BY <4>1 DEF Touches, Writes, IInv, HoldsLocks
      <4>3. \A w \in sets[d] : w.key \notin KeysOf(s)
        BY <4>1, TouchesAre
      <4>4. QED
        BY <2>4, <3>2, <4>2, <4>3 DEF Writes, IInv, TypeOK
    <3>3. QED
      BY <3>1, <3>2
  <2>8. SentRight(s)' /\ CachedRight(s)' /\ WrittenRight(s)'
    <3>1. SentRight(s)'
      BY <2>3, <2>7 DEF SentRight
    <3>2. CachedRight(s)'
      BY <2>3, <2>5 DEF CachedRight
    <3>3. WrittenRight(s)'
      BY <2>7 DEF WrittenRight
    <3>4. QED
      BY <3>1, <3>2, <3>3
  <2>9. QED
    BY <2>8 DEF IsRight
<1>6. QED
  BY <1>4, <1>5

\* A call that only gives things up neither overlaps another call nor has a type to cache.
LEMMA GivesUp ==
  ASSUME NEW s \in Slugs, ~Overlaps(s), ~Retyped(s), cards' = cards,
         \A c \in Clients : sets'[c] \subseteq sets[c] /\ (Writing(c)' => Writing(c)),
         \A c \in Clients : rowLock'[s] = c => rowLock[s] = c
  PROVE  ~Overlaps(s)' /\ ~Retyped(s)'
<1>1. \A c \in Clients : Touches(c, s)' => Touches(c, s)
  BY DEF Touches
<1>2. ~Overlaps(s)'
  BY <1>1 DEF Overlaps
<1>3. ~Retyped(s)'
  BY DEF Retyped
<1>4. QED
  BY <1>2, <1>3

\* A rollback leaves in the cache what the patch has put there, of the row it wrote.
LEMMA RolledBackRight ==
  ASSUME IInv, NEW c \in Clients, RolledBack(c), NEW s \in Slugs \ doubtful', IsRight(s)
  PROVE  IsRight(s)'
<1>1. /\ pc[c] \in {"locked", "upserted", "aborting"} /\ (sets[c] = {} \/ pc[c] = "aborting")
      /\ EndPatch(c) /\ cards' = cards
  BY DEF RolledBack, Rollback
<1>2. ~Writes(c, s)
  BY DEF RolledBack, Writes, IInv, HoldsLocks
<1>3. ~Overlaps(s)' /\ ~Retyped(s)'
  <2>1. UNCHANGED sets /\ pc' = [pc EXCEPT ![c] = "idle"] /\ rowLock' = Unlocked(c)
    BY <1>1 DEF EndPatch
  <2>2. \A d \in Clients : sets'[d] \subseteq sets[d] /\ (Writing(d)' => Writing(d))
    BY <2>1 DEF Writing, IInv, TypeOK
  <2>3. \A d \in Clients : rowLock'[s] = d => rowLock[s] = d
    BY <2>1, ConstantsAssumption DEF Unlocked
  <2>4. QED
    BY <1>1, <2>2, <2>3, GivesUp DEF IsRight
<1>4. QED
  BY <1>1, <1>2, <1>3, EndRight

-----------------------------------------------------------------------------
\* Writes to the cache land, or are lost.

LEMMA CacheLandsRight ==
  ASSUME IInv, WritesContracts, NEW c \in Clients, NEW v \in sets[c], CacheLands(c, v),
         NEW s \in Slugs, IsRight(s), ~Overlaps(s)', ~Retyped(s)'
  PROVE  IsRight(s)'
<1>1. /\ cache' = [cache EXCEPT ![v.key] = v.entry] /\ sets' = [sets EXCEPT ![c] = @ \ {v}]
      /\ UNCHANGED <<cards, hand>>
      /\ pc' = [pc EXCEPT ![c] = IF @ \in {"filling", "storing"} /\ sets'[c] = {} THEN "idle" ELSE @]
  BY DEF CacheLands
<1>2. /\ sets'[c] = sets[c] \ {v} /\ OthersStay(c) /\ cards'[s] = cards[s] /\ hand'[c] = hand[c]
      /\ pc'[c] = IF pc[c] \in {"filling", "storing"} /\ sets'[c] = {} THEN "idle" ELSE pc[c]
  BY <1>1 DEF OthersStay, IInv, TypeOK
<1>3. pc'[c] = "upserted" <=> pc[c] = "upserted"
  BY <1>2
<1>4. Writes(c, s)' <=> Writes(c, s)
  BY <1>2, <1>3 DEF Writes
<1>5. KeysOf(s) \subseteq Keys
  BY ContractFields DEF KeysOf, IInv, TypeOK, Keys
<1>6. \A k \in KeysOf(s) : cache'[k] = IF k = v.key THEN v.entry ELSE cache[k]
  BY <1>1, <1>5 DEF IInv, TypeOK
<1>7. SendsRight(c, s)
  BY <1>2, <1>3 DEF SendsRight, IsRight, SentRight
<1>8. ASSUME NEW k \in KeysOf(s), k # v.key, Owes(c, k) PROVE Owes(c, k)'
  BY <1>2, <1>8 DEF Owes
<1>9. ASSUME v.key \in KeysOf(s), pc[c] = "upserted" PROVE Writes(c, s) /\ v.entry = hand[c]
  <2>1. v.entry \in Contract /\ v.entry.slug = hand[c].slug
    BY <1>9 DEF WritesContracts
  <2>2. v.entry.slug = s
    BY <1>9, <2>1, WritesOf, ContractFields
  <2>3. QED
    BY <1>9, <2>1, <2>2 DEF Writes, IsRight, SentRight
<1>10. CachesRight(c, s)
  <2>1. ASSUME NEW k \in KeysOf(s), k = v.key
        PROVE  cache'[k] = Due(s) \/ (Writes(c, s)' /\ cache'[k] = hand'[c])
    <3>1. CASE pc[c] = "upserted"
      BY <1>2, <1>4, <1>6, <1>9, <2>1, <3>1
    <3>2. CASE pc[c] # "upserted"
      BY <1>6, <2>1, <3>2 DEF IsRight, SentRight
    <3>3. QED
      BY <3>1, <3>2
  <2>2. ASSUME NEW k \in KeysOf(s), k # v.key
        PROVE  \/ cache'[k] = Absent \/ Owes(c, k)'
               \/ Writes(c, s)' /\ cache'[k] = hand'[c]
               \/ cache'[k] = cache[k] /\ ~Owes(c, k) /\ ~Writes(c, s)
    <3>1. cache'[k] = cache[k]
      BY <1>6, <2>2
    <3>2. CASE Owes(c, k)
      BY <1>8, <2>2, <3>2
    <3>3. CASE Writes(c, s) /\ ~Owes(c, k)
      BY <1>2, <1>4, <3>1, <3>3 DEF IsRight, WrittenRight
    <3>4. QED
      BY <3>1, <3>2, <3>3
  <2>3. QED
    BY <2>1, <2>2 DEF CachesRight
<1>11. WritesRight(c, s)
  <2>1. ASSUME Writes(c, s), NEW k \in KeysOf(s)
        PROVE  cache'[k] \in {Absent, hand[c]} \/ Owes(c, k)'
    <3>1. CASE k = v.key
      BY <1>6, <1>9, <2>1, <3>1 DEF Writes
    <3>2. CASE k # v.key
      BY <1>6, <1>8, <2>1, <3>2 DEF IsRight, WrittenRight
    <3>3. QED
      BY <3>1, <3>2
  <2>2. QED
    BY <1>2, <1>4, <2>1 DEF WritesRight
<1>12. ASSUME NEW d \in Clients \ {c}, NEW k \in KeysOf(s), Writes(d, s)
       PROVE  cache'[k] = cache[k]
  <2>1. SUFFICES ASSUME k = v.key PROVE FALSE
    BY <1>6
  <2>2. Touches(c, s)
    BY <1>12, <2>1, TouchesAre
  <2>3. Touches(d, s) /\ Writing(d)
    BY <1>12 DEF Touches, Writes, Writing, IInv, HoldsLocks
  <2>4. QED
    BY <2>2, <2>3 DEF IsRight, Overlaps
<1>13. QED
  BY <1>2, <1>7, <1>10, <1>11, <1>12, StepRight

\* A write that is lost is in doubt only if the row has been written.
LEMMA FailedRight ==
  ASSUME IInv, WritesContracts, StartsEmpty, NEW c \in Clients, NEW v \in sets[c], FailedToCache(c, v),
         NEW s \in Slugs \ doubtful', IsRight(s)
  PROVE  IsRight(s)'
<1>1. /\ sets' = [sets EXCEPT ![c] = @ \ {v}] /\ UNCHANGED <<cards, rowLock, cache, hand>>
      /\ pc' = [pc EXCEPT ![c] = IF @ \in {"idle", "filling", "storing"} THEN "idle" ELSE "aborting"]
  BY DEF FailedToCache, CacheFails
<1>2. /\ sets'[c] = sets[c] \ {v} /\ OthersStay(c) /\ cards'[s] = cards[s] /\ cache' = cache
      /\ pc'[c] = IF pc[c] \in {"idle", "filling", "storing"} THEN "idle" ELSE "aborting"
  BY <1>1 DEF OthersStay, IInv, TypeOK
<1>3. pc[c] \in {"storing", "upserted"} => v.entry.slug # s
  BY DEF FailedToCache
<1>4. pc[c] # "reading"
  BY DEF StartsEmpty
<1>5. ~Overlaps(s)' /\ ~Retyped(s)'
  <2>1. \A d \in Clients : sets'[d] \subseteq sets[d]
    BY <1>2 DEF OthersStay
  <2>2. Writing(c)' => Writing(c)
    BY <1>2, <1>4 DEF Writing, IInv, TypeOK, States
  <2>3. \A d \in Clients : Writing(d)' => Writing(d)
    BY <1>2, <2>2 DEF Writing, OthersStay
  <2>4. QED
    BY <1>1, <2>1, <2>3, GivesUp DEF IsRight
<1>6. ~Writes(c, s)
  BY <1>3 DEF WritesContracts, Writes
<1>7. ASSUME pc[c] \in {"storing", "upserted"}, NEW w \in sets[c], w.key \in KeysOf(s)
      PROVE  FALSE
  <2>1. w.entry.slug = s
    BY <1>7, WritesOf, ContractFields DEF WritesContracts
  <2>2. QED
    BY <1>3, <1>7, <2>1 DEF WritesContracts
<1>8. SendsRight(c, s)
  BY <1>2, <1>7 DEF SendsRight, IsRight, SentRight
<1>9. ASSUME NEW k \in KeysOf(s) PROVE ~Owes(c, k)
  BY <1>7 DEF Owes
<1>10. CachesRight(c, s)
  BY <1>2, <1>6, <1>9 DEF CachesRight
<1>11. WritesRight(c, s)
  BY <1>2 DEF WritesRight, Writes
<1>12. QED
  BY <1>2, <1>5, <1>8, <1>10, <1>11, StepRight

-----------------------------------------------------------------------------
\* The history variable does not change what the store does.

LEMMA StaleIsNext == StaleNext => Next
BY DEF StaleNext, Sound, RolledBack, FailedToCache, Next, Step

LEMMA InitRight == StaleInit => SInv
<1> SUFFICES ASSUME StaleInit PROVE SInv
  OBVIOUS
<1>1. IInv
  BY InitInv DEF StaleInit
<1>2. /\ cards = [s \in Slugs |-> None] /\ rowLock = [s \in Slugs |-> None]
      /\ cache = [k \in Keys |-> Absent] /\ pc = [c \in Clients |-> "idle"]
      /\ sets = [c \in Clients |-> {}] /\ doubtful = {}
  BY DEF StaleInit, Init, Table!Init
<1>3. ASSUME NEW s \in Slugs PROVE IsRight(s)
  <2>1. ~Overlaps(s)
    BY <1>2 DEF Overlaps, Writing
  <2>2. ~Retyped(s) /\ SentRight(s) /\ WrittenRight(s)
    BY <1>2 DEF Retyped, SentRight, WrittenRight, Writes
  <2>3. KeysOf(s) = {s} /\ s \in Keys
    BY <1>2 DEF KeysOf, Keys
  <2>4. CachedRight(s)
    BY <1>2, <2>3 DEF CachedRight
  <2>5. QED
    BY <2>1, <2>2, <2>4 DEF IsRight
<1>4. QED
  BY <1>1, <1>2, <1>3 DEF SInv, WritesContracts, StartsEmpty, TrustedAreRight

\* Only a call that stores or patches has contracts to cache that it wrote.
LEMMA CallSends ==
  ASSUME IInv, WritesContracts, StartsEmpty, NEW c \in Clients, Call(c)
  PROVE  (WritesContracts /\ StartsEmpty)'
<1>1. pc[c] = "idle" /\ sets[c] = {}
  BY DEF Call, Probe, Insert, Replace, PatchNothing, PatchLock
<1>2. \A d \in Clients \ {c} : pc'[d] = pc[d] /\ hand'[d] = hand[d] /\ sets'[d] = sets[d]
  <2>1. ASSUME NEW o \in NewContract, Insert(c, o) \/ Replace(c, o)
        PROVE  /\ pc' = [pc EXCEPT ![c] = "storing"] /\ hand' = hand
               /\ \E w : sets' = [sets EXCEPT ![c] = w]
    BY <2>1, Zenon DEF Insert, Replace
  <2>2. ASSUME NEW r, NEW to, NEW e, PatchLock(c, r, to, e)
        PROVE  /\ pc' = [pc EXCEPT ![c] = "locked"]
               /\ \E h : hand' = [hand EXCEPT ![c] = h]
               /\ \E w : sets' = [sets EXCEPT ![c] = w]
    BY <2>2, Zenon DEF PatchLock
  <2>3. ASSUME NEW k, Probe(c, k) \/ PatchNothing(c, k)
        PROVE  /\ \E p : pc' = [pc EXCEPT ![c] = p]
               /\ hand' = hand
               /\ sets' = sets \/ \E w : sets' = [sets EXCEPT ![c] = w]
    BY <2>3, Zenon DEF Probe, PatchNothing
  <2>4. /\ \E p : pc' = [pc EXCEPT ![c] = p]
        /\ hand' = hand \/ \E h : hand' = [hand EXCEPT ![c] = h]
        /\ sets' = sets \/ \E w : sets' = [sets EXCEPT ![c] = w]
    BY <2>1, <2>2, <2>3 DEF Call
  <2>5. QED
    BY <2>4 DEF IInv, TypeOK
<1>3. \/ pc'[c] \in {"locked", "filling"}
      \/ pc'[c] = "reading" /\ sets'[c] = {}
      \/ pc'[c] = "storing" /\ \E o \in Contract : \A w \in sets'[c] : w.entry = o
  <2>1. ASSUME NEW k \in Keys, Probe(c, k) PROVE pc'[c] = "reading" /\ sets'[c] = {}
    BY <1>1, <2>1 DEF Probe, IInv, TypeOK
  <2>2. ASSUME NEW o \in NewContract, Insert(c, o)
        PROVE  pc'[c] = "storing" /\ \E x \in Contract : \A w \in sets'[c] : w.entry = x
    BY <2>2, NewIsContract DEF Insert, CacheSet, IInv, TypeOK
  <2>3. ASSUME NEW o \in NewContract, Replace(c, o)
        PROVE  pc'[c] = "storing" /\ \E x \in Contract : \A w \in sets'[c] : w.entry = x
    <3>1. PICK obj \in Contract : obj = Upserted(o)
      BY NewIsContract, UpsertedType DEF IInv
    <3>2. pc' = [pc EXCEPT ![c] = "storing"] /\ sets' = [sets EXCEPT ![c] = CacheSet(obj)]
      BY <2>3, <3>1 DEF Replace
    <3>3. QED
      BY <3>2 DEF CacheSet, IInv, TypeOK
  <2>4. ASSUME NEW s \in Slugs, PatchNothing(c, s) \/ \E to \in {s} \cup SlugEdits, e \in Edits : PatchLock(c, s, to, e)
        PROVE  pc'[c] \in {"locked", "filling"}
    BY <2>4 DEF PatchNothing, PatchLock, IInv, TypeOK
  <2>5. QED
    BY <2>1, <2>2, <2>3, <2>4 DEF Call
<1>4. QED
  BY <1>2, <1>3 DEF WritesContracts, StartsEmpty

LEMMA StepSends ==
  ASSUME IInv, WritesContracts, StartsEmpty, NEW c \in Clients, Step(c)
  PROVE  (WritesContracts /\ StartsEmpty)'
<1>1. ASSUME Read(c) PROVE (WritesContracts /\ StartsEmpty)'
  <2>1. pc' = [pc EXCEPT ![c] = "filling"] /\ hand' = hand /\ \E w : sets' = [sets EXCEPT ![c] = w]
    BY <1>1, Zenon DEF Read
  <2>2. QED
    BY <2>1 DEF WritesContracts, StartsEmpty, IInv, TypeOK
<1>2. ASSUME PatchUpsert(c) PROVE (WritesContracts /\ StartsEmpty)'
  <2>1. hand[c] \in Contract
    BY <1>2 DEF PatchUpsert, IInv, HoldsLocks
  <2>2. PICK row \in Contract : row = UpsertedRow(hand[c])
    BY <2>1, UpsertedRowType DEF IInv
  <2>3. PICK obj \in Contract : obj = Upserted(hand[c])
    BY <2>1, UpsertedType DEF IInv
  <2>4. row.slug = obj.slug
    BY <2>1, <2>2, <2>3, UpsertedRowType, UpsertedType DEF IInv
  <2>5. /\ pc' = [pc EXCEPT ![c] = "upserted"] /\ hand' = [hand EXCEPT ![c] = row]
        /\ sets' = [sets EXCEPT ![c] = CacheSet(obj)]
    BY <1>2, <2>2, <2>3 DEF PatchUpsert
  <2>6. pc'[c] = "upserted" /\ hand'[c] = row /\ \A w \in sets'[c] : w.entry = obj
    BY <2>5 DEF CacheSet, IInv, TypeOK
  <2>7. \A d \in Clients \ {c} : pc'[d] = pc[d] /\ hand'[d] = hand[d] /\ sets'[d] = sets[d]
    BY <2>5 DEF IInv, TypeOK
  <2>8. QED
    BY <2>4, <2>6, <2>7 DEF WritesContracts, StartsEmpty
<1>3. ASSUME PatchNoop(c) \/ Commit(c) \/ Rollback(c) PROVE (WritesContracts /\ StartsEmpty)'
  <2>1. EndPatch(c)
    BY <1>3 DEF PatchNoop, Commit, Rollback
  <2>2. sets' = sets /\ pc' = [pc EXCEPT ![c] = "idle"] /\ hand' = [hand EXCEPT ![c] = None]
    BY <2>1 DEF EndPatch
  <2>3. QED
    BY <2>1, <2>2 DEF WritesContracts, StartsEmpty, IInv, TypeOK
<1>4. ASSUME NEW v \in sets[c], CacheLands(c, v) \/ CacheFails(c, v)
      PROVE  (WritesContracts /\ StartsEmpty)'
  <2>1. sets' = [sets EXCEPT ![c] = @ \ {v}] /\ hand' = hand
    BY <1>4 DEF CacheLands, CacheFails
  <2>2. \E p : pc' = [pc EXCEPT ![c] = p]
    BY <1>4, Zenon DEF CacheLands, CacheFails
  <2>3. /\ sets'[c] = sets[c] \ {v}
        /\ \A d \in Clients \ {c} : pc'[d] = pc[d] /\ sets'[d] = sets[d]
    BY <2>1, <2>2 DEF IInv, TypeOK
  <2>4. pc[c] # "reading"
    BY DEF StartsEmpty
  <2>5. pc'[c] \in {pc[c], "aborting", "idle"}
    BY <1>4 DEF CacheLands, CacheFails, IInv, TypeOK
  <2>6. QED
    BY <2>1, <2>3, <2>4, <2>5 DEF WritesContracts, StartsEmpty
<1>5. QED
  BY <1>1, <1>2, <1>3, <1>4 DEF Step

LEMMA ExpireSends ==
  ASSUME WritesContracts, StartsEmpty, NEW k \in Keys, Expire(k)
  PROVE  (WritesContracts /\ StartsEmpty)'
BY DEF WritesContracts, StartsEmpty, Expire

-----------------------------------------------------------------------------
\* The invariant.

LEMMA SoundRight ==
  ASSUME IInv, IInv', WritesContracts, Sound, NEW s \in Slugs, IsRight(s), ~Overlaps(s)', ~Retyped(s)'
  PROVE  IsRight(s)'
<1>1. ASSUME NEW c \in Clients, NEW k \in Keys, Probe(c, k) PROVE IsRight(s)'
  BY <1>1, ProbeRight
<1>2. ASSUME NEW c \in Clients, NEW o \in NewContract, Insert(c, o) PROVE IsRight(s)'
  BY <1>2, InsertRight
<1>3. ASSUME NEW c \in Clients, NEW o \in NewContract, Replace(c, o) PROVE IsRight(s)'
  BY <1>3, ReplaceRight
<1>4. ASSUME NEW c \in Clients, NEW r \in Slugs, PatchNothing(c, r) PROVE IsRight(s)'
  BY <1>4, PatchNothingRight
<1>5. ASSUME NEW c \in Clients, NEW r \in Slugs, NEW to \in {r} \cup SlugEdits, NEW e \in Edits,
             PatchLock(c, r, to, e)
      PROVE  IsRight(s)'
  BY <1>5, PatchLockRight
<1>6. ASSUME NEW c \in Clients, Read(c) PROVE IsRight(s)'
  BY <1>6, ReadRight
<1>7. ASSUME NEW c \in Clients, PatchUpsert(c) PROVE IsRight(s)'
  BY <1>7, PatchUpsertRight
<1>8. ASSUME NEW c \in Clients, PatchNoop(c) PROVE IsRight(s)'
  <2>1. sets[c] = {} /\ EndPatch(c) /\ cards'[s] = cards[s] /\ ~Writes(c, s)
    BY <1>8 DEF PatchNoop, Writes
  <2>2. QED
    BY <2>1, EndRight
<1>9. ASSUME NEW c \in Clients, Commit(c) PROVE IsRight(s)'
  BY <1>9, CommitRight
<1>10. ASSUME NEW c \in Clients, NEW w \in sets[c], CacheLands(c, w) PROVE IsRight(s)'
  BY <1>10, CacheLandsRight
<1>11. ASSUME NEW k \in Keys, Expire(k) PROVE IsRight(s)'
  BY <1>11, ExpireRight
<1>12. ASSUME NEW c \in Clients, Call(c) PROVE IsRight(s)'
  BY <1>1, <1>2, <1>3, <1>4, <1>5, <1>12 DEF Call
<1>13. QED
  BY <1>6, <1>7, <1>8, <1>9, <1>10, <1>11, <1>12 DEF Sound

LEMMA StaleNextInv == SInv /\ StaleNext => SInv'
<1> SUFFICES ASSUME SInv, StaleNext PROVE SInv'
  OBVIOUS
<1>1. IInv /\ WritesContracts /\ StartsEmpty /\ doubtful \subseteq Slugs /\ \A s \in Slugs \ doubtful : IsRight(s)
  BY DEF SInv, TrustedAreRight
<1>2. Next
  BY StaleIsNext
<1>3. IInv'
  BY <1>1, <1>2, NextInv
<1>4. (WritesContracts /\ StartsEmpty)'
  BY <1>1, <1>2, CallSends, StepSends, ExpireSends DEF Next
<1>5. doubtful \subseteq doubtful' /\ doubtful' \subseteq Slugs
  <2>1. ASSUME NEW c \in Clients, NEW w \in sets[c], FailedToCache(c, w)
        PROVE  doubtful \subseteq doubtful' /\ doubtful' \subseteq Slugs
    BY <1>1, <2>1, ContractFields DEF FailedToCache, WritesContracts
  <2>2. QED
    BY <1>1, <2>1 DEF StaleNext, Sound, RolledBack
<1>6. ASSUME NEW s \in Slugs, s \notin doubtful' PROVE IsRight(s)'
  <2>1. IsRight(s)
    BY <1>1, <1>5, <1>6
  <2>2. ASSUME Sound PROVE IsRight(s)'
    <3>1. ~(Overlaps(s) \/ Retyped(s))'
      BY <1>6, <2>2 DEF Sound
    <3>2. QED
      BY <1>1, <1>3, <2>1, <2>2, <3>1, SoundRight
  <2>3. ASSUME NEW c \in Clients, RolledBack(c) PROVE IsRight(s)'
    BY <1>1, <1>6, <2>1, <2>3, RolledBackRight
  <2>4. ASSUME NEW c \in Clients, NEW w \in sets[c], FailedToCache(c, w) PROVE IsRight(s)'
    BY <1>1, <1>6, <2>1, <2>4, FailedRight
  <2>5. QED
    BY <2>2, <2>3, <2>4 DEF StaleNext
<1>7. QED
  BY <1>3, <1>4, <1>5, <1>6 DEF SInv, TrustedAreRight

LEMMA StaleStutterInv == SInv /\ UNCHANGED <<vars, doubtful>> => SInv'
<1> SUFFICES ASSUME SInv, UNCHANGED <<vars, doubtful>> PROVE SInv'
  OBVIOUS
<1>1. UNCHANGED <<cards, rowLock, cache, pc, target, hand, sets, doubtful>>
  BY DEF vars
<1>2. IInv'
  BY StutterInv DEF SInv
<1>3. (WritesContracts /\ StartsEmpty)'
  BY <1>1 DEF SInv, WritesContracts, StartsEmpty
<1>4. ASSUME NEW s \in Slugs, IsRight(s) PROVE IsRight(s)'
  BY <1>1, <1>4 DEF IsRight, Overlaps, Touches, Writing, Retyped, SentRight, CachedRight, WrittenRight,
                    KeysOf, Due, Writes, Owes
<1>5. QED
  BY <1>1, <1>2, <1>3, <1>4 DEF SInv, TrustedAreRight

\* While calls run, fail and overlap, what they have read and written of a contract
\* that is not in doubt is right, in the cache and on its way there.
THEOREM StaleInvariance == StaleSpec => []SInv
<1>1. SInv /\ [StaleNext]_<<vars, doubtful>> => SInv'
  BY StaleNextInv, StaleStutterInv
<1>2. QED
  BY InitRight, <1>1, PTL DEF StaleSpec

\* A hit on a stale entry takes a race, a failed call or a change of type: upsertObject
\* and getElementBy* (index.ts) and patchContractBySlug (kernel.ts) leave both keys of a
\* contract right when no other call is at it, without any lock on the cache.
THEOREM OnlyDoubtIsStale == StaleSpec => []StaleOnlyAfterOverlap
<1>1. SInv => StaleOnlyAfterOverlap
  BY RightIsCoherent DEF StaleOnlyAfterOverlap
<1>2. QED
  BY <1>1, StaleInvariance, PTL
=============================================================================
