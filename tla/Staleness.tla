------------------------------ MODULE Staleness ------------------------------
(***************************************************************************)
(* When is the cache wrong?  ContractStore with a history variable that    *)
(* records the slugs on which a write has overlapped another call, has     *)
(* failed, or has given the contract another type, which the row does not  *)
(* take over.  Everything else must be coherent.                           *)
(***************************************************************************)
EXTENDS ContractStore

VARIABLE doubtful  \* the slugs on which calls have raced, failed, or written another type

\* The call of client c has read or written the contract of slug s, and what it
\* read or wrote has yet to reach the cache or, for a patch, the table.
Touches(c, s) ==
  \/ rowLock[s] = c
  \/ \E w \in sets[c] : IF w.entry = Missing
                        THEN w.key = s \/ (cards[s] # None /\ cards[s].id = w.key)
                        ELSE w.entry.slug = s

Writing(c) == pc[c] \in {"storing", "locked", "upserted", "aborting"}

Overlaps(s) == \E c, d \in Clients : c # d /\ Touches(c, s) /\ Touches(d, s) /\ Writing(c)

StaleInit == Init /\ doubtful = {}

Sound ==
  /\ \/ \E c \in Clients : \/ Call(c) \/ Read(c) \/ PatchUpsert(c) \/ PatchNoop(c) \/ Commit(c)
                           \/ \E w \in sets[c] : CacheLands(c, w)
     \/ \E k \in Keys : Expire(k)
  /\ doubtful' = doubtful \cup {s \in Slugs : (Overlaps(s) \/ Retyped(s))'}

\* Nothing is in doubt if the patch fails before it has written its row.
RolledBack(c) ==
  /\ Rollback(c)
  /\ doubtful' = doubtful \cup IF pc[c] = "locked" THEN {} ELSE {s \in Slugs : rowLock[s] = c}

\* Nor if it is what a SELECT has read that fails to reach the cache.
FailedToCache(c, w) ==
  /\ CacheFails(c, w)
  /\ doubtful' = doubtful \cup IF pc[c] \in {"storing", "upserted"} THEN {w.entry.slug} ELSE {}

StaleNext ==
  \/ Sound
  \/ \E c \in Clients : RolledBack(c) \/ \E w \in sets[c] : FailedToCache(c, w)

StaleSpec == StaleInit /\ [][StaleNext]_<<vars, doubtful>> /\ Fairness

\* An entry of the cache, a contract or a 'null', is stale only if a write of that
\* contract overlapped another call on it, failed half way, or was given another type:
\* any other call that runs alone leaves both keys of the contract right (upsertObject
\* and getElementBy* in index.ts, patchContractBySlug in kernel.ts).
StaleOnlyAfterOverlap ==
  \A s \in Slugs \ doubtful : (\A c \in Clients : ~Touches(c, s)) =>
    /\ Coherent(s)
    /\ cards[s] # None => Coherent(cards[s].id)
=============================================================================
