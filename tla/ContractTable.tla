---------------------------- MODULE ContractTable ----------------------------
(***************************************************************************)
(* What the cards table promises its clients, with no statement, lock,     *)
(* transaction or cache in sight: a map from versioned slugs to contracts  *)
(* in which inserting, replacing and patching a contract are each one      *)
(* atomic step.  ContractStore is shown to implement this module.          *)
(*                                                                         *)
(* A contract is abstracted to its key, its identity, its type, the data   *)
(* it was last inserted or replaced with, and the set of patch operations  *)
(* applied to that data since.                                             *)
(***************************************************************************)
CONSTANTS
  Slugs,      \* versioned slugs, `${slug}@${version}`: the table's unique key
  Ids,        \* contract ids: the table's primary key
  Types,      \* contract types
  Data,       \* what a contract may be inserted or replaced with
  Edits,      \* JSON patches
  SlugEdits,  \* the slugs that a patch may write to /slug
  None        \* the table holds no contract under this slug

VARIABLE cards

Contract == [slug: Slugs, id: Ids, type: Types, data: Data, edits: SUBSET Edits]

\* What insertContract and replaceContract are called with.
NewContract == {o \in Contract : o.edits = {}}

IdTaken(i) == \E s \in Slugs : cards[s] # None /\ cards[s].id = i

\* A row keeps its id and its type whatever it is overwritten with.
Overwrite(row, o) == [o EXCEPT !.id = row.id, !.type = row.type]

\* The effect of a JSON patch on a contract; patches of /id are ignored.
Patched(o, to, e) == [o EXCEPT !.slug = to, !.edits = @ \cup {e}]

PatchTargets(s) == {s} \cup SlugEdits

-----------------------------------------------------------------------------
Init == cards = [s \in Slugs |-> None]

Insert(o) ==
  /\ cards[o.slug] = None
  /\ ~IdTaken(o.id)
  /\ cards' = [cards EXCEPT ![o.slug] = o]

Replace(o) ==
  /\ cards[o.slug] # None
  /\ cards' = [cards EXCEPT ![o.slug] = Overwrite(cards[o.slug], o)]

Patch(s, to, e) ==
  /\ cards[s] # None
  /\ cards[to] # None
  /\ cards' = [cards EXCEPT ![to] = Overwrite(cards[to], Patched(cards[s], to, e))]

Next ==
  \/ \E o \in NewContract : Insert(o) \/ Replace(o)
  \/ \E s \in Slugs : \E to \in PatchTargets(s) : \E e \in Edits : Patch(s, to, e)

Spec == Init /\ [][Next]_cards
=============================================================================
