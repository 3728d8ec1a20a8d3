------------------------------- MODULE MCLinks -------------------------------
(* A user, its settings, and another contract that it may be linked to. *)
EXTENDS Links, TLC

CONSTANTS user, settings, link, other, otherLink

Link(to) == [from |-> user, to |-> to, name |-> "has", inverseName |-> "is"]

UserLinks == (link :> Link(settings)) @@ (otherLink :> Link(other))
UserDependents == user :> <<settings, link>>

Symmetry == Permutations(Calls)
=============================================================================
