--------------------------- MODULE MCContractStore ---------------------------
(* Instances of ContractStore for TLC.                                     *)
EXTENDS ContractStore, TLC

Symmetry == Permutations(Clients) \cup Permutations(Ids) \cup Permutations(Edits)
=============================================================================
