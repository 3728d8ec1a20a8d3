------------------------------ MODULE MCStreams ------------------------------
(* Instances of Streams for TLC.                                           *)
EXTENDS Freshness, TLC

CONSTANTS in, out

OneSchema == {{in}}
OneOrNothing == {{in}, {}}

Symmetry == Permutations(Pushes) \cup Permutations(Roots)
=============================================================================
