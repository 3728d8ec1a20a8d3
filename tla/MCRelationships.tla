--------------------------- MODULE MCRelationships ---------------------------
(* Instances of Relationships for TLC. *)
EXTENDS Relationships

CONSTANTS in, out

OneSchema == {{in}}
=============================================================================
