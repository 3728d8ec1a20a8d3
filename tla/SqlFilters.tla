------------------------------ MODULE SqlFilters ------------------------------
(***************************************************************************)
(* The recursive definitions of filters: the links in one, and what a row  *)
(* evaluates one to.                                                       *)
(***************************************************************************)
EXTENDS JsonSchemas, Filters

RECURSIVE Links(_)
Links(f) == FilterLinks(f, LAMBDA g : Links(g))

RECURSIVE Holds(_, _)
Holds(f, row) == FilterHolds(f, row, LAMBDA g, r : Holds(g, r))
=============================================================================
