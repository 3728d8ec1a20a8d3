----------------------------- MODULE JsonSchemas -----------------------------
(***************************************************************************)
(* What it is for a value to be valid against a JSON schema: the promise   *)
(* that the queries of the repository are measured by (its tests run the   *)
(* JSON Schema test suite against them).                                   *)
(***************************************************************************)
EXTENDS JsonValues

RECURSIVE Valid(_, _, _)
Valid(schema, v, linked) ==
  Satisfies(schema, v, linked, LAMBDA s, x : Valid(s, x, linked))
=============================================================================
