---------------------------- MODULE MCStreamFamily ----------------------------
(* Instances of StreamFamily for TLC. *)
EXTENDS StreamFamily

CONSTANTS in, out

OneSchema == {{in}}
=============================================================================
