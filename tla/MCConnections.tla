---------------------------- MODULE MCConnections ----------------------------
(* Instances of Connections for TLC.                                       *)
EXTENDS Connections, TLC

CONSTANTS old, new

OldAndNew == old :> 1 @@ new :> 2
OldOnly == old :> 1
=============================================================================
