--------------------------- MODULE MCHomaTxQueue ---------------------------
(* Two send threads and four datagrams of three ranks. *)
EXTENDS HomaTxQueue, TLC

CONSTANTS grant, short, long, late

MCPrio == (grant :> 0) @@ (short :> 0) @@ (long :> 1) @@ (late :> 1)
=============================================================================
