--------------------------- MODULE MCPendingCalls ---------------------------
(* Instances of PendingCalls for TLC. *)
EXTENDS PendingCalls

CONSTANTS main, t1
=============================================================================
