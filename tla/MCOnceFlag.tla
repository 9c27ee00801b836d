----------------------------- MODULE MCOnceFlag -----------------------------
(* An instance of OnceFlag for TLC. *)
EXTENDS OnceFlag

CONSTANTS t1, t2, t3
=============================================================================
