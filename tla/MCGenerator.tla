---------------------------- MODULE MCGenerator ----------------------------
(***************************************************************************)
(* An instance of Generator for TLC.  Bodies b1 and b2 are thread t1's,    *)
(* which drives both; b1 drives b2 and tries to drive itself.  b3 was      *)
(* created by a thread that is over, t2, and is driven by x, a goroutine   *)
(* outside Eval: so the body and t1 are two threads that want the lock.    *)
(***************************************************************************)
EXTENDS Generator

CONSTANTS t1, t2, b1, b2, b3, x

ThreadOfGoid == [g \in Goids |-> IF g \in {b3, x} THEN t2 ELSE t1]
Drivers == { <<t1, b1>>, <<t1, b2>>, <<b1, b2>>, <<b1, b1>>, <<x, b3>> }
Throwers == { <<t1, b1>>, <<t1, b2>>, <<b1, b2>> }
=============================================================================
