----------------------------- MODULE MCPyMutex -----------------------------
(* Instances of PyMutex for TLC: three goroutines and one mutex. *)
EXTENDS PyMutex

CONSTANTS t1, t2, t3, m1, b1

OneBucket == [m \in Addrs |-> b1]
AllLimits == {Zero, Some, Forever}

Sym == Permutations(Threads)
=============================================================================
