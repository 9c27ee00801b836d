------------------------------ MODULE MCWaits ------------------------------
(***************************************************************************)
(* Instances of RLock, DictLock and SimpleQueue for TLC, three kinds of    *)
(* object that Python code waits for on top of the same EvalLoop.  They    *)
(* share no state but the GIL, so a behaviour uses objects of one kind.    *)
(***************************************************************************)
EXTENDS RLock, TLC

CONSTANTS
    Kinds,                      \* of RLock, DictLock, SimpleQueue
    r1, r2, r3,                 \* goroutines of RLock
    t1, t2, b1, b2, d1, d2,     \* of the others, in Eval and outside; dicts
    MaxNest, MaxPuts

VARIABLES kind, dictOwner, dictDepth, waiting, signalled, wants, inside, buf, puts, got

OwnThread == [g \in Goids |-> g]
Mixed == {t1, t2, b1, b2}

(* dictGoid is a thread or a goroutine's number, which differ. *)
Dict == INSTANCE DictLock WITH
    Goids <- Mixed, Threads <- { <<g>> : g \in Mixed }, ThreadOf <- [g \in Mixed |-> <<g>>],
    owner <- dictOwner, depth <- dictDepth,
    Dicts <- {d1, d2}, Bare <- {b1, b2}

Queue == INSTANCE SimpleQueue WITH
    Goids <- Mixed, Threads <- Mixed, ThreadOf <- [g \in Mixed |-> g], Bare <- {b1, b2}

dictVars == <<dictOwner, dictDepth, wants, inside>>
queueVars == <<buf, puts, got>>
AllVars == <<vars, kind, waiting, signalled, dictVars, queueVars>>

(* The variables of the other kinds. *)
NoRLock ==
    /\ gate = FALSE /\ owner = None /\ count = 0
    /\ task = [g \in Goids |-> ""] /\ saved = [g \in Goids |-> 0]
    /\ depth = [g \in Goids |-> 0]
NoDict == dictOwner = None /\ dictDepth = None /\ wants = None /\ inside = None
NoQueue == buf = None /\ puts = None /\ got = None

WaitsInit ==
    /\ kind \in Kinds
    /\ \/ /\ kind = "RLock" /\ RLockInit /\ NoDict /\ NoQueue
          /\ waiting = None /\ signalled = None
       \/ kind = "DictLock" /\ Dict!DictInit /\ NoRLock /\ NoQueue
       \/ kind = "SimpleQueue" /\ Queue!QueueInit /\ NoRLock /\ NoDict

WaitsNext ==
    \/ /\ kind = "RLock" /\ RLockNext
       /\ UNCHANGED <<kind, waiting, signalled, dictVars, queueVars>>
    \/ /\ kind = "DictLock" /\ Dict!DictNext
       /\ UNCHANGED <<kind, rlockVars, queueVars>>
    \/ /\ kind = "SimpleQueue" /\ Queue!QueueNext
       /\ UNCHANGED <<kind, rlockVars, dictVars>>

WaitsSpec == WaitsInit /\ [][WaitsNext]_AllVars

Sym == Permutations({r1, r2, r3}) \cup Permutations({t1, t2})
       \cup Permutations({b1, b2}) \cup Permutations({d1, d2})

-----------------------------------------------------------------------------

(* dict_lock.go:48-80: one goroutine at a time is inside a dict's          *)
(* operations, as deep as its depth says, and nobody sleeps on a dict that *)
(* is free.                                                                *)
DictInv == kind = "DictLock" => Dict!DictInv

(* module/_queue/module.go:98-156: as long as getters sleep, as many of    *)
(* them as there are items have been woken, so that no put is lost on a    *)
(* waiter; and items come out in the order they went in.                   *)
QueueInv == kind = "SimpleQueue" => Queue!QueueInv
=============================================================================
