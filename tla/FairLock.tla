------------------------------ MODULE FairLock ------------------------------
(***************************************************************************)
(* What a lock with handoff promises, for pysync/mutex.go.  A goroutine    *)
(* asks for a lock; it gets it when nobody owns it, or straight from the   *)
(* owner that lets go of it; it may also give up.  Only the owner lets go. *)
(***************************************************************************)
CONSTANTS Threads, Locks, Nobody

VARIABLES
    owner,      \* owner[l]: who owns l
    waiting     \* waiting[t]: the lock t has asked for, as a set

vars == <<owner, waiting>>

Init ==
    /\ owner = [l \in Locks |-> Nobody]
    /\ waiting = [t \in Threads |-> {}]

Ask(t, l) ==
    /\ waiting[t] = {}
    /\ \A k \in Locks : owner[k] # t
    /\ waiting' = [waiting EXCEPT ![t] = {l}]
    /\ UNCHANGED owner

Acquire(t, l) ==
    /\ l \in waiting[t]
    /\ owner[l] = Nobody
    /\ owner' = [owner EXCEPT ![l] = t]
    /\ waiting' = [waiting EXCEPT ![t] = {}]

GiveUp(t) ==
    /\ waiting' = [waiting EXCEPT ![t] = {}]
    /\ UNCHANGED owner

Release(t, l) ==
    /\ owner[l] = t
    /\ owner' = [owner EXCEPT ![l] = Nobody]
    /\ UNCHANGED waiting

HandOver(t, u, l) ==
    /\ owner[l] = t
    /\ l \in waiting[u]
    /\ owner' = [owner EXCEPT ![l] = u]
    /\ waiting' = [waiting EXCEPT ![u] = {}]

Next ==
    \E t \in Threads :
        \/ GiveUp(t)
        \/ \E l \in Locks : \/ Ask(t, l) \/ Acquire(t, l) \/ Release(t, l)
                            \/ \E u \in Threads : HandOver(t, u, l)

Spec == Init /\ [][Next]_vars
=============================================================================
