-------------------------------- MODULE RLock --------------------------------
(***************************************************************************)
(* _thread.RLock (module/_thread/rlock.go) on top of EvalLoop: a gate that *)
(* is waited for with the GIL released, and an owner and a count that are  *)
(* looked at and set with it held.  One lock; owner is a goroutine.        *)
(*                                                                         *)
(* Everything but the wait for the gate runs between two polls of a        *)
(* goroutine that holds the GIL; a goroutine in the wait sees the gate     *)
(* only.  _acquire_restore, which threading.Condition calls at the end of  *)
(* wait, takes the gate without releasing the GIL: pc is "restore".        *)
(***************************************************************************)
EXTENDS EvalLoop

CONSTANTS
    MaxDepth,   \* bound on how often a goroutine enters
    Conditions, \* goroutines that use the lock in a threading.Condition
    Tidy        \* whether code leaves the lock before it leaves Eval

ASSUME RLockAssumption ==
    MaxDepth \in Nat \ {0} /\ Conditions \subseteq Goids /\ Tidy \in BOOLEAN

VARIABLES
    gate,       \* r.gate is taken
    owner,
    count,
    task,       \* the acquire under way of each goroutine
    saved,      \* what _release_save returned, for _acquire_restore
    depth       \* history: acquires that returned True less releases

rlockVars == <<gate, owner, count, task, saved, depth>>
vars == <<evalVars, rlockVars>>

(* Waits for the gate (wait, or poll with a timeout), has it (got), has    *)
(* given up (missed).                                                      *)
Tasks == {"", "wait", "poll", "got", "missed"}

RLockTypeOK ==
    /\ gate \in BOOLEAN
    /\ owner \in Goids \cup {None}
    /\ count \in 0 .. MaxDepth
    /\ task \in [Goids -> Tasks]
    /\ saved \in [Goids -> 0 .. MaxDepth]
    /\ depth \in [Goids -> 0 .. MaxDepth]
    /\ \A g \in Goids :
          /\ task[g] # "" => pc[g] \in {"blocked", "retake"}
          /\ task[g] \in {"wait", "poll"} => pc[g] = "blocked"

RLockInit ==
    /\ Init
    /\ gate = FALSE
    /\ owner = None
    /\ count = 0
    /\ task = [g \in Goids |-> ""]
    /\ saved = [g \in Goids |-> 0]
    /\ depth = [g \in Goids |-> 0]

Owns(g, n) ==
    /\ owner' = g
    /\ count' = n
    /\ depth' = [depth EXCEPT ![g] = n]

-----------------------------------------------------------------------------

(* acquire by the owner; MaxDepth bounds the count. *)
Reenter(g) ==
    /\ pc[g] = "run" /\ owner = g
    /\ count < MaxDepth
    /\ Owns(g, count + 1)
    /\ UNCHANGED <<evalVars, gate, task, saved>>

(* acquire(False) with the gate open. *)
TryAcquire(g) ==
    /\ pc[g] = "run" /\ owner # g
    /\ ~gate
    /\ gate' = TRUE
    /\ Owns(g, 1)
    /\ UNCHANGED <<evalVars, task, saved>>

(* acquire(), and acquire with a timeout, by another: off to the wait.     *)
Acquiring(g) ==
    /\ owner # g
    /\ BeginAllowThreads(g)
    /\ \E how \in {"wait", "poll"} : task' = [task EXCEPT ![g] = how]
    /\ UNCHANGED <<gate, owner, count, saved, depth>>

GetGate(g) ==
    /\ task[g] \in {"wait", "poll"} /\ ~gate
    /\ task' = [task EXCEPT ![g] = "got"]
    /\ gate' = TRUE
    /\ UNCHANGED <<evalVars, owner, count, saved, depth>>

TimeOut(g) ==
    /\ task[g] = "poll" /\ gate
    /\ task' = [task EXCEPT ![g] = "missed"]
    /\ UNCHANGED <<evalVars, gate, owner, count, saved, depth>>

Back(g) ==
    /\ task[g] \in {"", "got", "missed"}
    /\ EndAllowThreads(g)
    /\ UNCHANGED rlockVars

(* The end of acquire: with the GIL again, the gate makes an owner. *)
TakeGil(g) ==
    /\ Acquire(g)
    /\ IF pc'[g] = "run"
       THEN /\ task' = [task EXCEPT ![g] = ""]
            /\ IF task[g] = "got" THEN Owns(g, 1) ELSE UNCHANGED <<owner, count, depth>>
            /\ UNCHANGED <<gate, saved>>
       ELSE UNCHANGED rlockVars

(* release; by anybody but the owner it is a RuntimeError. *)
Release(g) ==
    /\ pc[g] = "run" /\ owner = g /\ count > 0
    /\ count' = count - 1
    /\ depth' = [depth EXCEPT ![g] = @ - 1]
    /\ owner' = IF count = 1 THEN None ELSE owner
    /\ gate' = (count > 1)
    /\ UNCHANGED <<evalVars, task, saved>>

(* Condition.wait: _release_save. *)
ReleaseSave(g) ==
    /\ g \in Conditions
    /\ pc[g] = "run" /\ owner = g /\ count > 0
    /\ saved' = [saved EXCEPT ![g] = count]
    /\ owner' = None /\ count' = 0 /\ gate' = FALSE
    /\ depth' = [depth EXCEPT ![g] = 0]
    /\ UNCHANGED <<evalVars, task>>

(* _acquire_restore: up to r.gate.Lock, with the GIL, and from there on.   *)
AcquireRestore(g) ==
    /\ saved[g] > 0
    /\ Goto(g, "run", "restore")
    /\ UNCHANGED <<gilVars, armed, rlockVars>>

(* Mutant: the lock comes back with a count of one. *)
RestoreOnce(g) ==
    /\ Goto(g, "restore", "run")
    /\ ~gate /\ gate' = TRUE
    /\ owner' = g /\ count' = 1
    /\ depth' = [depth EXCEPT ![g] = saved[g]]
    /\ saved' = [saved EXCEPT ![g] = 0]
    /\ UNCHANGED <<gilVars, armed, task>>

Restore(g) ==
    /\ Goto(g, "restore", "run")
    /\ ~gate /\ gate' = TRUE
    /\ Owns(g, saved[g])
    /\ saved' = [saved EXCEPT ![g] = 0]
    /\ UNCHANGED <<gilVars, armed, task>>

(* Between _release_save and _acquire_restore Condition.wait blocks, and   *)
(* does not touch the lock.                                                *)
RLockStep(g) ==
    \/ Enter(g) /\ UNCHANGED rlockVars
    \/ (Tidy => depth[g] = 0 /\ saved[g] = 0) /\ Leave(g) /\ UNCHANGED rlockVars
    \/ (Poll(g) \/ HandleBreaker(g) \/ BeginAllowThreads(g)) /\ UNCHANGED rlockVars
    \/ TakeGil(g) \/ Back(g) \/ GetGate(g) \/ TimeOut(g)
    \/ saved[g] = 0 /\ (Reenter(g) \/ TryAcquire(g) \/ Acquiring(g) \/ Release(g))
    \/ ReleaseSave(g) \/ AcquireRestore(g) \/ Restore(g)

RLockNext == \E g \in Goids : RLockStep(g)

-----------------------------------------------------------------------------

(* The owner has entered as often as the count says, and nobody else is    *)
(* inside.                                                                 *)
CountIsDepth == \A g \in Goids : depth[g] = IF owner = g THEN count ELSE 0

(* The gate is shut exactly while there is an owner or somebody about to   *)
(* become one: it is never opened under an owner, nor unlocked twice.      *)
GateGuardsOwner ==
    /\ owner # None => gate /\ count > 0 /\ \A g \in Goids : task[g] # "got"
    /\ owner = None => count = 0
    /\ gate => owner # None \/ \E g \in Goids : task[g] = "got"
    /\ \A g, h \in Goids : task[g] = "got" /\ task[h] = "got" => g = h

(* rlock.go:195-277, 319-366: an RLock's count is how deep its owner is    *)
(* inside, through re-entry, release, Condition.wait and back, and the     *)
(* gate is shut exactly while somebody is inside or has just got it.       *)
RLockInv == RLockTypeOK /\ CountIsDepth /\ GateGuardsOwner

(* Who has the gate: the owner, or somebody about to become it.            *)
HasGate(g) == owner = g \/ task[g] = "got"

(* rlock.go:218: holding the GIL while parked on the gate would deadlock   *)
(* the owner against this goroutine: nobody who parks there has the GIL    *)
(* that whoever has the gate waits for.                                    *)
NoGateGilDeadlock ==
    \A g, h \in Goids :
        pc[g] = "restore" /\ HasGate(h) => ~(HeldByGoid(g) /\ InCond(h))
=============================================================================
