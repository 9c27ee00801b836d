--------------------------- MODULE RecursiveMutex ---------------------------
(***************************************************************************)
(* pysync/recursive.go: a mutex that its owner may lock again, a PyMutex   *)
(* with the owner's ident and a level beside it.  The ident is an atomic   *)
(* that anybody may load at any moment, the level a plain field that only  *)
(* the owner may touch.                                                    *)
(*                                                                         *)
(* Each goroutine passes an ident of its own, and unlocks what it has      *)
(* locked.  at[t] is where it is in this module: `out`, in mu.Lock (lock), *)
(* `in`, in mu.Unlock (unlock), or `panic`; pc[t] is where it is in mu.    *)
(***************************************************************************)
EXTENDS PyMutex

CONSTANT MaxLevel

VARIABLES
    owner,      \* RecursiveMutex.thread; Nobody is 0
    level,
    at,
    depth       \* history: depth[t]: how often t has locked and not unlocked

recVars == <<vars, owner, level, at, depth>>

(* The struct's one mutex, which Lock waits for without a deadline, and the*)
(* room in the level.                                                      *)
RecAssumption == (\A m, n \in Addrs : m = n) /\ Forever \in Limits /\ MaxLevel \in Nat

RecTypeOK ==
    /\ owner \in Threads \cup {Nobody}
    /\ level \in 0 .. MaxLevel
    /\ at \in [Threads -> {"out", "lock", "in", "unlock", "panic"}]
    /\ depth \in [Threads -> 0 .. MaxLevel + 1]

RecInit ==
    /\ Init
    /\ owner = Nobody
    /\ level = 0
    /\ at = [t \in Threads |-> "out"]
    /\ depth = [t \in Threads |-> 0]

-----------------------------------------------------------------------------

(* A call finds its own ident: one level more. *)
LockAgain(t) ==
    /\ at[t] \in {"out", "in"}
    /\ owner = t
    /\ level < MaxLevel
    /\ level' = level + 1
    /\ at' = [at EXCEPT ![t] = "in"]
    /\ depth' = [depth EXCEPT ![t] = @ + 1]
    /\ UNCHANGED <<vars, owner>>

(* Or it does not, and locks the mutex. *)
LockFirst(t, m) ==
    /\ at[t] = "out"
    /\ owner # t
    /\ CallLock(t, m, Forever)
    /\ at' = [at EXCEPT ![t] = "lock"]
    /\ UNCHANGED <<owner, level, depth>>

(* mu.Lock has returned: the ident is stored. *)
SetOwner(t) ==
    /\ at[t] = "lock"
    /\ pc[t] = "held"
    /\ owner' = t
    /\ at' = [at EXCEPT ![t] = "in"]
    /\ depth' = [depth EXCEPT ![t] = @ + 1]
    /\ UNCHANGED <<vars, level>>

(* Mutant: the ident stays when the mutex is given back. *)
UnlockKeepsOwner(t) ==
    /\ at[t] = "in"
    /\ level' = IF level > 0 THEN level - 1 ELSE 0
    /\ at' = [at EXCEPT ![t] = IF level > 0 THEN "in" ELSE "unlock"]
    /\ depth' = [depth EXCEPT ![t] = @ - 1]
    /\ UNCHANGED <<vars, owner>>

(* Unlock: a panic, a level less, or the ident is cleared and mu.Unlock    *)
(* called.                                                                 *)
Unlock(t) ==
    /\ at[t] = "in"
    /\ \/ /\ owner # t
          /\ at' = [at EXCEPT ![t] = "panic"]
          /\ UNCHANGED <<owner, level>>
       \/ /\ owner = t /\ level > 0
          /\ level' = level - 1
          /\ UNCHANGED <<owner, at>>
       \/ /\ owner = t /\ level = 0
          /\ owner' = Nobody
          /\ at' = [at EXCEPT ![t] = "unlock"]
          /\ UNCHANGED level
    /\ depth' = [depth EXCEPT ![t] = @ - 1]
    /\ UNCHANGED vars

(* The steps of mu.Lock and mu.Unlock, and the return of the latter. *)
InMutex(t) ==
    /\ at[t] \in {"lock", "unlock"}
    /\ pc[t] = "held" => at[t] = "unlock"
    /\ Run(t)
    /\ at' = [at EXCEPT ![t] = IF pc'[t] = "idle" THEN "out" ELSE @]
    /\ UNCHANGED <<owner, level, depth>>

RecTick(t) == Tick(t) /\ UNCHANGED <<owner, level, at, depth>>

RecNext ==
    \E t \in Threads :
        \/ LockAgain(t) \/ SetOwner(t) \/ Unlock(t) \/ InMutex(t) \/ RecTick(t)
        \/ \E m \in Addrs : LockFirst(t, m)

RecSpec == RecInit /\ [][RecNext]_recVars

-----------------------------------------------------------------------------

(* recursive.go:29: IsLockedBy is true for the goroutine inside, and for   *)
(* nobody else, also while the mutex is on its way from one to the next;   *)
(* and who is inside has the mutex.                                        *)
OwnerIsInside ==
    \A t \in Threads : (owner = t <=> at[t] = "in") /\ (at[t] = "in" => pc[t] = "held")

(* recursive.go:22: the level is how often the owner has locked again, and *)
(* the next one to come in finds it 0.                                     *)
LevelIsDepth ==
    /\ \A t \in Threads : depth[t] = IF at[t] = "in" THEN level + 1 ELSE 0
    /\ owner = Nobody => level = 0

(* recursive.go:52: Unlock by who has locked panics neither here nor in    *)
(* the mutex.                                                              *)
OwnerUnlocks == \A t \in Threads : at[t] # "panic" /\ pc[t] # "panic"

RecInv == RecTypeOK /\ OwnerIsInside /\ LevelIsDepth /\ OwnerUnlocks
=============================================================================
