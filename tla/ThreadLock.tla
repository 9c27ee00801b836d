----------------------------- MODULE ThreadLock -----------------------------
(***************************************************************************)
(* _thread.lock (module/_thread/module.go) on top of EvalLoop: a Go mutex  *)
(* that is waited for with the GIL released, and a flag beside it that     *)
(* says whether Python may release it.                                     *)
(*                                                                         *)
(* acquire without blocking and release run between two polls of a         *)
(* goroutine that holds the GIL, so nobody else who does sees the middle   *)
(* of them; a goroutine in a blocking call sees only the mutex, which they *)
(* touch once.  A blocking acquire stores the flag when it has the GIL     *)
(* again, a timed one right after it got the mutex.                        *)
(***************************************************************************)
EXTENDS EvalLoop

CONSTANTS
    Locks,
    Careless,   \* goroutines whose code releases locks nobody has acquired
    Tidy        \* whether code that has a lock releases it before it waits
                \* for it again (threading.Condition does not) or leaves Eval

ASSUME LockAssumption ==
    None \notin Locks /\ Careless \subseteq Goids /\ Tidy \in BOOLEAN

VARIABLES
    mu,         \* lk.mu is taken
    flag,       \* lk.locked
    task,       \* the acquire under way of each goroutine: lock and progress
    held        \* history: the locks a goroutine's acquires have got it

lockVars == <<mu, flag, task, held>>
vars == <<evalVars, lockVars>>

(* In lk.mu.Lock (wait) or the poll loop (poll); has the mutex, the flag   *)
(* to be stored at once (store) or at the end (got), or stored (took); has *)
(* given up (missed).                                                      *)
Progress == {"", "wait", "poll", "store", "got", "took", "missed"}
NoTask == [lock |-> None, at |-> ""]

LockTypeOK ==
    /\ TypeOK
    /\ mu \in [Locks -> BOOLEAN]
    /\ flag \in [Locks -> BOOLEAN]
    /\ task \in [Goids -> [lock : Locks \cup {None}, at : Progress]]
    /\ held \in [Goids -> SUBSET Locks]
    /\ \A g \in Goids :
          /\ task[g].at # "" => pc[g] \in {"blocked", "retake"}
          /\ task[g].at \in {"wait", "poll", "store"} => pc[g] = "blocked"

LockInit ==
    /\ Init
    /\ mu = [l \in Locks |-> FALSE]
    /\ flag = [l \in Locks |-> FALSE]
    /\ task = [g \in Goids |-> NoTask]
    /\ held = [g \in Goids |-> {}]

Moves(g, from, to) == task[g].at = from /\ task' = [task EXCEPT ![g].at = to]

Gets(g, l) == held' = [held EXCEPT ![g] = @ \cup {l}]

-----------------------------------------------------------------------------

(* acquire(False) *)
TryAcquire(g, l) ==
    /\ pc[g] = "run"
    /\ ~mu[l]
    /\ mu' = [mu EXCEPT ![l] = TRUE]
    /\ flag' = [flag EXCEPT ![l] = TRUE]
    /\ Gets(g, l)
    /\ UNCHANGED <<evalVars, task>>

(* Mutant: waiting without letting go of the GIL. *)
AcquiringWithGil(g, l) ==
    /\ Tidy => l \notin held[g]
    /\ BlockWithGil(g)
    /\ \E how \in {"wait", "poll"} : task' = [task EXCEPT ![g] = [lock |-> l, at |-> how]]
    /\ UNCHANGED <<mu, flag, held>>

(* acquire(), and acquire with a timeout: off to the wait without the GIL. *)
Acquiring(g, l) ==
    /\ Tidy => l \notin held[g]
    /\ BeginAllowThreads(g)
    /\ \E how \in {"wait", "poll"} : task' = [task EXCEPT ![g] = [lock |-> l, at |-> how]]
    /\ UNCHANGED <<mu, flag, held>>

(* Mutant: the poll loop goes on with a mutex somebody else has.           *)
GetMutexAnyway(g) ==
    LET l == task[g].lock IN
    /\ Moves(g, "wait", "got") \/ Moves(g, "poll", "store")
    /\ task[g].at = "wait" => ~mu[l]
    /\ mu' = [mu EXCEPT ![l] = TRUE]
    /\ UNCHANGED <<evalVars, flag, held>>

(* lk.mu.Lock, and lk.mu.TryLock in the poll loop. *)
GetMutex(g) ==
    LET l == task[g].lock IN
    /\ Moves(g, "wait", "got") \/ Moves(g, "poll", "store")
    /\ ~mu[l]
    /\ mu' = [mu EXCEPT ![l] = TRUE]
    /\ UNCHANGED <<evalVars, flag, held>>

StoreFlag(g) ==
    /\ Moves(g, "store", "took")
    /\ flag' = [flag EXCEPT ![task[g].lock] = TRUE]
    /\ UNCHANGED <<evalVars, mu, held>>

(* The deadline is over; it is looked at after a TryLock that failed.      *)
TimeOut(g) ==
    /\ Moves(g, "poll", "missed")
    /\ mu[task[g].lock]
    /\ UNCHANGED <<evalVars, mu, flag, held>>

(* The wait is over, the GIL to be taken again. *)
Back(g) ==
    /\ task[g].at \in {"", "got", "took", "missed"}
    /\ EndAllowThreads(g)
    /\ UNCHANGED lockVars

(* Mutant: a blocking acquire returns without storing the flag.            *)
ReturnBare(g) ==
    LET t == task[g] IN
    /\ task' = [task EXCEPT ![g] = NoTask]
    /\ IF t.at \in {"got", "took"} THEN Gets(g, t.lock) ELSE UNCHANGED held
    /\ UNCHANGED <<mu, flag>>

(* The end of acquire, with the GIL. *)
Return(g) ==
    LET t == task[g] IN
    /\ task' = [task EXCEPT ![g] = NoTask]
    /\ IF t.at \in {"got", "took"} THEN Gets(g, t.lock) ELSE UNCHANGED held
    /\ flag' = IF t.at = "got" THEN [flag EXCEPT ![t.lock] = TRUE] ELSE flag
    /\ UNCHANGED mu

TakeGil(g) ==
    /\ Acquire(g)
    /\ IF pc'[g] = "run" THEN Return(g) ELSE UNCHANGED lockVars

(* Mutant: the mutex stays taken. *)
ReleaseKeepsMutex(g, l) ==
    /\ pc[g] = "run" /\ flag[l]
    /\ g \in Careless \/ \E h \in Goids : l \in held[h]
    /\ flag' = [flag EXCEPT ![l] = FALSE]
    /\ held' = [h \in Goids |-> held[h] \ {l}]
    /\ UNCHANGED <<evalVars, mu, task>>

(* release, by whoever likes to; with the flag down it is a RuntimeError   *)
(* and nothing changes.                                                    *)
Release(g, l) ==
    /\ pc[g] = "run" /\ flag[l]
    /\ g \in Careless \/ \E h \in Goids : l \in held[h]
    /\ flag' = [flag EXCEPT ![l] = FALSE]
    /\ mu' = [mu EXCEPT ![l] = FALSE]
    /\ held' = [h \in Goids |-> held[h] \ {l}]
    /\ UNCHANGED <<evalVars, task>>

LockStep(g) ==
    \/ Enter(g) /\ UNCHANGED lockVars
    \/ (Tidy => held[g] = {}) /\ Leave(g) /\ UNCHANGED lockVars
    \/ (Poll(g) \/ HandleBreaker(g) \/ BeginAllowThreads(g)) /\ UNCHANGED lockVars
    \/ TakeGil(g) \/ Back(g)
    \/ GetMutex(g) \/ StoreFlag(g) \/ TimeOut(g)
    \/ \E l \in Locks : TryAcquire(g, l) \/ Acquiring(g, l) \/ Release(g, l)

LockNext == \E g \in Goids : LockStep(g)

LockSpec == LockInit /\ [][LockNext]_vars

(* As in EvalLoop, and code that runs blocks or leaves some day, without   *)
(* which a third thread may never get the GIL; blocking calls come back; a *)
(* sync.Mutex that comes free time and again goes to whoever waits in Lock *)
(* (its starvation mode); and Python code that has the GIL time and again  *)
(* while it has a lock releases it.                                        *)
LockFairSpec ==
    /\ LockSpec
    /\ \A g \in Goids :
          /\ WF_vars((Poll(g) \/ HandleBreaker(g)) /\ UNCHANGED lockVars)
          /\ WF_vars(BeginAllowThreads(g) /\ UNCHANGED lockVars)
          /\ WF_vars(TakeGil(g)) /\ SF_vars(TakeGil(g) /\ pc'[g] = "run")
          /\ WF_vars(Back(g)) /\ WF_vars(StoreFlag(g)) /\ WF_vars(TimeOut(g))
          /\ SF_vars(GetMutex(g))
          /\ \A l \in Locks : SF_vars(l \in held[g] /\ Release(g, l))

-----------------------------------------------------------------------------

(* A lock that may be released is taken: lk.mu.Unlock is never a fatal     *)
(* error of the Go runtime, whatever Python code releases.                 *)
UnlockNeverFatal == \A l \in Locks : flag[l] => mu[l]

(* Between the return of acquire and the release nobody else's acquire     *)
(* returns.                                                                *)
MutualExclusion ==
    \A l \in Locks : \A g, h \in Goids : l \in held[g] /\ l \in held[h] => g = h

(* A lock that acquire has returned shows as locked and can be released.   *)
HeldIsLocked == \A l \in Locks : (\E g \in Goids : l \in held[g]) => flag[l]

(* module.go:211: flag and mutex agree wherever the code relies on one     *)
(* for the other: release looks at the flag before it unlocks the mutex,   *)
(* and acquire answers on the mutex alone.                                 *)
LockInv == LockTypeOK /\ OneRuns /\ UnlockNeverFatal /\ HeldIsLocked

(* A mutex that is taken belongs to somebody: a lock somebody has, or an   *)
(* acquire on its way back.  A timed acquire that missed leaves no trace.  *)
NobodyKeepsMutex ==
    \A l \in Locks : mu[l] =>
        \E g \in Goids :
            \/ l \in held[g]
            \/ task[g].lock = l /\ task[g].at \in {"store", "got", "took"}

(* module.go:211, 361-420: flag and mutex of a lock agree wherever the     *)
(* code relies on one for the other, two acquires never both have it, and  *)
(* a mutex that is taken belongs to somebody.                              *)
LocksSound == LockInv /\ MutualExclusion /\ NobodyKeepsMutex
=============================================================================
