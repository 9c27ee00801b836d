---------------------------- MODULE WaitsProofs ----------------------------
(***************************************************************************)
(* Proofs about what goroutines on the eval loop wait for: locks           *)
(* (ThreadLock), threads (ThreadHandle), dicts (DictLock) and queues       *)
(* (SimpleQueue), for any number of each.  Each has its part below, with   *)
(* what its inductive invariant adds to the properties.                    *)
(***************************************************************************)
EXTENDS ThreadLock, DictLock, GilProofs, FiniteSetTheorems

-----------------------------------------------------------------------------
(* ThreadLock, for goroutines that run for threads of their own and locks  *)
(* that are released only when somebody has acquired them.                 *)
(*                                                                         *)
(* MutualExclusion is not inductive: an acquire owns the mutex before it   *)
(* returns, and before the flag says so.  LockIInv says who owns each      *)
(* mutex (Owns), that it is one goroutine and in one of the two ways, and  *)
(* when the flag has to be up already.                                     *)

(* An acquire of l is on its way back with the mutex. *)
Claims(g, l) == task[g].lock = l /\ task[g].at \in {"store", "got", "took"}

Owns(g, l) == l \in held[g] \/ Claims(g, l)

TaskOK ==
    /\ task \in [Goids -> [lock : Locks \cup {None}, at : Progress]]
    /\ \A g \in Goids :
          /\ task[g].at # "" => task[g].lock \in Locks /\ pc[g] \in {"blocked", "retake"}
          /\ task[g].at \in {"wait", "poll", "store"} => pc[g] = "blocked"

OwnersOK ==
    \A l \in Locks :
        /\ mu[l] <=> \E g \in Goids : Owns(g, l)
        /\ \A g, h \in Goids : Owns(g, l) /\ Owns(h, l) => g = h
        /\ \A g \in Goids : ~(l \in held[g] /\ Claims(g, l))

(* The flag is up as soon as a timed acquire, or any that returned, has    *)
(* the lock, and only while somebody has the mutex.                        *)
FlagsOK ==
    \A l \in Locks :
        /\ flag[l] => mu[l]
        /\ \A g \in Goids :
              l \in held[g] \/ (task[g].lock = l /\ task[g].at = "took") => flag[l]

LockIInv ==
    /\ Inv
    /\ mu \in [Locks -> BOOLEAN] /\ flag \in [Locks -> BOOLEAN]
    /\ held \in [Goids -> SUBSET Locks]
    /\ TaskOK /\ OwnersOK /\ FlagsOK

-----------------------------------------------------------------------------

LEMMA LockInitIInv == LockInit => LockIInv
  <1> SUFFICES ASSUME LockInit PROVE LockIInv
    OBVIOUS
  <1>1. Inv
    BY InitInv DEF LockInit
  <1>2. \A g \in Goids : task[g].at = "" /\ task[g].lock = None /\ held[g] = {}
    BY DEF LockInit, NoTask
  <1>3. TaskOK
    BY <1>2 DEF LockInit, NoTask, TaskOK, Progress
  <1> QED BY <1>1, <1>2, <1>3 DEF LockInit, LockIInv, OwnersOK, FlagsOK, Owns, Claims

(* Owners are told by the lock's own variables.                            *)
LEMMA SameOwners ==
    ASSUME LockIInv, UNCHANGED <<mu, flag, task, held>>
    PROVE  OwnersOK' /\ FlagsOK'
  <1>1. \A g, l : (Owns(g, l)' <=> Owns(g, l)) /\ (Claims(g, l)' <=> Claims(g, l))
    BY DEF Owns, Claims
  <1>2. OwnersOK'
    BY <1>1 DEF LockIInv, OwnersOK
  <1> QED BY <1>2 DEF LockIInv, FlagsOK

(* What a goroutine does with the GIL while no lock changes keeps the      *)
(* invariant, if an acquire under way is where its progress says.          *)
LEMMA EvalOnlyKeeps ==
    ASSUME OwnThreads, LockIInv, NEW g \in Goids, Step(g), UNCHANGED lockVars,
           task[g].at # "" => pc'[g] \in {"blocked", "retake"},
           task[g].at \in {"wait", "poll", "store"} => pc'[g] = "blocked"
    PROVE  LockIInv'
  <1>1. Inv'
    BY NextInv DEF Next, LockIInv
  <1>2. \A h \in Goids \ {g} : pc'[h] = pc[h]
    BY DEF Step, Enter, Acquire, Leave, Poll, HandleBreaker, BeginAllowThreads,
           EndAllowThreads, Goto, LockIInv, Inv, TypeOK
  <1>3. TaskOK'
    BY <1>2 DEF LockIInv, TaskOK, lockVars
  <1>4. UNCHANGED <<mu, flag, task, held>>
    BY DEF lockVars
  <1> QED BY <1>1, <1>3, <1>4, SameOwners DEF LockIInv

(* g, with nobody owning l, becomes its owner. *)
LEMMA OwnerAdded ==
    ASSUME LockIInv, NEW g \in Goids, NEW l \in Locks,
           ~mu[l], mu' = [mu EXCEPT ![l] = TRUE],
           \A h \in Goids : \A k \in Locks :
               Owns(h, k)' <=> Owns(h, k) \/ (h = g /\ k = l),
           ~(l \in held'[g] /\ Claims(g, l)'),
           \A h \in Goids : \A k \in Locks : h # g \/ k # l =>
               (~(k \in held[h] /\ Claims(h, k)) => ~(k \in held'[h] /\ Claims(h, k)'))
    PROVE  OwnersOK'
  <1> SUFFICES ASSUME NEW k \in Locks
               PROVE  /\ mu'[k] <=> \E h \in Goids : Owns(h, k)'
                      /\ \A h, i \in Goids : Owns(h, k)' /\ Owns(i, k)' => h = i
                      /\ \A h \in Goids : ~(k \in held'[h] /\ Claims(h, k)')
    BY DEF OwnersOK
  <1>1. /\ mu[k] <=> \E h \in Goids : Owns(h, k)
        /\ \A h, i \in Goids : Owns(h, k) /\ Owns(i, k) => h = i
        /\ \A h \in Goids : ~(k \in held[h] /\ Claims(h, k))
    BY DEF LockIInv, OwnersOK
  <1>2. CASE k = l
    <2>1. \A h \in Goids : ~Owns(h, l)
      BY <1>1, <1>2
    <2>2. \A h \in Goids : Owns(h, l)' <=> h = g
      BY <2>1
    <2>3. mu'[l]
      BY DEF LockIInv
    <2>4. \A h \in Goids : ~(l \in held'[h] /\ Claims(h, l)')
      BY <2>2 DEF Owns
    <2> QED BY <1>2, <2>2, <2>3, <2>4
  <1>3. CASE k # l
    <2>1. mu'[k] = mu[k]
      BY <1>3 DEF LockIInv
    <2>2. \A h \in Goids : Owns(h, k)' <=> Owns(h, k)
      BY <1>3
    <2> QED BY <1>1, <1>3, <2>1, <2>2
  <1> QED BY <1>2, <1>3

LEMMA TryAcquireKeeps ==
    ASSUME OwnThreads, LockIInv, NEW g \in Goids, NEW l \in Locks, TryAcquire(g, l)
    PROVE  LockIInv'
  <1>0. /\ pc[g] = "run" /\ ~mu[l] /\ UNCHANGED <<evalVars, task>>
        /\ mu' = [mu EXCEPT ![l] = TRUE] /\ flag' = [flag EXCEPT ![l] = TRUE]
        /\ held' = [held EXCEPT ![g] = @ \cup {l}]
    BY DEF TryAcquire, Gets
  <1>1. Inv'
    BY <1>0, NextInv DEF LockIInv
  <1>2. /\ mu' \in [Locks -> BOOLEAN] /\ flag' \in [Locks -> BOOLEAN]
        /\ held' \in [Goids -> SUBSET Locks]
    BY <1>0 DEF LockIInv
  <1>3. TaskOK'
    BY <1>0 DEF LockIInv, TaskOK, evalVars
  <1>4. task[g].at = ""
    BY <1>0 DEF LockIInv, TaskOK
  <1>5. OwnersOK'
    <2>1. \A h \in Goids : \A k \in Locks :
              /\ Claims(h, k)' <=> Claims(h, k)
              /\ k \in held'[h] <=> k \in held[h] \/ (h = g /\ k = l)
      BY <1>0 DEF Claims, LockIInv
    <2>2. ~Claims(g, l)
      BY <1>4 DEF Claims
    <2> QED BY <1>0, <2>1, <2>2, OwnerAdded DEF Owns
  <1>6. FlagsOK'
    BY <1>0 DEF LockIInv, FlagsOK
  <1> QED BY <1>1, <1>2, <1>3, <1>5, <1>6 DEF LockIInv

LEMMA AcquiringKeeps ==
    ASSUME OwnThreads, LockIInv, NEW g \in Goids, NEW l \in Locks, Acquiring(g, l)
    PROVE  LockIInv'
  <1>0. /\ BeginAllowThreads(g) /\ UNCHANGED <<mu, flag, held>>
        /\ pc[g] = "run" /\ pc' = [pc EXCEPT ![g] = "blocked"]
    <2>1. HeldByGoid(g) /\ pc[g] = "run"
      BY DEF Acquiring, BeginAllowThreads, Goto, LockIInv, Inv, OwnerOK
    <2> QED BY <2>1 DEF Acquiring, BeginAllowThreads, Goto
  <1>1. Inv'
    BY <1>0, NextInv DEF LockIInv, Next, Step
  <1>2. PICK how \in {"wait", "poll"} : task' = [task EXCEPT ![g] = [lock |-> l, at |-> how]]
    BY DEF Acquiring
  <1>3. task[g].at = ""
    BY <1>0 DEF LockIInv, TaskOK
  <1>4. TaskOK'
    BY <1>0, <1>2 DEF LockIInv, TaskOK, Progress, Inv, TypeOK
  <1>5. \A h \in Goids : \A k \in Locks :
            /\ Claims(h, k)' <=> Claims(h, k)
            /\ task'[h].lock = k /\ task'[h].at = "took" <=> task[h].lock = k /\ task[h].at = "took"
    BY <1>2, <1>3 DEF Claims, LockIInv, TaskOK
  <1>6. OwnersOK'
    BY <1>0, <1>5 DEF LockIInv, OwnersOK, Owns
  <1>7. FlagsOK'
    BY <1>0, <1>5 DEF LockIInv, FlagsOK
  <1> QED BY <1>0, <1>1, <1>4, <1>6, <1>7 DEF LockIInv

LEMMA GetMutexKeeps ==
    ASSUME OwnThreads, LockIInv, NEW g \in Goids, GetMutex(g)
    PROVE  LockIInv'
  <1>a. PICK l \in Locks : l = task[g].lock
    BY DEF GetMutex, Moves, LockIInv, TaskOK
  <1>0. /\ task[g].at \in {"wait", "poll"} /\ ~mu[l] /\ mu' = [mu EXCEPT ![l] = TRUE]
        /\ UNCHANGED <<evalVars, flag, held>>
    BY <1>a DEF GetMutex, Moves
  <1>1. PICK to \in {"got", "store"} :
            /\ task' = [task EXCEPT ![g].at = to]
            /\ to = "store" => task[g].at = "poll"
    BY DEF GetMutex, Moves
  <1>2. pc[g] = "blocked"
    BY <1>0 DEF LockIInv, TaskOK
  <1>3. Inv'
    BY <1>0, NextInv DEF LockIInv
  <1>4. /\ task'[g].lock = l /\ task'[g].at = to
        /\ \A h \in Goids \ {g} : task'[h] = task[h]
        /\ task' \in [Goids -> [lock : Locks \cup {None}, at : Progress]]
    BY <1>1, <1>a DEF LockIInv, TaskOK, Progress
  <1>5. TaskOK'
    BY <1>0, <1>2, <1>4 DEF LockIInv, TaskOK, evalVars
  <1>6. OwnersOK'
    <2>1. \A h \in Goids : \A k \in Locks : Claims(h, k)' <=> Claims(h, k) \/ (h = g /\ k = l)
      BY <1>0, <1>4, <1>a DEF Claims
    <2>2. l \notin held[g]
      BY <1>0, <1>2 DEF LockIInv, OwnersOK, Owns
    <2>3. /\ \A h \in Goids : \A k \in Locks : Owns(h, k)' <=> Owns(h, k) \/ (h = g /\ k = l)
          /\ ~(l \in held'[g] /\ Claims(g, l)')
          /\ \A h \in Goids : \A k \in Locks : h # g \/ k # l =>
               (~(k \in held[h] /\ Claims(h, k)) => ~(k \in held'[h] /\ Claims(h, k)'))
      BY <1>0, <2>1, <2>2 DEF Owns
    <2> QED BY <1>0, <2>3, OwnerAdded
  <1>7. FlagsOK'
    <2>1. \A h \in Goids : \A k \in Locks :
              task'[h].lock = k /\ task'[h].at = "took" => task[h].lock = k /\ task[h].at = "took"
      BY <1>4
    <2>2. \A k \in Locks : mu[k] => mu'[k]
      BY <1>0 DEF LockIInv
    <2> QED BY <1>0, <2>1, <2>2 DEF LockIInv, FlagsOK
  <1>8. mu' \in [Locks -> BOOLEAN]
    BY <1>0 DEF LockIInv
  <1> QED BY <1>0, <1>3, <1>5, <1>6, <1>7, <1>8 DEF LockIInv

LEMMA StoreFlagKeeps ==
    ASSUME OwnThreads, LockIInv, NEW g \in Goids, StoreFlag(g)
    PROVE  LockIInv'
  <1> DEFINE l == task[g].lock
  <1>0. /\ task[g].at = "store" /\ flag' = [flag EXCEPT ![l] = TRUE]
        /\ task' = [task EXCEPT ![g].at = "took"] /\ UNCHANGED <<evalVars, mu, held>>
    BY DEF StoreFlag, Moves
  <1>1. l \in Locks /\ pc[g] = "blocked" /\ mu[l]
    BY <1>0 DEF LockIInv, TaskOK, OwnersOK, Owns, Claims
  <1>2. Inv'
    BY <1>0, NextInv DEF LockIInv
  <1>3. /\ task'[g].lock = l /\ task'[g].at = "took"
        /\ \A h \in Goids \ {g} : task'[h] = task[h]
        /\ task' \in [Goids -> [lock : Locks \cup {None}, at : Progress]]
    BY <1>0 DEF LockIInv, TaskOK, Progress
  <1>4. TaskOK'
    BY <1>0, <1>1, <1>3 DEF LockIInv, TaskOK, evalVars
  <1>5. \A h \in Goids : \A k \in Locks : Claims(h, k)' <=> Claims(h, k)
    BY <1>0, <1>3 DEF Claims
  <1>6. OwnersOK'
    BY <1>0, <1>5 DEF LockIInv, OwnersOK, Owns
  <1>7. flag' \in [Locks -> BOOLEAN]
    BY <1>0 DEF LockIInv
  <1>8. FlagsOK'
    <2>1. /\ flag'[l] /\ \A k \in Locks \ {l} : flag'[k] = flag[k]
      BY <1>0, <1>1 DEF LockIInv
    <2> QED BY <1>0, <1>1, <1>3, <2>1 DEF LockIInv, FlagsOK
  <1> QED BY <1>0, <1>2, <1>4, <1>6, <1>7, <1>8 DEF LockIInv

LEMMA TimeOutKeeps ==
    ASSUME OwnThreads, LockIInv, NEW g \in Goids, TimeOut(g)
    PROVE  LockIInv'
  <1>0. /\ task[g].at = "poll" /\ task' = [task EXCEPT ![g].at = "missed"]
        /\ UNCHANGED <<evalVars, mu, flag, held>>
    BY DEF TimeOut, Moves
  <1>1. Inv'
    BY <1>0, NextInv DEF LockIInv
  <1>2. /\ task'[g].lock = task[g].lock /\ task'[g].at = "missed"
        /\ \A h \in Goids \ {g} : task'[h] = task[h]
        /\ task' \in [Goids -> [lock : Locks \cup {None}, at : Progress]]
    BY <1>0 DEF LockIInv, TaskOK, Progress
  <1>3. TaskOK'
    BY <1>0, <1>2 DEF LockIInv, TaskOK, evalVars
  <1>4. \A h \in Goids : \A k \in Locks :
            /\ Claims(h, k)' <=> Claims(h, k)
            /\ task'[h].lock = k /\ task'[h].at = "took" => task[h].lock = k /\ task[h].at = "took"
    BY <1>0, <1>2 DEF Claims
  <1>5. OwnersOK' /\ FlagsOK'
    BY <1>0, <1>4 DEF LockIInv, OwnersOK, FlagsOK, Owns
  <1> QED BY <1>0, <1>1, <1>3, <1>5 DEF LockIInv

(* The end of acquire: what it claimed it now has. *)
LEMMA TakeGilKeeps ==
    ASSUME OwnThreads, LockIInv, NEW g \in Goids, TakeGil(g)
    PROVE  LockIInv'
  <1> DEFINE l == task[g].lock
  <1>0. Acquire(g) /\ pc[g] \in {"enter", "retake"}
    BY DEF TakeGil, Acquire, Goto
  <1>1. task[g].at \notin {"wait", "poll", "store"}
    BY <1>0 DEF LockIInv, TaskOK
  <1>2. CASE pc'[g] # "run"
    <2>1. UNCHANGED <<pc, lockVars>>
      BY <1>2 DEF TakeGil, Acquire, Goto, LockIInv, Inv, TypeOK
    <2>2. task[g].at # "" => pc'[g] \in {"blocked", "retake"}
      BY <2>1 DEF LockIInv, TaskOK
    <2> QED BY <1>0, <1>1, <2>1, <2>2, EvalOnlyKeeps DEF Step
  <1>3. CASE pc'[g] = "run"
    <2>0. /\ task' = [task EXCEPT ![g] = NoTask]
          /\ held' = IF task[g].at \in {"got", "took"} THEN [held EXCEPT ![g] = @ \cup {l}] ELSE held
          /\ flag' = IF task[g].at = "got" THEN [flag EXCEPT ![l] = TRUE] ELSE flag
          /\ mu' = mu
      BY <1>3 DEF TakeGil, Return, Gets
    <2>1. Inv'
      BY <1>0, NextInv DEF LockIInv, Next, Step
    <2>2. \A h \in Goids \ {g} : pc'[h] = pc[h]
      BY <1>0 DEF Acquire, Goto, LockIInv, Inv, TypeOK
    <2>3. /\ task'[g].at = "" /\ task'[g].lock = None
          /\ \A h \in Goids \ {g} : task'[h] = task[h]
          /\ task' \in [Goids -> [lock : Locks \cup {None}, at : Progress]]
      BY <2>0 DEF LockIInv, TaskOK, NoTask, Progress
    <2>4. TaskOK'
      BY <2>2, <2>3 DEF LockIInv, TaskOK
    <2>5. task[g].at # "" => l \in Locks
      BY DEF LockIInv, TaskOK
    <2>6. /\ held' \in [Goids -> SUBSET Locks] /\ flag' \in [Locks -> BOOLEAN]
          /\ \A h \in Goids : \A k \in Locks :
                k \in held'[h] <=> k \in held[h] \/ (h = g /\ Claims(g, k))
          /\ \A k \in Locks : flag'[k] <=> flag[k] \/ (task[g].at = "got" /\ k = l)
      BY <1>1, <2>0, <2>5 DEF LockIInv, Claims
    <2>7. \A h \in Goids : \A k \in Locks : Claims(h, k)' <=> h # g /\ Claims(h, k)
      BY <2>3 DEF Claims
    <2>8. OwnersOK'
      BY <2>0, <2>6, <2>7 DEF LockIInv, OwnersOK, Owns
    <2>9. FlagsOK'
      <3>1. \A h \in Goids : \A k \in Locks :
                task'[h].lock = k /\ task'[h].at = "took" => task[h].lock = k /\ task[h].at = "took"
        BY <2>3
      <3>2. \A k \in Locks : Claims(g, k) => mu[k] /\ (flag[k] \/ (task[g].at = "got" /\ k = l))
        BY <1>1 DEF LockIInv, OwnersOK, FlagsOK, Owns, Claims
      <3>3. task[g].at = "got" => Claims(g, l) /\ l \in Locks
        BY <2>5 DEF Claims
      <3> HIDE DEF l
      <3> QED BY <2>0, <2>6, <3>1, <3>2, <3>3 DEF LockIInv, FlagsOK
    <2> QED BY <2>0, <2>1, <2>4, <2>6, <2>8, <2>9 DEF LockIInv
  <1> QED BY <1>2, <1>3

(* Only what somebody's acquire has returned is released, so no acquire on *)
(* its way back loses the mutex it claims.                                 *)
LEMMA ReleaseKeeps ==
    ASSUME OwnThreads, Careless = {}, LockIInv, NEW g \in Goids, NEW l \in Locks, Release(g, l)
    PROVE  LockIInv'
  <1>0. /\ flag' = [flag EXCEPT ![l] = FALSE] /\ mu' = [mu EXCEPT ![l] = FALSE]
        /\ held' = [h \in Goids |-> held[h] \ {l}] /\ UNCHANGED <<evalVars, task>>
    BY DEF Release
  <1>1. PICK o \in Goids : l \in held[o]
    BY DEF Release
  <1>2. \A h \in Goids : ~Claims(h, l)
    BY <1>1 DEF LockIInv, OwnersOK, Owns
  <1>3. Inv'
    BY <1>0, NextInv DEF LockIInv
  <1>4. TaskOK'
    BY <1>0 DEF LockIInv, TaskOK, evalVars
  <1>5. /\ mu' \in [Locks -> BOOLEAN] /\ flag' \in [Locks -> BOOLEAN]
        /\ held' \in [Goids -> SUBSET Locks]
        /\ ~mu'[l] /\ ~flag'[l]
        /\ \A k \in Locks \ {l} : mu'[k] = mu[k] /\ flag'[k] = flag[k]
        /\ \A h \in Goids : \A k \in Locks : k \in held'[h] <=> k \in held[h] /\ k # l
    BY <1>0 DEF LockIInv
  <1>6. \A h \in Goids : \A k \in Locks : Claims(h, k)' <=> Claims(h, k)
    BY <1>0 DEF Claims
  <1>7. OwnersOK'
    BY <1>2, <1>5, <1>6 DEF LockIInv, OwnersOK, Owns
  <1>8. FlagsOK'
    BY <1>0, <1>2, <1>5 DEF LockIInv, FlagsOK, Claims
  <1> QED BY <1>3, <1>4, <1>5, <1>7, <1>8 DEF LockIInv

LEMMA LockNextIInv == OwnThreads /\ Careless = {} /\ LockIInv /\ [LockNext]_vars => LockIInv'
  <1> SUFFICES ASSUME OwnThreads, Careless = {}, LockIInv, [LockNext]_vars PROVE LockIInv'
    OBVIOUS
  <1>1. ASSUME NEW g \in Goids, LockStep(g) PROVE LockIInv'
    <2>0. pc[g] \in {"out", "run", "breaker"} => task[g].at = ""
      BY DEF LockIInv, TaskOK
    <2>1. CASE (Enter(g) \/ Leave(g) \/ Poll(g) \/ HandleBreaker(g) \/ BeginAllowThreads(g))
               /\ UNCHANGED lockVars
      <3>1. pc[g] \in {"out", "run", "breaker"}
        BY <2>1 DEF Enter, Leave, Poll, HandleBreaker, BeginAllowThreads, Goto
      <3> QED BY <2>0, <2>1, <3>1, EvalOnlyKeeps DEF Step
    <2>2. CASE TakeGil(g)
      BY <2>2, TakeGilKeeps
    <2>3. CASE Back(g)
      <3>1. pc[g] = "blocked" /\ pc'[g] = "retake"
        BY <2>3 DEF Back, EndAllowThreads, Goto, LockIInv, Inv, NeverPinned, TypeOK
      <3> QED BY <2>3, <3>1, EvalOnlyKeeps DEF Back, Step
    <2>4. CASE GetMutex(g) \/ StoreFlag(g) \/ TimeOut(g)
      BY <2>4, GetMutexKeeps, StoreFlagKeeps, TimeOutKeeps
    <2>5. CASE \E l \in Locks : TryAcquire(g, l) \/ Acquiring(g, l) \/ Release(g, l)
      BY <2>5, TryAcquireKeeps, AcquiringKeeps, ReleaseKeeps
    <2> QED BY <1>1, <2>1, <2>2, <2>3, <2>4, <2>5 DEF LockStep
  <1>2. CASE UNCHANGED vars
    <2>1. Inv'
      BY <1>2, NextInv DEF LockIInv, vars
    <2>2. UNCHANGED <<pc, mu, flag, task, held>>
      BY <1>2 DEF vars, evalVars, lockVars
    <2>3. TaskOK'
      BY <2>2 DEF LockIInv, TaskOK
    <2> QED BY <2>1, <2>2, <2>3, SameOwners DEF LockIInv
  <1> QED BY <1>1, <1>2 DEF LockNext

(* The inductive invariant of the locks, with that of the eval loop that   *)
(* acquires run on: who owns each mutex, and when the flag is up.          *)
THEOREM LockInvariance ==
    ASSUME OwnThreads, Careless = {}
    PROVE  LockSpec => []LockIInv
  <1>1. LockIInv /\ [LockNext]_vars => LockIInv'
    BY LockNextIInv
  <1> QED BY <1>1, LockInitIInv, PTL DEF LockSpec

(* module.go:361-420: two acquires never both have a lock; a mutex that is *)
(* taken belongs to an acquire; what acquire has returned shows as locked; *)
(* and release never unlocks a mutex that is free, which would end the     *)
(* process.                                                                *)
THEOREM LocksCorrect ==
    ASSUME OwnThreads, Careless = {}
    PROVE  LockSpec => []LocksSound
  <1>1. ASSUME LockIInv PROVE LocksSound
    <2>1. OneRuns
      BY <1>1 DEF LockIInv, Inv, OwnerOK, OneRuns, Running, HeldByGoid
    <2>2. LockTypeOK
      BY <1>1 DEF LockIInv, Inv, TaskOK, LockTypeOK
    <2>3. UnlockNeverFatal /\ HeldIsLocked
      BY <1>1 DEF LockIInv, FlagsOK, UnlockNeverFatal, HeldIsLocked
    <2>4. MutualExclusion
      BY <1>1 DEF LockIInv, OwnersOK, Owns, MutualExclusion
    <2>5. NobodyKeepsMutex
      BY <1>1 DEF LockIInv, OwnersOK, Owns, Claims, NobodyKeepsMutex
    <2> QED BY <2>1, <2>2, <2>3, <2>4, <2>5 DEF LocksSound, LockInv
  <1> QED BY <1>1, LockInvariance, PTL

-----------------------------------------------------------------------------
(* ThreadHandle, on the same eval loop, for handles that are each given to *)
(* one thread.                                                             *)

CONSTANTS Parents, Joiners, Handles, Reuse

VARIABLES life, handleOf, starting, joining, ident, done

Hd == INSTANCE ThreadHandle

HdTypes ==
    /\ life \in [Goids -> Hd!Lives]
    /\ handleOf \in [Goids -> Handles \cup {None}]
    /\ starting \in [Goids -> Goids \cup {None}]
    /\ joining \in [Goids -> [handle : Handles \cup {None}, forever : BOOLEAN]]
    /\ ident \in [Handles -> Goids \cup {None}]
    /\ done \in [Handles -> BOOLEAN]

(* What a goroutine is in the middle of, and where it is in Eval. *)
HdPlaces ==
    \A g \in Goids :
        /\ life[g] # "called" => pc[g] = "out"
        /\ starting[g] # None => pc[g] = "run"
        /\ joining[g] # Hd!NoJoin => pc[g] \in {"blocked", "retake"}
        /\ g \in Parents => life[g] = "called"

(* A handle has one thread, whose ident it has as soon as the thread has   *)
(* published it, which whoever started it waits for; and it is done when   *)
(* that thread is over.                                                    *)
HdHandles ==
    /\ \A c, d \in Goids : handleOf[c] = handleOf[d] /\ handleOf[c] # None => c = d
    /\ \A c \in Goids :
          /\ life[c] = "unborn" => handleOf[c] = None
          /\ life[c] = "born" => \E g \in Goids : starting[g] = c
          /\ life[c] \notin {"unborn", "born"} /\ handleOf[c] # None => ident[handleOf[c]] = c
    /\ \A h \in Handles : done[h] => \E c \in Goids : handleOf[c] = h /\ life[c] = "over"

HdIInv == Inv /\ HdTypes /\ HdPlaces /\ HdHandles

(* The eval loop that ThreadHandle extends is this one. *)
LEMMA HdEval ==
    /\ Hd!Init <=> Init
    /\ Hd!TypeOK <=> TypeOK
    /\ \A g : Hd!Enter(g) <=> Enter(g)
    /\ \A g : Hd!Acquire(g) <=> Acquire(g)
    /\ \A g : Hd!Leave(g) <=> Leave(g)
    /\ \A g : Hd!Poll(g) <=> Poll(g)
    /\ \A g : Hd!HandleBreaker(g) <=> HandleBreaker(g)
    /\ \A g : Hd!BeginAllowThreads(g) <=> BeginAllowThreads(g)
    /\ \A g : Hd!EndAllowThreads(g) <=> EndAllowThreads(g)
    /\ (UNCHANGED Hd!evalVars) <=> (UNCHANGED evalVars)
  <1>1. Hd!Init <=> Init
    BY Zenon DEF Hd!Init, Init, Hd!GilInit, GilInit
  <1>2. Hd!TypeOK <=> TypeOK
    BY Zenon DEF Hd!TypeOK, TypeOK, Hd!GilTypeOK, GilTypeOK, Hd!EvalPCs, EvalPCs
  <1>3. \A g, from, to : Hd!Goto(g, from, to) <=> Goto(g, from, to)
    BY Zenon DEF Hd!Goto, Goto
  <1>4. \A g : Hd!InCond(g) <=> InCond(g)
    BY Zenon DEF Hd!InCond, InCond
  <1>5. \A g : Hd!HeldByGoid(g) <=> HeldByGoid(g)
    BY Zenon DEF Hd!HeldByGoid, HeldByGoid
  <1>6. Hd!SignalOne <=> SignalOne
    BY Zenon DEF Hd!SignalOne, SignalOne
  <1>7. \A g : Hd!ReleaseGoid(g) <=> ReleaseGoid(g)
    BY Zenon, <1>5, <1>6 DEF Hd!ReleaseGoid, ReleaseGoid, Hd!gilVars, gilVars
  <1>8. \A ts, g : Hd!Wait(ts, g) <=> Wait(ts, g)
    BY Zenon, <1>4 DEF Hd!Wait, Wait
  <1>9. \A ts, g : Hd!Acquired(ts, g) <=> Acquired(ts, g)
    BY Zenon, <1>4 DEF Hd!Acquired, Acquired, Hd!AlreadyHeld, AlreadyHeld, Hd!Take, Take, Hd!gilVars, gilVars
  <1>10. \A g : Hd!Enter(g) <=> Enter(g)
    BY Zenon, <1>3 DEF Hd!Enter, Enter, Hd!gilVars, gilVars
  <1>11. \A g : Hd!Acquire(g) <=> Acquire(g)
    BY Zenon, <1>3, <1>8, <1>9 DEF Hd!Acquire, Acquire
  <1>12. \A g : Hd!Leave(g) <=> Leave(g)
    BY Zenon, <1>3, <1>7 DEF Hd!Leave, Leave
  <1>13. \A g : Hd!Poll(g) <=> Poll(g)
    BY Zenon, <1>3 DEF Hd!Poll, Poll, Hd!gilVars, gilVars
  <1>14. \A g : Hd!HandleBreaker(g) <=> HandleBreaker(g)
    BY Zenon, <1>3, <1>5, <1>7 DEF Hd!HandleBreaker, HandleBreaker
  <1>15. \A g : Hd!BeginAllowThreads(g) <=> BeginAllowThreads(g)
    BY Zenon, <1>3, <1>5, <1>7 DEF Hd!BeginAllowThreads, BeginAllowThreads
  <1>16. \A g : Hd!EndAllowThreads(g) <=> EndAllowThreads(g)
    BY Zenon, <1>3 DEF Hd!EndAllowThreads, EndAllowThreads, Hd!gilVars, gilVars
  <1>17. (UNCHANGED Hd!evalVars) <=> (UNCHANGED evalVars)
    BY Zenon DEF Hd!evalVars, evalVars, Hd!gilVars, gilVars
  <1> QED BY <1>1, <1>2, <1>10, <1>11, <1>12, <1>13, <1>14, <1>15, <1>16, <1>17

LEMMA HdInitInv ==
    ASSUME Hd!HandleAssumption
    PROVE  Hd!HandleInit => HdIInv
  <1> SUFFICES ASSUME Hd!HandleInit PROVE HdIInv
    OBVIOUS
  <1>1. Init
    BY HdEval DEF Hd!HandleInit
  <1>2. Inv
    BY <1>1, InitInv
  <1>3. HdTypes
    BY DEF Hd!HandleInit, HdTypes, Hd!Lives, Hd!NoJoin
  <1>4. HdPlaces
    BY <1>1 DEF Hd!HandleInit, HdPlaces, Init
  <1>5. HdHandles
    BY DEF Hd!HandleInit, HdHandles
  <1> QED BY <1>2, <1>3, <1>4, <1>5 DEF HdIInv

(* Steps of the eval loop by itself. *)
LEMMA HdEvalSteps ==
    ASSUME OwnThreads, Inv, NEW g \in Goids,
           \/ Enter(g) \/ Acquire(g) \/ Leave(g) \/ Poll(g) \/ HandleBreaker(g)
           \/ BeginAllowThreads(g) \/ EndAllowThreads(g)
    PROVE  Inv'
  BY NextInv DEF Next, Step

(* Where such a step takes its goroutine: who makes a blocking call gives  *)
(* the lock up.                                                            *)
LEMMA HdMoves ==
    ASSUME Inv, NEW g \in Goids,
           \/ Enter(g) \/ Acquire(g) \/ Leave(g) \/ Poll(g) \/ HandleBreaker(g)
           \/ BeginAllowThreads(g) \/ EndAllowThreads(g)
    PROVE  /\ \A h \in Goids : h # g => pc'[h] = pc[h]
           /\ Enter(g) => pc[g] = "out" /\ pc'[g] = "enter"
           /\ Acquire(g) => /\ pc[g] \in {"enter", "retake"}
                            /\ pc'[g] = "run" \/ pc'[g] = pc[g]
           /\ Leave(g) => pc[g] = "run" /\ pc'[g] = "out"
           /\ Poll(g) => pc[g] = "run" /\ pc'[g] = "breaker"
           /\ HandleBreaker(g) => pc[g] = "breaker" /\ pc'[g] = "retake"
           /\ BeginAllowThreads(g) => pc[g] = "run" /\ pc'[g] = "blocked"
           /\ EndAllowThreads(g) => pc[g] = "blocked" /\ pc'[g] = "retake"
  <1>1. /\ pc \in [Goids -> EvalPCs] /\ pc[g] # "pinned"
        /\ pc[g] \in {"run", "breaker"} => HeldByGoid(g)
    BY DEF Inv, TypeOK, NeverPinned, OwnerOK
  <1>2. \A h \in Goids : h # g => pc'[h] = pc[h]
    BY <1>1 DEF Enter, Acquire, Leave, Poll, HandleBreaker, BeginAllowThreads, EndAllowThreads, Goto
  <1>3. Enter(g) => pc[g] = "out" /\ pc'[g] = "enter"
    BY <1>1 DEF Enter, Goto
  <1>4. Acquire(g) => pc[g] \in {"enter", "retake"} /\ (pc'[g] = "run" \/ pc'[g] = pc[g])
    BY <1>1 DEF Acquire, Goto
  <1>5. Leave(g) => pc[g] = "run" /\ pc'[g] = "out"
    BY <1>1 DEF Leave, Goto
  <1>6. Poll(g) => pc[g] = "run" /\ pc'[g] = "breaker"
    BY <1>1 DEF Poll, Goto
  <1>7. HandleBreaker(g) => pc[g] = "breaker" /\ pc'[g] = "retake"
    BY <1>1 DEF HandleBreaker, Goto
  <1>8. BeginAllowThreads(g) => pc[g] = "run" /\ pc'[g] = "blocked"
    BY <1>1 DEF BeginAllowThreads, Goto
  <1>9. EndAllowThreads(g) => pc[g] = "blocked" /\ pc'[g] = "retake"
    BY <1>1 DEF EndAllowThreads, Goto
  <1> QED BY <1>2, <1>3, <1>4, <1>5, <1>6, <1>7, <1>8, <1>9

(* Steps of a goroutine that runs Python, or waits to, and of its join. *)
LEMMA HdRunning ==
    ASSUME OwnThreads, Hd!HandleAssumption, HdIInv, NEW g \in Goids,
           \/ Hd!Eval(g) \/ Hd!TakeGil(g) \/ Hd!Joined(g)
           \/ \E h \in Handles : Hd!Join(g, h)
    PROVE  HdIInv'
  <1> USE DEF HdIInv
  <1>1. UNCHANGED <<life, handleOf, starting, ident, done>>
    BY DEF Hd!Eval, Hd!TakeGil, Hd!Joined, Hd!Join, Hd!threadVars
  <1>2. HdHandles'
    BY <1>1 DEF HdHandles
  <1>3. \A h \in Goids : starting[h] # None => pc[h] = "run"
    BY DEF HdPlaces
  <1>4. CASE Hd!Eval(g)
    <2>1. /\ UNCHANGED joining
          /\ \/ g \in Parents /\ Enter(g)
             \/ Hd!Runs(g) /\ (Poll(g) \/ BeginAllowThreads(g) \/ (g \in Parents /\ Leave(g)))
             \/ HandleBreaker(g)
             \/ joining[g] = Hd!NoJoin /\ EndAllowThreads(g)
      BY <1>4, HdEval DEF Hd!Eval, Hd!threadVars
    <2>2. Inv'
      BY <2>1, HdEvalSteps
    <2>3. HdTypes'
      BY <1>1, <2>1 DEF HdTypes
    <2>4. HdPlaces'
      BY <1>1, <2>1, HdMoves DEF HdPlaces, Hd!Runs
    <2> QED BY <1>2, <2>2, <2>3, <2>4
  <1>5. CASE Hd!TakeGil(g)
    <2>1. /\ Acquire(g)
          /\ joining' = IF pc'[g] = "run" THEN [joining EXCEPT ![g] = Hd!NoJoin] ELSE joining
      BY <1>5, HdEval DEF Hd!TakeGil
    <2>2. Inv'
      BY <2>1, HdEvalSteps
    <2>3. HdTypes'
      BY <1>1, <2>1 DEF HdTypes, Hd!NoJoin
    <2>4. /\ \A h \in Goids : h # g => joining'[h] = joining[h]
          /\ pc'[g] = "run" => joining'[g] = Hd!NoJoin
          /\ pc'[g] # "run" => joining'[g] = joining[g]
      BY <2>1 DEF HdTypes
    <2>5. HdPlaces'
      BY <1>1, <2>1, <2>4, HdMoves DEF HdPlaces
    <2> QED BY <1>2, <2>2, <2>3, <2>5
  <1>6. CASE Hd!Joined(g)
    <2>1. EndAllowThreads(g) /\ UNCHANGED joining
      BY <1>6, HdEval DEF Hd!Joined, Hd!threadVars
    <2>2. Inv'
      BY <2>1, HdEvalSteps
    <2>3. HdTypes'
      BY <1>1, <2>1 DEF HdTypes
    <2>4. HdPlaces'
      BY <1>1, <2>1, HdMoves DEF HdPlaces
    <2> QED BY <1>2, <2>2, <2>3, <2>4
  <1>7. ASSUME NEW h \in Handles, Hd!Join(g, h)
        PROVE  HdIInv'
    <2>1. PICK forever \in BOOLEAN :
              joining' = [joining EXCEPT ![g] = [handle |-> h, forever |-> forever]]
      BY <1>7 DEF Hd!Join
    <2>2. Hd!Runs(g) /\ BeginAllowThreads(g)
      BY <1>7, HdEval DEF Hd!Join
    <2>3. Inv'
      BY <2>2, HdEvalSteps
    <2>4. HdTypes'
      BY <1>1, <2>1 DEF HdTypes
    <2>5. \A c \in Goids : c # g => joining'[c] = joining[c]
      BY <2>1 DEF HdTypes
    <2>6. HdPlaces'
      BY <1>1, <2>2, <2>5, HdMoves DEF HdPlaces, Hd!Runs
    <2> QED BY <1>2, <2>3, <2>4, <2>6
  <1> QED BY <1>4, <1>5, <1>6, <1>7

(* A thread is started. *)
LEMMA HdStarting ==
    ASSUME Hd!HandleAssumption, ~Reuse, HdIInv, NEW g \in Goids,
           \/ \E c \in Goids, h \in Handles \cup {None} : Hd!Start(g, c, h)
           \/ Hd!ReceiveIdent(g)
    PROVE  HdIInv'
  <1> USE DEF HdIInv
  <1>1. UNCHANGED evalVars /\ UNCHANGED <<joining, ident, done>>
    BY HdEval DEF Hd!Start, Hd!ReceiveIdent
  <1>2. Inv' /\ UNCHANGED pc
    <2>1. UNCHANGED <<gilVars, pc, armed>>
      BY <1>1 DEF evalVars
    <2> QED BY <2>1 DEF gilVars, Inv, TypeOK, GilTypeOK, CondOK, InCond, OwnerOK,
                HeldByGoid, NeverPinned, NoLostSignal, ArmedYields, Running
  <1>3. ASSUME NEW c \in Goids, NEW h \in Handles \cup {None}, Hd!Start(g, c, h)
        PROVE  HdIInv'
    <2>1. /\ pc[g] = "run" /\ starting[g] = None /\ life[c] = "unborn"
          /\ life' = [life EXCEPT ![c] = "born"] /\ handleOf' = [handleOf EXCEPT ![c] = h]
          /\ starting' = [starting EXCEPT ![g] = c]
          /\ h # None => \A d \in Goids : handleOf[d] # h
      BY <1>3 DEF Hd!Start, Hd!Runs, Hd!Moves, Hd!Started
    <2>2. HdTypes'
      BY <1>1, <2>1 DEF HdTypes, Hd!Lives
    <2>3. /\ life'[c] = "born" /\ handleOf'[c] = h /\ starting'[g] = c
          /\ \A d \in Goids : d # c => life'[d] = life[d] /\ handleOf'[d] = handleOf[d]
          /\ \A d \in Goids : d # g => starting'[d] = starting[d]
      BY <2>1 DEF HdTypes
    <2>4. HdPlaces'
      BY <1>1, <1>2, <2>1, <2>3, GilAssumption DEF HdPlaces
    <2>5. \A a, b \in Goids : handleOf'[a] = handleOf'[b] /\ handleOf'[a] # None => a = b
      BY <2>1, <2>3 DEF HdHandles
    <2>6. \A d \in Goids : life'[d] = "born" => \E e \in Goids : starting'[e] = d
      <3> SUFFICES ASSUME NEW d \in Goids, life'[d] = "born" PROVE \E e \in Goids : starting'[e] = d
        OBVIOUS
      <3>1. CASE d = c
        BY <2>3, <3>1
      <3>2. CASE d # c
        <4>1. PICK e \in Goids : starting[e] = d
          BY <2>3, <3>2 DEF HdHandles
        <4>2. e # g
          BY <2>1, <4>1, GilAssumption
        <4> QED BY <2>3, <4>1, <4>2
      <3> QED BY <3>1, <3>2
    <2>7. \A d \in Goids :
              /\ life'[d] = "unborn" => handleOf'[d] = None
              /\ life'[d] \notin {"unborn", "born"} /\ handleOf'[d] # None => ident[handleOf'[d]] = d
      BY <2>3 DEF HdHandles
    <2>8. \A k \in Handles : done[k] => \E d \in Goids : handleOf'[d] = k /\ life'[d] = "over"
      BY <2>1, <2>3 DEF HdHandles
    <2>9. HdHandles'
      BY <1>1, <2>5, <2>6, <2>7, <2>8 DEF HdHandles
    <2> QED BY <1>2, <2>2, <2>4, <2>9
  <1>4. CASE Hd!ReceiveIdent(g)
    <2>1. /\ life[starting[g]] \notin {"unborn", "born"} /\ starting' = [starting EXCEPT ![g] = None]
          /\ UNCHANGED <<life, handleOf>>
      BY <1>4 DEF Hd!ReceiveIdent
    <2>2. HdTypes'
      BY <1>1, <2>1 DEF HdTypes
    <2>3. starting'[g] = None /\ \A d \in Goids : d # g => starting'[d] = starting[d]
      BY <2>1 DEF HdTypes
    <2>4. HdPlaces'
      BY <1>1, <1>2, <2>1, <2>3 DEF HdPlaces
    <2>5. \A d \in Goids : life[d] = "born" => \E e \in Goids : starting'[e] = d
      BY <2>1, <2>3 DEF HdHandles
    <2>6. HdHandles'
      BY <1>1, <2>1, <2>5 DEF HdHandles
    <2> QED BY <1>2, <2>2, <2>4, <2>6
  <1> QED BY <1>3, <1>4

(* The started goroutine, around its function. *)
LEMMA HdThread ==
    ASSUME OwnThreads, Hd!HandleAssumption, HdIInv, NEW c \in Goids,
           Hd!Publish(c) \/ Hd!CallFunction(c) \/ Hd!Return(c) \/ Hd!SetDone(c)
    PROVE  HdIInv'
  <1> USE DEF HdIInv
  <1>1. UNCHANGED <<handleOf, starting, joining>>
    BY DEF Hd!Publish, Hd!CallFunction, Hd!Return, Hd!SetDone
  <1>2. ASSUME UNCHANGED evalVars PROVE Inv' /\ UNCHANGED pc
    <2>1. UNCHANGED <<gilVars, pc, armed>>
      BY <1>2 DEF evalVars
    <2> QED BY <2>1 DEF gilVars, Inv, TypeOK, GilTypeOK, CondOK, InCond, OwnerOK,
                HeldByGoid, NeverPinned, NoLostSignal, ArmedYields, Running
  <1>3. CASE Hd!Publish(c)
    <2>1. /\ life[c] = "born" /\ life' = [life EXCEPT ![c] = "known"] /\ UNCHANGED done
          /\ ident' = IF handleOf[c] = None THEN ident ELSE [ident EXCEPT ![handleOf[c]] = c]
          /\ UNCHANGED evalVars
      BY <1>3, HdEval DEF Hd!Publish, Hd!Moves
    <2>2. HdTypes'
      BY <1>1, <2>1 DEF HdTypes, Hd!Lives
    <2>3. life'[c] = "known" /\ \A d \in Goids : d # c => life'[d] = life[d]
      BY <2>1 DEF HdTypes
    <2>4. HdPlaces'
      BY <1>1, <1>2, <2>1, <2>3 DEF HdPlaces
    <2>5. \A d \in Goids : life'[d] \notin {"unborn", "born"} /\ handleOf[d] # None => ident'[handleOf[d]] = d
      <3> SUFFICES ASSUME NEW d \in Goids, life'[d] \notin {"unborn", "born"}, handleOf[d] # None
                   PROVE  ident'[handleOf[d]] = d
        OBVIOUS
      <3>1. handleOf[d] \in Handles /\ DOMAIN ident = Handles
        BY DEF HdTypes
      <3>2. CASE d = c
        BY <2>1, <3>1, <3>2
      <3>3. CASE d # c
        <4>1. ident[handleOf[d]] = d /\ handleOf[d] # handleOf[c]
          BY <2>3, <3>3 DEF HdHandles
        <4> QED BY <2>1, <3>1, <4>1
      <3> QED BY <3>2, <3>3
    <2>6. HdHandles'
      BY <1>1, <2>1, <2>3, <2>5 DEF HdHandles
    <2> QED BY <1>2, <2>1, <2>2, <2>4, <2>6
  <1>4. CASE Hd!CallFunction(c)
    <2>1. /\ c \notin Parents /\ Enter(c) /\ life[c] = "known"
          /\ life' = [life EXCEPT ![c] = "called"] /\ UNCHANGED <<ident, done>>
      BY <1>4, HdEval DEF Hd!CallFunction, Hd!Moves
    <2>2. Inv'
      BY <2>1, HdEvalSteps
    <2>3. HdTypes'
      BY <1>1, <2>1 DEF HdTypes, Hd!Lives
    <2>4. life'[c] = "called" /\ \A d \in Goids : d # c => life'[d] = life[d]
      BY <2>1 DEF HdTypes
    <2>5. HdPlaces'
      BY <1>1, <2>1, <2>4, HdMoves DEF HdPlaces
    <2>6. HdHandles'
      BY <1>1, <2>1, <2>4 DEF HdHandles
    <2> QED BY <2>2, <2>3, <2>5, <2>6
  <1>5. CASE Hd!Return(c)
    <2>1. /\ c \notin Parents /\ Leave(c) /\ life[c] = "called" /\ pc[c] = "run" /\ starting[c] = None
          /\ life' = [life EXCEPT ![c] = "returned"] /\ UNCHANGED <<ident, done>>
      BY <1>5, HdEval DEF Hd!Return, Hd!Moves, Hd!Runs
    <2>2. Inv'
      BY <2>1, HdEvalSteps
    <2>3. HdTypes'
      BY <1>1, <2>1 DEF HdTypes, Hd!Lives
    <2>4. life'[c] = "returned" /\ \A d \in Goids : d # c => life'[d] = life[d]
      BY <2>1 DEF HdTypes
    <2>5. HdPlaces'
      BY <1>1, <2>1, <2>4, HdMoves DEF HdPlaces
    <2>6. HdHandles'
      BY <1>1, <2>1, <2>4 DEF HdHandles
    <2> QED BY <2>2, <2>3, <2>5, <2>6
  <1>6. CASE Hd!SetDone(c)
    <2>1. /\ life[c] = "returned" /\ life' = [life EXCEPT ![c] = "over"] /\ UNCHANGED ident
          /\ done' = IF handleOf[c] = None THEN done ELSE [done EXCEPT ![handleOf[c]] = TRUE]
          /\ UNCHANGED evalVars
      BY <1>6, HdEval DEF Hd!SetDone, Hd!Moves
    <2>2. HdTypes'
      BY <1>1, <2>1 DEF HdTypes, Hd!Lives
    <2>3. life'[c] = "over" /\ \A d \in Goids : d # c => life'[d] = life[d]
      BY <2>1 DEF HdTypes
    <2>4. HdPlaces'
      BY <1>1, <1>2, <2>1, <2>3 DEF HdPlaces
    <2>5. \A h \in Handles : done'[h] => done[h] \/ h = handleOf[c]
      BY <2>1 DEF HdTypes
    <2>6. \A h \in Handles : done'[h] => \E d \in Goids : handleOf[d] = h /\ life'[d] = "over"
      BY <2>1, <2>3, <2>5 DEF HdHandles
    <2>7. HdHandles'
      BY <1>1, <2>1, <2>3, <2>6 DEF HdHandles
    <2> QED BY <1>2, <2>1, <2>2, <2>4, <2>7
  <1> QED BY <1>3, <1>4, <1>5, <1>6

LEMMA HdNextInv ==
    ASSUME OwnThreads, Hd!HandleAssumption, ~Reuse
    PROVE  HdIInv /\ [Hd!HandleNext]_(Hd!vars) => HdIInv'
  <1> SUFFICES ASSUME HdIInv, [Hd!HandleNext]_(Hd!vars) PROVE HdIInv'
    OBVIOUS
  <1>1. CASE Hd!HandleNext
    <2>1. PICK g \in Goids : Hd!HandleStep(g)
      BY <1>1 DEF Hd!HandleNext
    <2> QED BY <2>1, HdRunning, HdStarting, HdThread DEF Hd!HandleStep
  <1>2. CASE UNCHANGED Hd!vars
    <2>1. UNCHANGED <<gilVars, pc, armed, life, handleOf, starting, joining, ident, done>>
      BY <1>2, HdEval DEF Hd!vars, Hd!threadVars, evalVars
    <2>2. Inv'
      BY <2>1 DEF HdIInv, gilVars, Inv, TypeOK, GilTypeOK, CondOK, InCond, OwnerOK,
         HeldByGoid, NeverPinned, NoLostSignal, ArmedYields, Running
    <2> QED BY <2>1, <2>2 DEF HdIInv, HdTypes, HdPlaces, HdHandles
  <1> QED BY <1>1, <1>2

(* The inductive invariant of thread handles, for any number of goroutines *)
(* and handles, none of which is given to a second thread.                 *)
THEOREM HandleInvariance ==
    ASSUME OwnThreads, Hd!HandleAssumption, ~Reuse
    PROVE  Hd!HandleSpec => []HdIInv
  <1>1. Hd!HandleInit => HdIInv
    BY HdInitInv
  <1>2. HdIInv /\ [Hd!HandleNext]_(Hd!vars) => HdIInv'
    BY HdNextInv
  <1> QED BY <1>1, <1>2, PTL DEF Hd!HandleSpec

(* handle.go:81-85: what a handle tells is true of the thread it was       *)
(* started with: its ident once start has returned, done when it is over.  *)
THEOREM HandlesCorrect ==
    ASSUME OwnThreads, Hd!HandleAssumption, ~Reuse
    PROVE  Hd!HandleSpec => []Hd!HandleInv
  <1>1. HdIInv => Hd!HandleInv
    <2> SUFFICES ASSUME HdIInv PROVE Hd!HandleInv
      OBVIOUS
    <2>1. Hd!HandleTypeOK
      BY HdEval DEF HdIInv, Inv, HdTypes, HdPlaces, Hd!HandleTypeOK
    <2>2. Hd!IdentIsKnown
      BY DEF HdIInv, HdTypes, HdHandles, Hd!IdentIsKnown, Hd!Lives
    <2>3. Hd!DoneMeansOver
      BY DEF HdIInv, HdTypes, HdHandles, Hd!DoneMeansOver, Hd!Alive, Hd!HandleAssumption
    <2> QED BY <2>1, <2>2, <2>3 DEF Hd!HandleInv
  <1> QED BY <1>1, HandleInvariance, PTL

-----------------------------------------------------------------------------
(* DictLock, for any depth.  Goroutines run for threads of their own, and  *)
(* no thread's id is a goroutine's number (Identities): a dict's owner     *)
(* tells who it is.  DIInv adds two parts to the properties.  PlacesOK: a  *)
(* bare goroutine that is in Eval is inside an operation that it began     *)
(* outside, and goes back there to end it.  ListsOK: who is on a dict's    *)
(* list wants that dict, is there once, and has not been signalled.        *)

Identities ==
    /\ \A g, h \in Goids : ThreadOf[g] = ThreadOf[h] => g = h
    /\ Threads \cap Goids = {}
    /\ Bare \subseteq Goids
    /\ None \notin Dicts
    /\ MaxNest \in Nat

Operation == [dict : Dicts, by : Threads \cup Bare]

DTypes ==
    /\ pc \in [Goids -> EvalPCs]
    /\ owner \in [Dicts -> Threads \cup Bare \cup {None}]
    /\ depth \in [Dicts -> Nat]
    /\ waiting \in [Dicts -> Seq(Goids)]
    /\ signalled \subseteq Goids
    /\ wants \in [Goids -> Dicts \cup {None}]
    /\ inside \in [Goids -> Seq(Operation)]
    /\ \A g \in Goids : Len(inside[g]) <= MaxNest

PlacesOK ==
    /\ \A g \in Goids : wants[g] # None =>
          Len(inside[g]) < MaxNest /\ (pc[g] = "run" \/ (g \in Bare /\ pc[g] = "out"))
    /\ \A g \in Bare : IF inside[g] = << >> THEN pc[g] = "out" ELSE inside[g][1].by = g

ListsOK ==
    /\ \A d \in Dicts : \A i \in 1 .. Len(waiting[d]) :
          wants[waiting[d][i]] = d /\ waiting[d][i] \notin signalled
    /\ \A d \in Dicts : \A i, j \in 1 .. Len(waiting[d]) :
          waiting[d][i] = waiting[d][j] => i = j
    /\ \A g \in Goids :
          wants[g] # None <=> g \in signalled \/ \E d \in Dicts : InSeq(g, waiting[d])

DIInv == DTypes /\ PlacesOK /\ ListsOK /\ OneInside /\ NobodyForgotten

-----------------------------------------------------------------------------

LEMMA DictInitDIInv == ASSUME Identities PROVE DictInit => DIInv
  <1> SUFFICES ASSUME DictInit PROVE DIInv
    OBVIOUS
  <1>1. /\ pc = [g \in Goids |-> "out"] /\ signalled = {}
        /\ owner = [d \in Dicts |-> None] /\ depth = [d \in Dicts |-> 0]
        /\ waiting = [d \in Dicts |-> << >>]
        /\ wants = [g \in Goids |-> None] /\ inside = [g \in Goids |-> << >>]
    BY DEF DictInit, Init
  <1>2. DTypes
    BY <1>1 DEF DTypes, EvalPCs, Identities
  <1>3. PlacesOK /\ NobodyForgotten
    BY <1>1 DEF PlacesOK, NobodyForgotten, Identities
  <1>4. ListsOK
    BY <1>1 DEF ListsOK, InSeq
  <1>5. OneInside
    BY <1>1 DEF OneInside, Levels
  <1> QED BY <1>2, <1>3, <1>4, <1>5 DEF DIInv

(* Each of the invariant's parts is about some of the variables.           *)
LEMMA SameInside ==
    ASSUME OneInside, UNCHANGED <<owner, depth, inside>>
    PROVE  OneInside'
  <1>1. \A g, d : Levels(g, d)' = Levels(g, d)
    BY DEF Levels
  <1> QED BY <1>1 DEF OneInside

LEMMA SameLists ==
    ASSUME ListsOK, UNCHANGED <<waiting, signalled, wants>>
    PROVE  ListsOK'
  BY DEF ListsOK, InSeq

(* The levels of a goroutine in a dict are some of its operations. *)
LEMMA LevelsFinite ==
    ASSUME DTypes, NEW g \in Goids, NEW d \in Dicts
    PROVE  /\ Levels(g, d) \in SUBSET (1 .. Len(inside[g]))
           /\ IsFiniteSet(Levels(g, d)) /\ Cardinality(Levels(g, d)) \in Nat
  <1>1. 1 \in Nat /\ Len(inside[g]) \in Nat
    BY DEF DTypes
  <1>2. IsFiniteSet(1 .. Len(inside[g]))
    BY <1>1, FS_Interval
  <1>3. Levels(g, d) \in SUBSET (1 .. Len(inside[g]))
    BY DEF Levels
  <1>4. IsFiniteSet(Levels(g, d))
    BY <1>2, <1>3, FS_Subset
  <1> QED BY <1>3, <1>4, FS_CardinalityType

(* What is at the ends of a sequence that grows or shrinks by one. *)
LEMMA Longer ==
    ASSUME NEW S, NEW s \in Seq(S), NEW e \in S
    PROVE  /\ Append(s, e) \in Seq(S) /\ Len(s) \in Nat /\ Len(Append(s, e)) = Len(s) + 1
           /\ Append(s, e)[Len(s) + 1] = e
           /\ \A i \in 1 .. Len(s) : Append(s, e)[i] = s[i]
  OBVIOUS

LEMMA WithoutFirst ==
    ASSUME NEW S, NEW s \in Seq(S), s # << >>
    PROVE  /\ Len(s) \in Nat /\ Len(s) >= 1 /\ Head(s) = s[1] /\ Head(s) \in S
           /\ Tail(s) \in Seq(S) /\ Len(Tail(s)) = Len(s) - 1
           /\ \A i \in 1 .. Len(s) - 1 : i + 1 \in 1 .. Len(s) /\ Tail(s)[i] = s[i + 1]
  OBVIOUS

LEMMA WithoutLast ==
    ASSUME NEW S, NEW s \in Seq(S), s # << >>
    PROVE  /\ Len(s) \in Nat /\ Len(s) >= 1 /\ s[Len(s)] \in S
           /\ SubSeq(s, 1, Len(s) - 1) \in Seq(S)
           /\ Len(SubSeq(s, 1, Len(s) - 1)) = Len(s) - 1
           /\ \A i \in 1 .. Len(s) - 1 : SubSeq(s, 1, Len(s) - 1)[i] = s[i]
  <1>1. Len(s) \in Nat /\ Len(s) >= 1 /\ s[Len(s)] \in S
    <2>1. Len(s) \in Nat /\ Len(s) # 0
      OBVIOUS
    <2>2. Len(s) \in 1 .. Len(s)
      BY <2>1
    <2> QED BY <2>1, <2>2
  <1>2. ASSUME NEW i \in 1 .. Len(s)
        PROVE  /\ SubSeq(s, 1, i - 1) \in Seq(S) /\ Len(SubSeq(s, 1, i - 1)) = i - 1
               /\ \A j \in 1 .. i - 1 : SubSeq(s, 1, i - 1)[j] = s[j]
    OBVIOUS
  <1>3. Len(s) \in 1 .. Len(s)
    BY <1>1
  <1> QED BY <1>1, <1>2, <1>3

(* An operation begins. *)
LEMMA EntersEffect ==
    ASSUME DTypes, NEW g \in Goids, NEW d \in Dicts, Enters(g, d),
           Self(g) \in Threads \cup Bare, Len(inside[g]) < MaxNest, MaxNest \in Nat
    PROVE  /\ inside' \in [Goids -> Seq(Operation)]
           /\ \A h \in Goids : Len(inside'[h]) <= MaxNest
           /\ \A h \in Goids : h # g => inside'[h] = inside[h]
           /\ inside'[g] # << >> /\ inside'[g][1].by = IF inside[g] = << >> THEN Self(g) ELSE inside[g][1].by
           /\ \A h \in Goids : \A c \in Dicts : h # g \/ c # d => Levels(h, c)' = Levels(h, c)
           /\ Levels(g, d)' # {}
           /\ Cardinality(Levels(g, d)') = Cardinality(Levels(g, d)) + 1
  <1> DEFINE e == [dict |-> d, by |-> Self(g)]
             n == Len(inside[g])
  <1>0. e \in Operation
    BY DEF Operation
  <1> HIDE DEF e
  <1>1. /\ inside \in [Goids -> Seq(Operation)] /\ n \in Nat /\ inside[g] \in Seq(Operation)
        /\ \A h \in Goids : Len(inside[h]) <= MaxNest
    BY DEF DTypes
  <1>2. inside' = [inside EXCEPT ![g] = Append(inside[g], e)]
    BY DEF Enters, e
  <1>3. e.dict = d /\ e.by = Self(g)
    BY DEF e
  <1>4. PICK s \in Seq(Operation) : s = Append(inside[g], e)
    BY <1>0, <1>1, Longer
  <1>5. /\ Len(s) = n + 1 /\ s[n + 1] = e /\ \A i \in 1 .. n : s[i] = inside[g][i]
        /\ inside'[g] = s /\ \A h \in Goids : h # g => inside'[h] = inside[h]
    BY <1>0, <1>1, <1>2, <1>4, Longer
  <1>6. /\ inside' \in [Goids -> Seq(Operation)]
        /\ \A h \in Goids : Len(inside'[h]) <= MaxNest
    <2>1. inside' \in [Goids -> Seq(Operation)]
      BY <1>1, <1>2, <1>4
    <2>2. Len(s) <= MaxNest
      BY <1>1, <1>5
    <2> QED BY <1>1, <1>5, <2>1, <2>2
  <1>7. inside'[g] # << >>
    BY <1>1, <1>5
  <1>8. inside'[g][1].by = IF inside[g] = << >> THEN Self(g) ELSE inside[g][1].by
    <2>1. CASE inside[g] = << >>
      <3>1. n = 0
        BY <2>1
      <3> QED BY <1>3, <1>5, <2>1, <3>1
    <2>2. CASE inside[g] # << >>
      <3>1. 1 \in 1 .. n
        BY <1>1, <2>2
      <3> QED BY <1>5, <2>2, <3>1
    <2> QED BY <2>1, <2>2
  <1>9. \A h \in Goids : \A c \in Dicts : h # g => Levels(h, c)' = Levels(h, c)
    BY <1>5 DEF Levels
  <1>10. \A i \in 1 .. Len(s) : i \in 1 .. n \/ i = n + 1
    BY <1>1, <1>5
  <1>11. \A i \in 1 .. n : i \in 1 .. Len(s)
    BY <1>1, <1>5
  <1>12. n + 1 \in 1 .. Len(s) /\ n + 1 \notin 1 .. n
    BY <1>1, <1>5
  <1>13. ASSUME NEW c \in Dicts, c # d PROVE Levels(g, c)' = Levels(g, c)
    BY <1>3, <1>5, <1>10, <1>11, <1>13 DEF Levels
  <1>14. Levels(g, d)' = Levels(g, d) \cup {n + 1} /\ n + 1 \notin Levels(g, d)
    BY <1>3, <1>5, <1>10, <1>11, <1>12 DEF Levels
  <1>15. IsFiniteSet(Levels(g, d))
    BY LevelsFinite
  <1>16. Cardinality(Levels(g, d)') = Cardinality(Levels(g, d)) + 1
    BY <1>14, <1>15, FS_AddElement
  <1> QED BY <1>5, <1>6, <1>7, <1>8, <1>9, <1>13, <1>14, <1>16

(* An operation ends. *)
LEMMA LeavesEffect ==
    ASSUME DTypes, NEW g \in Goids, inside[g] # << >>,
           inside' = [inside EXCEPT ![g] = SubSeq(@, 1, Len(@) - 1)],
           NEW d, d = Innermost(g).dict, MaxNest \in Nat
    PROVE  /\ d \in Dicts /\ Innermost(g).by \in Threads \cup Bare
           /\ inside' \in [Goids -> Seq(Operation)]
           /\ \A h \in Goids : Len(inside'[h]) <= MaxNest
           /\ \A h \in Goids : h # g => inside'[h] = inside[h]
           /\ IF inside'[g] = << >> THEN Innermost(g) = inside[g][1]
              ELSE inside'[g][1] = inside[g][1]
           /\ Levels(g, d) # {}
           /\ Cardinality(Levels(g, d)') = Cardinality(Levels(g, d)) - 1
           /\ Cardinality(Levels(g, d)) = 1 <=> Levels(g, d)' = {}
  <1> DEFINE n == Len(inside[g])
  <1>1. /\ inside \in [Goids -> Seq(Operation)] /\ inside[g] \in Seq(Operation)
        /\ \A h \in Goids : Len(inside[h]) <= MaxNest
    BY DEF DTypes
  <1>2. PICK s \in Seq(Operation) : s = SubSeq(inside[g], 1, n - 1)
    BY <1>1, WithoutLast
  <1>3. /\ n \in Nat /\ n >= 1 /\ Len(s) = n - 1 /\ \A i \in 1 .. n - 1 : s[i] = inside[g][i]
        /\ inside[g][n] \in Operation
    BY <1>1, <1>2, WithoutLast
  <1>4. inside'[g] = s /\ \A h \in Goids : h # g => inside'[h] = inside[h]
    BY <1>1, <1>2
  <1>5. Innermost(g) = inside[g][n] /\ Levels(g, d) = {i \in 1 .. n : inside[g][i].dict = d}
    BY DEF Innermost, Levels
  <1> HIDE DEF n
  <1>6. d \in Dicts /\ Innermost(g).by \in Threads \cup Bare
    BY <1>3, <1>5 DEF Operation
  <1>7. inside' \in [Goids -> Seq(Operation)]
    BY <1>1, <1>2
  <1>8. \A h \in Goids : Len(inside'[h]) <= MaxNest
    <2>2. n <= MaxNest
      BY <1>1 DEF n
    <2>3. Len(s) <= MaxNest
      BY <1>3, <2>2
    <2> QED BY <1>1, <1>4, <2>3
  <1>9. IF inside'[g] = << >> THEN Innermost(g) = inside[g][1]
        ELSE inside'[g][1] = inside[g][1]
    <2>1. CASE n = 1
      <3>1. inside'[g] = << >>
        BY <1>3, <1>4, <2>1
      <3> QED BY <1>5, <2>1, <3>1
    <2>2. CASE n # 1
      <3>1. 1 \in 1 .. n - 1 /\ Len(s) # 0
        BY <1>3, <2>2
      <3>2. s[1] = inside[g][1] /\ s # << >>
        BY <1>3, <3>1
      <3> QED BY <1>4, <3>2
    <2> QED BY <2>1, <2>2
  <1>10. \A i \in 1 .. Len(s) : i \in 1 .. n /\ i # n /\ s[i] = inside[g][i]
    BY <1>3
  <1>11. \A i \in 1 .. n : i = n \/ i \in 1 .. Len(s)
    BY <1>3
  <1>12. n \in 1 .. n
    BY <1>3
  <1>13. n \in Levels(g, d) /\ Levels(g, d)' = Levels(g, d) \ {n}
    <2>1. n \in Levels(g, d)
      BY <1>5, <1>12
    <2>2. Levels(g, d)' = Levels(g, d) \ {n}
      BY <1>4, <1>10, <1>11 DEF Levels, n
    <2> QED BY <2>1, <2>2
  <1>14. IsFiniteSet(Levels(g, d)) /\ Cardinality(Levels(g, d)) \in Nat
    BY <1>6, LevelsFinite
  <1>15. /\ IsFiniteSet(Levels(g, d)')
         /\ Cardinality(Levels(g, d)') = Cardinality(Levels(g, d)) - 1
    <2>1. PICK L : L = Levels(g, d)
      OBVIOUS
    <2>2. IsFiniteSet(L \ {n}) /\ Cardinality(L \ {n}) = Cardinality(L) - 1
      BY <1>13, <1>14, <2>1, FS_RemoveElement
    <2> QED BY <1>13, <2>1, <2>2
  <1>16. Cardinality(Levels(g, d)') = 0 <=> Levels(g, d)' = {}
    BY <1>15, FS_EmptySet
  <1>17. Cardinality(Levels(g, d)) = 1 <=> Cardinality(Levels(g, d)') = 0
    BY <1>14, <1>15
  <1> QED BY <1>4, <1>6, <1>7, <1>8, <1>9, <1>13, <1>15, <1>16, <1>17

(* To the other dicts it is as if nothing had happened. *)
LEMMA LeavesOthers ==
    ASSUME DTypes, NEW g \in Goids, inside[g] # << >>,
           inside' = [inside EXCEPT ![g] = SubSeq(@, 1, Len(@) - 1)],
           NEW c \in Dicts, c # Innermost(g).dict
    PROVE  Levels(g, c)' = Levels(g, c)
  <1> DEFINE n == Len(inside[g])
  <1>1. inside \in [Goids -> Seq(Operation)] /\ inside[g] \in Seq(Operation)
    BY DEF DTypes
  <1>2. PICK s \in Seq(Operation) : s = SubSeq(inside[g], 1, n - 1)
    BY <1>1, WithoutLast
  <1>3. /\ n \in Nat /\ n >= 1 /\ Len(s) = n - 1 /\ \A i \in 1 .. n - 1 : s[i] = inside[g][i]
        /\ inside'[g] = s
    BY <1>1, <1>2, WithoutLast
  <1>4. inside[g][n].dict # c
    BY DEF Innermost
  <1> HIDE DEF n
  <1>5. \A i \in 1 .. Len(s) : i \in 1 .. n /\ s[i] = inside[g][i]
    BY <1>3
  <1>6. \A i \in 1 .. n : i = n \/ i \in 1 .. Len(s)
    BY <1>3
  <1> QED BY <1>3, <1>4, <1>5, <1>6 DEF Levels, n

-----------------------------------------------------------------------------

(* g goes to the end of d's list. *)
LEMMA WaitForLists ==
    ASSUME DTypes, ListsOK, NEW g \in Goids, NEW d \in Dicts, None \notin Dicts,
           \A c \in Dicts : ~InSeq(g, waiting[c]),
           waiting' = [waiting EXCEPT ![d] = Append(@, g)],
           wants' = [wants EXCEPT ![g] = d],
           signalled' = signalled \ {g}
    PROVE  ListsOK' /\ waiting' \in [Dicts -> Seq(Goids)]
  <1>1. waiting \in [Dicts -> Seq(Goids)] /\ wants \in [Goids -> Dicts \cup {None}]
    BY DEF DTypes
  <1>2. PICK s \in Seq(Goids) : s = Append(waiting[d], g)
    BY <1>1, Longer
  <1>3. /\ Len(waiting[d]) \in Nat /\ Len(s) = Len(waiting[d]) + 1
        /\ s[Len(waiting[d]) + 1] = g
        /\ \A i \in 1 .. Len(waiting[d]) : s[i] = waiting[d][i]
    BY <1>1, <1>2, Longer
  <1>4. waiting'[d] = s /\ \A c \in Dicts : c # d => waiting'[c] = waiting[c]
    BY <1>1, <1>2
  <1>5. wants'[g] = d /\ \A h \in Goids : h # g => wants'[h] = wants[h]
    BY <1>1
  <1>6. \A i \in 1 .. Len(s) : i \in 1 .. Len(waiting[d]) \/ i = Len(waiting[d]) + 1
    BY <1>3
  <1>7. \A c \in Dicts : \A i \in 1 .. Len(waiting[c]) : waiting[c][i] # g /\ waiting[c][i] \in Goids
    <2>1. \A c \in Dicts : \A i \in 1 .. Len(waiting[c]) : waiting[c][i] \in Goids
      BY <1>1
    <2> QED BY <2>1 DEF InSeq
  <1>8. ASSUME NEW c \in Dicts, NEW i \in 1 .. Len(waiting'[c])
        PROVE  wants'[waiting'[c][i]] = c /\ waiting'[c][i] \notin signalled'
    <2>1. CASE c # d
      BY <1>4, <1>5, <1>7, <1>8, <2>1 DEF ListsOK
    <2>2. CASE c = d /\ i \in 1 .. Len(waiting[d])
      BY <1>3, <1>4, <1>5, <1>7, <2>2 DEF ListsOK
    <2>3. CASE c = d /\ i = Len(waiting[d]) + 1
      BY <1>3, <1>4, <1>5, <2>3
    <2> QED BY <1>4, <1>6, <1>8, <2>1, <2>2, <2>3
  <1>9. ASSUME NEW c \in Dicts, NEW i \in 1 .. Len(waiting'[c]),
               NEW j \in 1 .. Len(waiting'[c]),
               waiting'[c][i] = waiting'[c][j]
        PROVE  i = j
    <2>1. CASE c # d
      BY <1>4, <1>9, <2>1 DEF ListsOK
    <2>2. CASE c = d
      <3>1. \A k, l \in 1 .. Len(waiting[d]) : waiting[d][k] = waiting[d][l] => k = l
        BY DEF ListsOK
      <3> QED BY <1>3, <1>4, <1>6, <1>7, <1>9, <2>2, <3>1
    <2> QED BY <2>1, <2>2
  <1>10. ASSUME NEW h \in Goids
         PROVE  wants'[h] # None <=> h \in signalled' \/ \E c \in Dicts : InSeq(h, waiting'[c])
    <2>1. InSeq(g, waiting'[d])
      <3>1. Len(waiting[d]) + 1 \in 1 .. Len(s)
        BY <1>3
      <3> QED BY <1>3, <1>4, <3>1 DEF InSeq
    <2>2. ASSUME NEW c \in Dicts, h # g PROVE InSeq(h, waiting'[c]) <=> InSeq(h, waiting[c])
      <3>1. CASE c # d
        BY <1>4, <3>1
      <3>2. CASE c = d
        <4>1. \A i \in 1 .. Len(waiting[d]) : i \in 1 .. Len(s)
          BY <1>3
        <4> QED BY <1>3, <1>4, <1>6, <2>2, <3>2, <4>1 DEF InSeq
      <3> QED BY <3>1, <3>2
    <2>3. CASE h = g
      BY <1>5, <2>1, <2>3
    <2>4. CASE h # g
      BY <1>5, <2>2, <2>4 DEF ListsOK
    <2> QED BY <2>3, <2>4
  <1> QED BY <1>1, <1>2, <1>8, <1>9, <1>10 DEF ListsOK

(* The first on d's list is signalled. *)
LEMMA SignalLists ==
    ASSUME DTypes, ListsOK, NEW d \in Dicts, waiting[d] # << >>,
           waiting' = [waiting EXCEPT ![d] = Tail(@)],
           signalled' = signalled \cup {Head(waiting[d])}, wants' = wants
    PROVE  /\ ListsOK' /\ waiting' \in [Dicts -> Seq(Goids)]
           /\ Head(waiting[d]) \in Goids /\ wants[Head(waiting[d])] = d
  <1>1. waiting \in [Dicts -> Seq(Goids)] /\ waiting[d] \in Seq(Goids)
    BY DEF DTypes
  <1>2. PICK s \in Seq(Goids) : s = Tail(waiting[d])
    BY <1>1, WithoutFirst
  <1>3. PICK w \in Goids : w = Head(waiting[d]) /\ w = waiting[d][1]
    BY <1>1, WithoutFirst
  <1>4. /\ Len(waiting[d]) \in Nat /\ Len(waiting[d]) >= 1 /\ Len(s) = Len(waiting[d]) - 1
        /\ \A i \in 1 .. Len(waiting[d]) - 1 : i + 1 \in 1 .. Len(waiting[d]) /\ s[i] = waiting[d][i + 1]
    BY <1>1, <1>2, WithoutFirst
  <1>5. waiting'[d] = s /\ \A c \in Dicts : c # d => waiting'[c] = waiting[c]
    BY <1>1, <1>2
  <1>6. \A i \in 1 .. Len(s) :
            /\ i + 1 \in 1 .. Len(waiting[d]) /\ i + 1 # 1 /\ s[i] = waiting[d][i + 1]
            /\ s[i] # w
    <2>1. \A i \in 1 .. Len(s) :
             i + 1 \in 1 .. Len(waiting[d]) /\ i + 1 # 1 /\ s[i] = waiting[d][i + 1]
      BY <1>4
    <2>2. 1 \in 1 .. Len(waiting[d])
      BY <1>4
    <2> QED BY <1>3, <2>1, <2>2 DEF ListsOK
  <1>7. wants[w] = d
    <2>1. 1 \in 1 .. Len(waiting[d])
      BY <1>4
    <2> QED BY <1>3, <2>1 DEF ListsOK
  <1>8. ASSUME NEW c \in Dicts, NEW i \in 1 .. Len(waiting'[c])
        PROVE  wants'[waiting'[c][i]] = c /\ waiting'[c][i] \notin signalled'
    <2>1. CASE c # d
      <3>1. wants[waiting[c][i]] = c /\ waiting[c][i] \notin signalled
        BY <1>5, <1>8, <2>1 DEF ListsOK
      <3> QED BY <1>3, <1>5, <1>7, <2>1, <3>1
    <2>2. CASE c = d
      <3>0. i + 1 \in 1 .. Len(waiting[d]) /\ s[i] = waiting[d][i + 1]
        BY <1>5, <1>6, <1>8, <2>2
      <3>1. wants[s[i]] = d /\ s[i] \notin signalled
        BY <3>0 DEF ListsOK
      <3> QED BY <1>3, <1>5, <1>6, <2>2, <3>1
    <2> QED BY <2>1, <2>2
  <1>9. ASSUME NEW c \in Dicts, NEW i \in 1 .. Len(waiting'[c]),
               NEW j \in 1 .. Len(waiting'[c]),
               waiting'[c][i] = waiting'[c][j]
        PROVE  i = j
    <2>1. CASE c # d
      BY <1>5, <1>9, <2>1 DEF ListsOK
    <2>2. CASE c = d
      <3>0. /\ i + 1 \in 1 .. Len(waiting[d]) /\ j + 1 \in 1 .. Len(waiting[d])
            /\ waiting[d][i + 1] = waiting[d][j + 1]
        BY <1>5, <1>6, <1>9, <2>2
      <3>1. i + 1 = j + 1
        BY <3>0 DEF ListsOK
      <3> QED BY <1>4, <1>5, <2>2, <3>1
    <2> QED BY <2>1, <2>2
  <1>10. ASSUME NEW h \in Goids
         PROVE  wants'[h] # None <=> h \in signalled' \/ \E c \in Dicts : InSeq(h, waiting'[c])
    <2>1. ASSUME NEW c \in Dicts, h # w PROVE InSeq(h, waiting'[c]) <=> InSeq(h, waiting[c])
      <3>1. CASE c # d
        BY <1>5, <3>1
      <3>2. CASE c = d
        <4>1. InSeq(h, s) => InSeq(h, waiting[d])
          BY <1>6 DEF InSeq
        <4>2. ASSUME NEW i \in 1 .. Len(waiting[d]), waiting[d][i] = h PROVE InSeq(h, s)
          <5>1. i # 1
            BY <1>3, <2>1, <4>2
          <5>2. i - 1 \in 1 .. Len(s) /\ (i - 1) + 1 = i
            BY <1>4, <5>1
          <5> QED BY <1>6, <4>2, <5>2 DEF InSeq
        <4> QED BY <1>5, <3>2, <4>1, <4>2 DEF InSeq
      <3> QED BY <3>1, <3>2
    <2>2. CASE h = w
      <3>1. InSeq(w, waiting[d])
        <4>1. 1 \in 1 .. Len(waiting[d])
          BY <1>4
        <4> QED BY <1>3, <4>1 DEF InSeq
      <3> QED BY <1>3, <2>2, <3>1 DEF ListsOK
    <2>3. CASE h # w
      BY <1>3, <2>1, <2>3 DEF ListsOK
    <2> QED BY <2>2, <2>3
  <1> QED BY <1>1, <1>2, <1>3, <1>7, <1>8, <1>9, <1>10 DEF ListsOK

(* Who is off the list takes the dict, or g gets what it wanted.           *)
LEMMA TakesLists ==
    ASSUME DTypes, ListsOK, NEW g \in signalled,
           wants' = [wants EXCEPT ![g] = None], signalled' = signalled \ {g},
           waiting' = waiting
    PROVE  ListsOK'
  <1>1. g \in Goids /\ wants'[g] = None /\ \A h \in Goids : h # g => wants'[h] = wants[h]
    BY DEF DTypes
  <1>2. \A d \in Dicts : \A i \in 1 .. Len(waiting[d]) : waiting[d][i] # g /\ waiting[d][i] \in Goids
    BY DEF ListsOK, DTypes
  <1>3. \A d \in Dicts : \A i \in 1 .. Len(waiting'[d]) :
           wants'[waiting'[d][i]] = d /\ waiting'[d][i] \notin signalled'
    BY <1>1, <1>2 DEF ListsOK
  <1>4. \A d \in Dicts : \A i, j \in 1 .. Len(waiting'[d]) :
           waiting'[d][i] = waiting'[d][j] => i = j
    BY DEF ListsOK
  <1>5. \A h \in Goids :
           wants'[h] # None <=> h \in signalled' \/ \E d \in Dicts : InSeq(h, waiting'[d])
    BY <1>1, <1>2 DEF ListsOK, InSeq
  <1> QED BY <1>3, <1>4, <1>5 DEF ListsOK

-----------------------------------------------------------------------------

(* OneInside and NobodyForgotten, of one dict.                             *)
InsideOf(d) ==
    IF owner[d] = None
    THEN depth[d] = 0 /\ \A g \in Goids : Levels(g, d) = {}
    ELSE \E g \in Goids :
            /\ owner[d] \in {g, ThreadOf[g]}
            /\ Levels(g, d) # {}
            /\ depth[d] = Cardinality(Levels(g, d))
            /\ \A h \in Goids \ {g} : Levels(h, d) = {}

Remembered(d) ==
    waiting[d] # << >> => owner[d] # None \/ \E g \in signalled : wants[g] = d

LEMMA PerDict ==
    /\ OneInside <=> \A d \in Dicts : InsideOf(d)
    /\ NobodyForgotten <=> \A d \in Dicts : Remembered(d)
  BY DEF OneInside, InsideOf, NobodyForgotten, Remembered

LEMMA OtherDict ==
    ASSUME NEW d \in Dicts, InsideOf(d), owner'[d] = owner[d], depth'[d] = depth[d],
           \A h \in Goids : Levels(h, d)' = Levels(h, d)
    PROVE  InsideOf(d)'
  BY DEF InsideOf

(* Who g is to a dict. *)
LEMMA SelfOf ==
    ASSUME Identities, DIInv, NEW g \in Goids, pc[g] = "run" \/ (g \in Bare /\ pc[g] = "out")
    PROVE  /\ Self(g) \in Threads \cup Bare /\ Self(g) \in {g, ThreadOf[g]} /\ Self(g) # None
           /\ g \in Bare /\ inside[g] = << >> => Self(g) = g
  <1>1. ThreadOf[g] \in Threads /\ None \notin Threads \cup Goids /\ Bare \subseteq Goids
    BY ThreadOfAssumption, GilAssumption DEF Identities
  <1> QED BY <1>1 DEF Self, DIInv, PlacesOK

(* An operation that g begins: g is alone in the dict, and where it was.   *)
LEMMA EntersKeeps ==
    ASSUME Identities, DIInv, NEW g \in Goids, NEW d \in Dicts, Enters(g, d),
           pc[g] = "run" \/ (g \in Bare /\ pc[g] = "out"), Len(inside[g]) < MaxNest,
           owner[d] \in {Self(g), None},
           owner' = [owner EXCEPT ![d] = Self(g)],
           depth' = [depth EXCEPT ![d] = IF owner[d] = None THEN 1 ELSE @ + 1],
           pc' = pc,
           wants'[g] = None, \A h \in Goids : h # g => wants'[h] = wants[h]
    PROVE  /\ PlacesOK' /\ OneInside'
           /\ owner' \in [Dicts -> Threads \cup Bare \cup {None}] /\ depth' \in [Dicts -> Nat]
           /\ inside' \in [Goids -> Seq(Operation)]
           /\ \A h \in Goids : Len(inside'[h]) <= MaxNest
           /\ owner'[d] # None /\ \A c \in Dicts : c # d => owner'[c] = owner[c]
  <1>1. /\ Self(g) \in Threads \cup Bare /\ Self(g) \in {g, ThreadOf[g]} /\ Self(g) # None
        /\ g \in Bare /\ inside[g] = << >> => Self(g) = g
    BY SelfOf
  <1>2. DTypes /\ MaxNest \in Nat
    BY DEF DIInv, Identities
  <1>3. /\ inside' \in [Goids -> Seq(Operation)]
        /\ \A h \in Goids : Len(inside'[h]) <= MaxNest
        /\ \A h \in Goids : h # g => inside'[h] = inside[h]
        /\ inside'[g] # << >> /\ inside'[g][1].by = IF inside[g] = << >> THEN Self(g) ELSE inside[g][1].by
    BY <1>1, <1>2, EntersEffect
  <1>4. /\ \A h \in Goids : \A c \in Dicts : h # g \/ c # d => Levels(h, c)' = Levels(h, c)
        /\ Levels(g, d)' # {}
        /\ Cardinality(Levels(g, d)') = Cardinality(Levels(g, d)) + 1
    BY <1>1, <1>2, EntersEffect
  <1>5. /\ owner' \in [Dicts -> Threads \cup Bare \cup {None}] /\ depth' \in [Dicts -> Nat]
        /\ owner'[d] = Self(g) /\ depth'[d] = (IF owner[d] = None THEN 1 ELSE depth[d] + 1)
        /\ \A c \in Dicts : c # d => owner'[c] = owner[c] /\ depth'[c] = depth[c]
    BY <1>1, <1>2 DEF DTypes
  <1>6. PlacesOK'
    <2>1. \A h \in Goids : wants'[h] # None =>
             Len(inside'[h]) < MaxNest /\ (pc'[h] = "run" \/ (h \in Bare /\ pc'[h] = "out"))
      BY <1>3 DEF DIInv, PlacesOK
    <2>2. ASSUME NEW h \in Bare
          PROVE  IF inside'[h] = << >> THEN pc'[h] = "out" ELSE inside'[h][1].by = h
      <3>1. h \in Goids /\ IF inside[h] = << >> THEN pc[h] = "out" ELSE inside[h][1].by = h
        BY DEF DIInv, PlacesOK, Identities
      <3> QED BY <1>1, <1>3, <3>1
    <2> QED BY <2>1, <2>2 DEF PlacesOK
  <1>7. InsideOf(d)'
    <2>1. /\ \A h \in Goids \ {g} : Levels(h, d) = {}
          /\ IF owner[d] = None THEN Levels(g, d) = {} ELSE depth[d] = Cardinality(Levels(g, d))
      <3>1. InsideOf(d)
        BY PerDict DEF DIInv
      <3>2. CASE owner[d] = None
        BY <3>1, <3>2 DEF InsideOf
      <3>3. CASE owner[d] # None
        <4>1. PICK h \in Goids :
                  /\ owner[d] \in {h, ThreadOf[h]}
                  /\ depth[d] = Cardinality(Levels(h, d))
                  /\ \A k \in Goids \ {h} : Levels(k, d) = {}
          BY <3>1, <3>3 DEF InsideOf
        <4>2. h = g
          <5>1. Self(g) \in {h, ThreadOf[h]} /\ Self(g) \in {g, ThreadOf[g]}
            BY <1>1, <3>3, <4>1
          <5>2. ThreadOf[g] \in Threads /\ ThreadOf[h] \in Threads
            BY ThreadOfAssumption
          <5> QED BY <5>1, <5>2 DEF Identities
        <4> QED BY <3>3, <4>1, <4>2
      <3> QED BY <3>2, <3>3
    <2>2. \A h \in Goids \ {g} : Levels(h, d)' = {}
      BY <1>4, <2>1
    <2>3. depth'[d] = Cardinality(Levels(g, d)')
      <3>1. CASE owner[d] = None
        <4>1. Cardinality(Levels(g, d)) = 0
          BY <2>1, <3>1, FS_EmptySet
        <4> QED BY <1>4, <1>5, <3>1, <4>1
      <3>2. CASE owner[d] # None
        BY <1>4, <1>5, <2>1, <3>2
      <3> QED BY <3>1, <3>2
    <2> QED BY <1>1, <1>4, <1>5, <2>2, <2>3 DEF InsideOf
  <1>8. \A c \in Dicts : c # d => InsideOf(c)'
    BY <1>4, <1>5, PerDict, OtherDict DEF DIInv
  <1>9. OneInside'
    BY <1>7, <1>8 DEF OneInside, InsideOf
  <1> QED BY <1>1, <1>3, <1>5, <1>6, <1>9

-----------------------------------------------------------------------------

LEMMA EvalKeeps ==
    ASSUME Identities, DIInv, NEW g \in Goids, Eval(g)
    PROVE  DIInv'
  <1>1. /\ wants[g] = None /\ UNCHANGED dictVars
        /\ \E to \in EvalPCs : pc' = [pc EXCEPT ![g] = to]
    BY DEF Eval, Enter, Acquire, Leave, Poll, HandleBreaker, BeginAllowThreads,
           EndAllowThreads, Goto, EvalPCs, DIInv, DTypes
  <1>2. ~(g \in Bare /\ inside[g] = << >>)
    <2>1. pc[g] = "out" => Enter(g) /\ (g \in Bare => inside[g] # << >>)
      BY DEF Eval, Acquire, Leave, Poll, HandleBreaker, BeginAllowThreads, EndAllowThreads,
         Goto
    <2> QED BY <2>1 DEF DIInv, PlacesOK
  <1>3. DTypes'
    BY <1>1 DEF DIInv, DTypes, dictVars
  <1>4. PlacesOK'
    BY <1>1, <1>2 DEF DIInv, DTypes, PlacesOK, dictVars, Identities
  <1>5. ListsOK' /\ OneInside'
    BY <1>1, SameLists, SameInside DEF DIInv, dictVars
  <1>6. NobodyForgotten'
    BY <1>1 DEF DIInv, NobodyForgotten, dictVars
  <1> QED BY <1>3, <1>4, <1>5, <1>6 DEF DIInv

LEMMA LockKeeps ==
    ASSUME Identities, DIInv, NEW g \in Goids, NEW d \in Dicts, Lock(g, d)
    PROVE  DIInv'
  <1>1. /\ wants[g] = None
        /\ pc[g] = "run" \/ (g \in Bare /\ pc[g] = "out")
        /\ Len(inside[g]) < MaxNest /\ pc' = pc
    BY DEF Lock, Ready, evalVars
  <1>2. DTypes /\ ListsOK /\ None \notin Dicts
    BY DEF DIInv, Identities
  <1>3. CASE Reenter(g, d) \/ (TakeDict(g, d) /\ UNCHANGED <<waiting, signalled, wants>>)
    <2>1. /\ Enters(g, d) /\ UNCHANGED <<waiting, signalled, wants>> /\ owner[d] \in {Self(g), None}
          /\ owner' = [owner EXCEPT ![d] = Self(g)]
          /\ depth' = [depth EXCEPT ![d] = IF owner[d] = None THEN 1 ELSE @ + 1]
      <3>1. Self(g) # None
        BY <1>1, SelfOf
      <3> QED BY <1>2, <1>3, <3>1 DEF Reenter, TakeDict, DTypes
    <2>2. /\ PlacesOK' /\ OneInside'
          /\ owner' \in [Dicts -> Threads \cup Bare \cup {None}] /\ depth' \in [Dicts -> Nat]
          /\ inside' \in [Goids -> Seq(Operation)]
          /\ \A h \in Goids : Len(inside'[h]) <= MaxNest
          /\ owner'[d] # None /\ \A c \in Dicts : c # d => owner'[c] = owner[c]
      BY <1>1, <2>1, EntersKeeps
    <2>3. DTypes'
      BY <1>1, <1>2, <2>1, <2>2 DEF DTypes
    <2>4. NobodyForgotten'
      BY <2>1, <2>2 DEF DIInv, NobodyForgotten
    <2> QED BY <1>2, <2>1, <2>2, <2>3, <2>4, SameLists DEF DIInv
  <1>4. CASE WaitFor(g, d) /\ wants' = [wants EXCEPT ![g] = d] /\ UNCHANGED signalled
    <2>1. g \notin signalled /\ \A c \in Dicts : ~InSeq(g, waiting[c])
      BY <1>1, <1>2 DEF ListsOK
    <2>2. /\ waiting' = [waiting EXCEPT ![d] = Append(@, g)] /\ signalled' = signalled \ {g}
          /\ owner[d] # None /\ UNCHANGED <<owner, depth, inside>>
      BY <1>4, <2>1 DEF WaitFor
    <2>3. ListsOK' /\ waiting' \in [Dicts -> Seq(Goids)]
      BY <1>2, <1>4, <2>1, <2>2, WaitForLists
    <2>4. DTypes'
      BY <1>1, <1>2, <1>4, <2>2, <2>3 DEF DTypes
    <2>5. PlacesOK'
      BY <1>1, <1>2, <1>4, <2>2 DEF DIInv, DTypes, PlacesOK
    <2>6. NobodyForgotten'
      <3>1. \A c \in Dicts : c # d => waiting'[c] = waiting[c]
        BY <1>2, <2>2 DEF DTypes
      <3>2. \A h \in signalled : wants'[h] = wants[h]
        BY <1>2, <1>4, <2>1 DEF DTypes
      <3> QED BY <1>4, <2>2, <3>1, <3>2 DEF DIInv, NobodyForgotten
    <2> QED BY <2>2, <2>3, <2>4, <2>5, <2>6, SameInside DEF DIInv
  <1> QED BY <1>3, <1>4 DEF Lock

LEMMA WokenKeeps ==
    ASSUME Identities, DIInv, NEW g \in Goids, Woken(g)
    PROVE  DIInv'
  <1>1. g \in signalled /\ signalled' = signalled \ {g} /\ pc' = pc
    BY DEF Woken, evalVars
  <1>2. DTypes /\ ListsOK /\ None \notin Dicts
    BY DEF DIInv, Identities
  <1>3. PICK d \in Dicts : d = wants[g]
    BY <1>1, <1>2 DEF ListsOK, DTypes
  <1>4. /\ pc[g] = "run" \/ (g \in Bare /\ pc[g] = "out")
        /\ \A c \in Dicts : ~InSeq(g, waiting[c])
    BY <1>1, <1>2, <1>3 DEF DIInv, PlacesOK, ListsOK, InSeq
  <1>5. CASE TakeDict(g, d) /\ wants' = [wants EXCEPT ![g] = None] /\ UNCHANGED waiting
    <2>1. /\ Enters(g, d) /\ owner[d] = None
          /\ owner' = [owner EXCEPT ![d] = Self(g)]
          /\ depth' = [depth EXCEPT ![d] = IF owner[d] = None THEN 1 ELSE @ + 1]
      BY <1>2, <1>5 DEF TakeDict, DTypes
    <2>2. Len(inside[g]) < MaxNest
      BY <1>2, <1>3 DEF DIInv, PlacesOK, DTypes
    <2>3. wants'[g] = None /\ \A h \in Goids : h # g => wants'[h] = wants[h]
      BY <1>2, <1>5 DEF DTypes
    <2>4. /\ PlacesOK' /\ OneInside'
          /\ owner' \in [Dicts -> Threads \cup Bare \cup {None}] /\ depth' \in [Dicts -> Nat]
          /\ inside' \in [Goids -> Seq(Operation)]
          /\ \A h \in Goids : Len(inside'[h]) <= MaxNest
          /\ owner'[d] # None /\ \A c \in Dicts : c # d => owner'[c] = owner[c]
      BY <1>1, <1>2, <1>4, <2>1, <2>2, <2>3, EntersKeeps
    <2>5. ListsOK'
      BY <1>1, <1>2, <1>5, TakesLists
    <2>6. DTypes'
      BY <1>1, <1>2, <1>5, <2>4 DEF DTypes
    <2>7. NobodyForgotten'
      <3>1. \A h \in signalled : wants[h] # d => h # g /\ wants'[h] = wants[h]
        BY <1>2, <1>3, <2>3 DEF DTypes
      <3> QED BY <1>1, <1>3, <1>5, <2>4, <3>1 DEF DIInv, NobodyForgotten
    <2> QED BY <2>4, <2>5, <2>6, <2>7 DEF DIInv
  <1>6. CASE WaitFor(g, d) /\ UNCHANGED wants
    <2>1. /\ waiting' = [waiting EXCEPT ![d] = Append(@, g)] /\ wants' = [wants EXCEPT ![g] = d]
          /\ owner[d] # None /\ UNCHANGED <<owner, depth, inside>>
      BY <1>2, <1>3, <1>6 DEF WaitFor, DTypes
    <2>2. ListsOK' /\ waiting' \in [Dicts -> Seq(Goids)]
      BY <1>1, <1>2, <1>4, <2>1, WaitForLists
    <2>3. DTypes'
      BY <1>1, <1>2, <1>6, <2>1, <2>2 DEF DTypes
    <2>4. PlacesOK'
      BY <1>1, <1>6, <2>1 DEF DIInv, PlacesOK
    <2>5. NobodyForgotten'
      <3>1. \A c \in Dicts : c # d => waiting'[c] = waiting[c]
        BY <1>2, <2>1 DEF DTypes
      <3> QED BY <1>1, <1>3, <1>6, <2>1, <3>1 DEF DIInv, NobodyForgotten
    <2> QED BY <2>1, <2>2, <2>3, <2>4, <2>5, SameInside DEF DIInv
  <1> QED BY <1>3, <1>5, <1>6 DEF Woken

LEMMA UnlockKeeps ==
    ASSUME Identities, DIInv, NEW g \in Goids, Unlock(g)
    PROVE  DIInv'
  <1>1. /\ wants[g] = None /\ (pc[g] = "run" \/ (g \in Bare /\ pc[g] = "out"))
        /\ inside[g] # << >> /\ Innermost(g).by = Self(g) /\ pc' = pc /\ wants' = wants
        /\ inside' = [inside EXCEPT ![g] = SubSeq(@, 1, Len(@) - 1)]
    BY DEF Unlock, Ready, evalVars
  <1>2. DTypes /\ ListsOK /\ None \notin Dicts /\ MaxNest \in Nat
    BY DEF DIInv, Identities
  <1>3. PICK d : d = Innermost(g).dict
    OBVIOUS
  <1>4. /\ d \in Dicts /\ inside' \in [Goids -> Seq(Operation)]
        /\ \A h \in Goids : Len(inside'[h]) <= MaxNest
        /\ \A h \in Goids : h # g => inside'[h] = inside[h]
        /\ IF inside'[g] = << >> THEN Innermost(g) = inside[g][1]
           ELSE inside'[g][1] = inside[g][1]
    BY <1>1, <1>2, <1>3, LeavesEffect
  <1>5. /\ \A h \in Goids : \A c \in Dicts : h # g \/ c # d => Levels(h, c)' = Levels(h, c)
        /\ Levels(g, d) # {}
        /\ Cardinality(Levels(g, d)') = Cardinality(Levels(g, d)) - 1
        /\ Cardinality(Levels(g, d)) = 1 <=> Levels(g, d)' = {}
    <2>1. ASSUME NEW h \in Goids, NEW c \in Dicts, h # g \/ c # d
          PROVE  Levels(h, c)' = Levels(h, c)
      <3>1. CASE h # g
        BY <1>4, <3>1 DEF Levels
      <3>2. CASE h = g
        BY <1>1, <1>2, <1>3, <2>1, <3>2, LeavesOthers
      <3> QED BY <3>1, <3>2
    <2>2. Levels(g, d) # {}
      BY <1>1, <1>2, <1>3, LeavesEffect
    <2>3. Cardinality(Levels(g, d)') = Cardinality(Levels(g, d)) - 1
      BY <1>1, <1>2, <1>3, LeavesEffect
    <2>4. Cardinality(Levels(g, d)) = 1 <=> Levels(g, d)' = {}
      BY <1>1, <1>2, <1>3, LeavesEffect
    <2> QED BY <2>1, <2>2, <2>3, <2>4
  <1>6. /\ depth' = [depth EXCEPT ![d] = @ - 1]
        /\ IF depth[d] = 1
           THEN /\ owner' = [owner EXCEPT ![d] = None]
                /\ IF waiting[d] = << >> THEN UNCHANGED <<waiting, signalled>>
                   ELSE /\ waiting' = [waiting EXCEPT ![d] = Tail(@)]
                        /\ signalled' = signalled \cup {Head(waiting[d])}
           ELSE UNCHANGED <<owner, waiting, signalled>>
    BY <1>3 DEF Unlock
  <1>7. /\ owner[d] \in {g, ThreadOf[g]} /\ owner[d] # None
        /\ depth[d] = Cardinality(Levels(g, d)) /\ depth[d] \in Nat /\ depth[d] # 0
        /\ \A h \in Goids \ {g} : Levels(h, d) = {}
    <2>1. InsideOf(d)
      BY <1>4, PerDict DEF DIInv
    <2>2. owner[d] # None
      BY <1>5, <2>1 DEF InsideOf
    <2>3. PICK h \in Goids :
             /\ owner[d] \in {h, ThreadOf[h]}
             /\ depth[d] = Cardinality(Levels(h, d))
             /\ \A k \in Goids \ {h} : Levels(k, d) = {}
      BY <2>1, <2>2 DEF InsideOf
    <2>4. h = g
      BY <1>5, <2>3
    <2>5. IsFiniteSet(Levels(g, d)) /\ Cardinality(Levels(g, d)) \in Nat
      BY <1>2, <1>4, LevelsFinite
    <2> QED BY <1>5, <2>2, <2>3, <2>4, <2>5, FS_EmptySet
  <1>8. depth' \in [Dicts -> Nat] /\ owner' \in [Dicts -> Threads \cup Bare \cup {None}]
    <2>1. depth[d] - 1 \in Nat
      BY <1>7
    <2> QED BY <1>2, <1>6, <2>1 DEF DTypes
  <1>9. PlacesOK'
    <2>1. Len(inside'[g]) < MaxNest \/ wants'[g] = None
      BY <1>1
    <2>2. \A h \in Goids : wants'[h] # None =>
             Len(inside'[h]) < MaxNest /\ (pc'[h] = "run" \/ (h \in Bare /\ pc'[h] = "out"))
      BY <1>1, <1>4 DEF DIInv, PlacesOK
    <2>3. ASSUME NEW h \in Bare
          PROVE  IF inside'[h] = << >> THEN pc'[h] = "out" ELSE inside'[h][1].by = h
      <3>1. h \in Goids /\ IF inside[h] = << >> THEN pc[h] = "out" ELSE inside[h][1].by = h
        BY DEF DIInv, PlacesOK, Identities
      <3>2. CASE h # g
        BY <1>1, <1>4, <3>1, <3>2
      <3>3. CASE h = g /\ inside'[g] # << >>
        BY <1>1, <1>4, <3>1, <3>3
      <3>4. CASE h = g /\ inside'[g] = << >>
        <4>1. Self(g) = g
          BY <1>1, <1>4, <3>1, <3>4
        <4>2. ThreadOf[g] # g
          BY ThreadOfAssumption DEF Identities
        <4> QED BY <1>1, <3>4, <4>1, <4>2 DEF Self
      <3> QED BY <3>2, <3>3, <3>4
    <2> QED BY <2>2, <2>3 DEF PlacesOK
  <1>10. OneInside'
    <2>1. \A c \in Dicts : c # d => owner'[c] = owner[c] /\ depth'[c] = depth[c]
      BY <1>2, <1>6 DEF DTypes
    <2>2. \A c \in Dicts : c # d => InsideOf(c)'
      BY <1>5, <2>1, PerDict, OtherDict DEF DIInv
    <2>3. \A h \in Goids \ {g} : Levels(h, d)' = {}
      BY <1>4, <1>5, <1>7
    <2>4. depth'[d] = depth[d] - 1
      BY <1>2, <1>4, <1>6 DEF DTypes
    <2>5. InsideOf(d)'
      <3>1. CASE depth[d] = 1
        <4>1. owner'[d] = None /\ depth'[d] = 0 /\ Levels(g, d)' = {}
          BY <1>2, <1>4, <1>5, <1>6, <1>7, <2>4, <3>1 DEF DTypes
        <4> QED BY <2>3, <4>1 DEF InsideOf
      <3>2. CASE depth[d] # 1
        <4>1. owner'[d] = owner[d] /\ Levels(g, d)' # {} /\ depth'[d] = Cardinality(Levels(g, d)')
          BY <1>5, <1>6, <1>7, <2>4, <3>2
        <4> QED BY <1>7, <2>3, <4>1 DEF InsideOf
      <3> QED BY <3>1, <3>2
    <2> QED BY <2>2, <2>5 DEF OneInside, InsideOf
  <1>11. CASE depth[d] = 1 /\ waiting[d] # << >>
    <2>1. /\ ListsOK' /\ waiting' \in [Dicts -> Seq(Goids)]
          /\ Head(waiting[d]) \in Goids /\ wants[Head(waiting[d])] = d
      BY <1>1, <1>2, <1>4, <1>6, <1>11, SignalLists
    <2>2. PICK w \in Goids : w = Head(waiting[d]) /\ wants[w] = d
      BY <2>1
    <2>3. signalled' = signalled \cup {w} /\ wants' = wants
      BY <1>1, <1>6, <1>11, <2>2
    <2>4. DTypes'
      BY <1>1, <1>2, <1>4, <1>8, <2>1, <2>3 DEF DTypes
    <2>5. NobodyForgotten'
      <3>1. \A c \in Dicts : c # d => owner'[c] = owner[c] /\ waiting'[c] = waiting[c]
        BY <1>2, <1>6, <1>11 DEF DTypes
      <3>2. ASSUME NEW c \in Dicts, waiting'[c] # << >>
            PROVE  owner'[c] # None \/ \E h \in signalled' : wants'[h] = c
        <4>1. CASE c = d
          BY <2>2, <2>3, <4>1
        <4>2. CASE c # d
          BY <2>3, <3>1, <3>2, <4>2 DEF DIInv, NobodyForgotten
        <4> QED BY <4>1, <4>2
      <3> QED BY <3>2 DEF NobodyForgotten
    <2> QED BY <1>9, <1>10, <2>1, <2>4, <2>5 DEF DIInv
  <1>12. CASE depth[d] # 1 \/ waiting[d] = << >>
    <2>1. waiting' = waiting /\ signalled' = signalled /\ wants' = wants
      BY <1>1, <1>6, <1>12
    <2>2. DTypes'
      BY <1>1, <1>2, <1>4, <1>8, <2>1 DEF DTypes
    <2>3. \A c \in Dicts : c # d \/ waiting[d] # << >> => owner'[c] = owner[c]
      BY <1>2, <1>6, <1>12 DEF DTypes
    <2>4. NobodyForgotten'
      BY <2>1, <2>3 DEF DIInv, NobodyForgotten
    <2> QED BY <1>2, <1>9, <1>10, <2>1, <2>2, <2>4, SameLists DEF DIInv
  <1> QED BY <1>11, <1>12

LEMMA NextKeeps ==
    ASSUME Identities, DIInv, [DictNext]_<<evalVars, dictVars>>
    PROVE  DIInv'
  <1>1. CASE DictNext
    BY <1>1, EvalKeeps, LockKeeps, WokenKeeps, UnlockKeeps DEF DictNext, DictStep
  <1>2. CASE UNCHANGED <<evalVars, dictVars>>
    <2>1. UNCHANGED <<pc, owner, depth, waiting, signalled, wants, inside>>
      BY <1>2 DEF evalVars, dictVars
    <2>2. DTypes' /\ PlacesOK' /\ NobodyForgotten'
      BY <2>1 DEF DIInv, DTypes, PlacesOK, NobodyForgotten
    <2> QED BY <2>1, <2>2, SameLists, SameInside DEF DIInv
  <1> QED BY <1>1, <1>2

-----------------------------------------------------------------------------

(* Every state of the locks' code has the invariant's parts: places, lists *)
(* and the two properties together.                                        *)
THEOREM DictInvariance == ASSUME Identities PROVE DictSpec => []DIInv
  <1>1. DictInit => DIInv
    BY DictInitDIInv
  <1>2. DIInv /\ [DictNext]_<<evalVars, dictVars>> => DIInv'
    BY NextKeeps
  <1> QED BY <1>1, <1>2, PTL DEF DictSpec

(* What MCWaits checks: one goroutine at a time is in the operations on a  *)
(* dict, at the depth the lock counts, and none sleeps on a free one.      *)
THEOREM DictCorrect == ASSUME Identities PROVE DictSpec => []DictInv
  <1>1. DIInv => DictInv
    <2> SUFFICES ASSUME DIInv PROVE DictInv
      OBVIOUS
    <2>1. DTypes /\ PlacesOK /\ ListsOK /\ Bare \subseteq Goids
      BY DEF DIInv, Identities
    <2>2. \A g \in Goids : g \in Bare /\ inside[g] = << >> => pc[g] = "out"
      BY <2>1 DEF PlacesOK
    <2>3. DictTypeOK
      BY <2>1, <2>2 DEF DictTypeOK, DTypes, PlacesOK, ListsOK, Operation
    <2> QED BY <2>3 DEF DIInv, DictInv
  <1> QED BY <1>1, DictInvariance, PTL

-----------------------------------------------------------------------------
(* SimpleQueue, on an EvalLoop of its own, for any bound on the puts.      *)
(* EnoughWoken is inductive with the types: a put wakes one getter and     *)
(* adds one item, and whoever takes an item, woken or not, takes one.  For *)
(* the order of the items, ItemsInOrder says it of the two sequences.      *)

CONSTANT MaxPuts

VARIABLES buf, puts, got

Queue == INSTANCE SimpleQueue

ItemsInOrder ==
    /\ Len(got) + Len(buf) = puts
    /\ \A i \in 1 .. Len(got) : got[i] = i
    /\ \A i \in 1 .. Len(buf) : buf[i] = Len(got) + i

QIInv ==
    /\ pc \in [Goids -> Queue!EvalPCs]
    /\ IsFiniteSet(signalled)
    /\ Queue!QueueTypeOK /\ Queue!EnoughWoken /\ ItemsInOrder

-----------------------------------------------------------------------------

(* The instance has a Cardinality of its own. *)
LEMMA QueueCardinality ==
    ASSUME NEW S PROVE Queue!Cardinality(S) = Cardinality(S)
  BY DEF Queue!Cardinality, Cardinality

LEMMA QueueInitQIInv == ASSUME MaxPuts \in Nat PROVE Queue!QueueInit => QIInv
  <1> SUFFICES ASSUME Queue!QueueInit PROVE QIInv
    OBVIOUS
  <1>1. /\ pc = [g \in Goids |-> "out"] /\ puts = 0
        /\ buf = << >> /\ got = << >> /\ waiting = << >> /\ signalled = {}
    BY DEF Queue!QueueInit, Queue!Init
  <1>2. IsFiniteSet(signalled)
    BY <1>1, FS_EmptySet
  <1>3. Queue!QueueTypeOK
    BY <1>1 DEF Queue!QueueTypeOK, Queue!InGet, Queue!Waits
  <1> QED BY <1>1, <1>2, <1>3 DEF QIInv, ItemsInOrder, Queue!EnoughWoken, Queue!EvalPCs

(* A goroutine that is in no get moves, and no queue changes. *)
LEMMA QueueEvalKeeps ==
    ASSUME QIInv, NEW g \in Goids, g \notin Bare, ~Queue!InGet(g), Queue!Step(g),
           UNCHANGED Queue!queueVars
    PROVE  QIInv'
  <1>1. \E to \in Queue!EvalPCs : pc' = [pc EXCEPT ![g] = to]
    BY DEF Queue!Step, Queue!Enter, Queue!Acquire, Queue!Leave, Queue!Poll,
       Queue!HandleBreaker, Queue!BeginAllowThreads,
           Queue!EndAllowThreads, Queue!Goto, Queue!EvalPCs, QIInv
  <1>2. \A h : Queue!InGet(h)' <=> Queue!InGet(h)
    BY DEF Queue!InGet, Queue!Waits, Queue!queueVars
  <1>3. Queue!QueueTypeOK'
    BY <1>1, <1>2 DEF QIInv, Queue!QueueTypeOK, Queue!Waits, Queue!queueVars
  <1> QED BY <1>1, <1>3 DEF QIInv, Queue!EnoughWoken, ItemsInOrder, Queue!queueVars

(* What is first in a sequence, and what is left without it. *)
LEMMA HeadTail ==
    ASSUME NEW S, NEW s \in Seq(S), s # << >>
    PROVE  /\ Len(s) \in Nat /\ Len(s) >= 1 /\ Head(s) = s[1] /\ Head(s) \in S
           /\ Tail(s) \in Seq(S) /\ Len(Tail(s)) = Len(s) - 1
           /\ \A i \in 1 .. Len(s) - 1 : i + 1 \in 1 .. Len(s) /\ Tail(s)[i] = s[i + 1]
  OBVIOUS

(* The first item goes from the queue to whoever takes it. *)
LEMMA TakeItemEffect ==
    ASSUME QIInv, Queue!TakeItem
    PROVE  /\ buf' \in Seq(1 .. MaxPuts) /\ got' \in Seq(1 .. MaxPuts)
           /\ Len(buf) \in Nat /\ Len(buf') = Len(buf) - 1 /\ puts' \in 0 .. MaxPuts
           /\ ItemsInOrder'
  <1>1. /\ buf # << >> /\ got' = Append(got, Head(buf)) /\ buf' = Tail(buf) /\ puts' = puts
        /\ buf \in Seq(1 .. MaxPuts) /\ got \in Seq(1 .. MaxPuts) /\ puts \in 0 .. MaxPuts
    BY DEF Queue!TakeItem, QIInv, Queue!QueueTypeOK
  <1>2. /\ Len(buf) \in Nat /\ Len(buf) >= 1 /\ Head(buf) = buf[1] /\ Head(buf) \in 1 .. MaxPuts
        /\ Len(buf') = Len(buf) - 1 /\ buf' \in Seq(1 .. MaxPuts)
        /\ \A i \in 1 .. Len(buf) - 1 : i + 1 \in 1 .. Len(buf) /\ buf'[i] = buf[i + 1]
    BY <1>1, HeadTail
  <1>3. /\ got' \in Seq(1 .. MaxPuts) /\ Len(got) \in Nat /\ Len(got') = Len(got) + 1
        /\ \A i \in 1 .. Len(got) : got'[i] = got[i]
        /\ got'[Len(got) + 1] = buf[1]
    BY <1>1, <1>2
  <1>4. ItemsInOrder'
    <2>1. buf[1] = Len(got) + 1
      BY <1>2 DEF QIInv, ItemsInOrder
    <2>2. \A i \in 1 .. Len(got') : got'[i] = i
      BY <1>3, <2>1 DEF QIInv, ItemsInOrder
    <2>3. ASSUME NEW i \in 1 .. Len(buf') PROVE buf'[i] = Len(got') + i
      <3>1. i + 1 \in 1 .. Len(buf) /\ buf'[i] = buf[i + 1]
        BY <1>2
      <3>2. buf[i + 1] = Len(got) + (i + 1)
        BY <3>1 DEF QIInv, ItemsInOrder
      <3> QED BY <1>3, <3>1, <3>2
    <2>4. Len(got') + Len(buf') = puts'
      <3>1. Len(got) + Len(buf) = puts
        BY DEF QIInv, ItemsInOrder
      <3>2. /\ Len(got) \in Nat /\ Len(buf) \in Nat /\ puts' = puts
            /\ Len(got') = Len(got) + 1 /\ Len(buf') = Len(buf) - 1
        BY <1>1, <1>2, <1>3
      <3> QED BY <3>1, <3>2
    <2> QED BY <2>2, <2>3, <2>4 DEF ItemsInOrder
  <1> QED BY <1>1, <1>2, <1>3, <1>4

(* A put appends its own number. *)
LEMMA PutEffect ==
    ASSUME MaxPuts \in Nat, QIInv, puts < MaxPuts, puts' = puts + 1,
           buf' = Append(buf, puts + 1), got' = got
    PROVE  /\ buf' \in Seq(1 .. MaxPuts) /\ puts' \in 0 .. MaxPuts
           /\ Len(buf) \in Nat /\ Len(buf') = Len(buf) + 1
           /\ ItemsInOrder'
  <1>1. /\ buf \in Seq(1 .. MaxPuts) /\ puts \in 0 .. MaxPuts /\ puts + 1 \in 1 .. MaxPuts
        /\ got \in Seq(1 .. MaxPuts) /\ Len(got) \in Nat
    BY DEF QIInv, Queue!QueueTypeOK
  <1>2. /\ buf' \in Seq(1 .. MaxPuts) /\ Len(buf) \in Nat /\ Len(buf') = Len(buf) + 1
        /\ \A i \in 1 .. Len(buf) : buf'[i] = buf[i]
        /\ buf'[Len(buf) + 1] = puts + 1
    BY <1>1
  <1>3. ItemsInOrder'
    <2>1. /\ Len(got) + Len(buf) = puts
          /\ \A i \in 1 .. Len(got) : got[i] = i
          /\ \A i \in 1 .. Len(buf) : buf[i] = Len(got) + i
      BY DEF QIInv, ItemsInOrder
    <2>2. ASSUME NEW i \in 1 .. Len(buf') PROVE buf'[i] = Len(got) + i
      <3>1. i \in 1 .. Len(buf) \/ i = Len(buf) + 1
        BY <1>2
      <3>2. puts + 1 = Len(got) + (Len(buf) + 1)
        BY <1>1, <1>2, <2>1
      <3> QED BY <1>2, <2>1, <3>1, <3>2
    <2>3. Len(got) + Len(buf') = puts'
      BY <1>1, <1>2, <2>1
    <2> QED BY <2>1, <2>2, <2>3 DEF ItemsInOrder
  <1> QED BY <1>1, <1>2, <1>3

(* cond.Wait puts a goroutine on the list that is not there. *)
LEMMA QueueWaitEffect ==
    ASSUME QIInv, NEW g \in Goids, ~Queue!Waits(g), waiting' = Append(waiting, g)
    PROVE  /\ waiting' \in Seq(Goids)
           /\ \A i, j \in 1 .. Len(waiting') : waiting'[i] = waiting'[j] => i = j
           /\ \A h : Queue!Waits(h)' <=> Queue!Waits(h) \/ h = g
  <1>1. /\ waiting \in Seq(Goids) /\ Len(waiting) \in Nat
        /\ \A i, j \in 1 .. Len(waiting) : waiting[i] = waiting[j] => i = j
        /\ \A i \in 1 .. Len(waiting) : waiting[i] # g
    BY DEF QIInv, Queue!QueueTypeOK, Queue!Waits
  <1>2. /\ waiting' \in Seq(Goids) /\ Len(waiting') = Len(waiting) + 1
        /\ \A i \in 1 .. Len(waiting) : waiting'[i] = waiting[i]
        /\ waiting'[Len(waiting) + 1] = g
    BY <1>1
  <1>3. ASSUME NEW i \in 1 .. Len(waiting'), NEW j \in 1 .. Len(waiting'),
               waiting'[i] = waiting'[j]
        PROVE  i = j
    <2>1. /\ i \in 1 .. Len(waiting) \/ i = Len(waiting) + 1
          /\ j \in 1 .. Len(waiting) \/ j = Len(waiting) + 1
      BY <1>1, <1>2
    <2> QED BY <1>1, <1>2, <1>3, <2>1
  <1>4. ASSUME NEW h PROVE Queue!Waits(h)' <=> Queue!Waits(h) \/ h = g
    <2>1. Queue!Waits(h)' => Queue!Waits(h) \/ h = g

      <3>1. ASSUME NEW i \in 1 .. Len(waiting')
            PROVE  waiting'[i] = g \/ \E j \in 1 .. Len(waiting) : waiting[j] = waiting'[i]
        BY <1>1, <1>2
      <3> QED BY <3>1 DEF Queue!Waits
    <2>2. h = g => Queue!Waits(h)'
      BY <1>1, <1>2 DEF Queue!Waits
    <2>3. Queue!Waits(h) => Queue!Waits(h)'
      <3>1. \A i \in 1 .. Len(waiting) : i \in 1 .. Len(waiting')
        BY <1>1, <1>2
      <3> QED BY <1>2, <3>1 DEF Queue!Waits
    <2> QED BY <2>1, <2>2, <2>3
  <1> QED BY <1>2, <1>3, <1>4

(* cond.Signal takes the first one off it. *)
LEMMA QueueSignalEffect ==
    ASSUME QIInv, waiting # << >>, waiting' = Tail(waiting)
    PROVE  /\ waiting' \in Seq(Goids) /\ Head(waiting) \in Goids
           /\ \E w \in Goids : w = Head(waiting) /\ Queue!Waits(w) /\ ~Queue!Waits(w)'
           /\ \A i, j \in 1 .. Len(waiting') : waiting'[i] = waiting'[j] => i = j
           /\ \A h : Queue!Waits(h)' => Queue!Waits(h)
  <1>1. /\ waiting \in Seq(Goids) /\ Len(waiting) \in Nat /\ Len(waiting) >= 1
        /\ Head(waiting) = waiting[1] /\ Head(waiting) \in Goids
        /\ Len(waiting') = Len(waiting) - 1 /\ waiting' \in Seq(Goids)
        /\ \A i \in 1 .. Len(waiting) - 1 :
              i + 1 \in 1 .. Len(waiting) /\ waiting'[i] = waiting[i + 1]
    BY HeadTail DEF QIInv, Queue!QueueTypeOK
  <1>2. \A i \in 1 .. Len(waiting') :
            i + 1 \in 1 .. Len(waiting) /\ waiting'[i] = waiting[i + 1] /\ i + 1 # 1
    BY <1>1
  <1>3. \A i, j \in 1 .. Len(waiting') : waiting'[i] = waiting'[j] => i = j
    <2> SUFFICES ASSUME NEW i \in 1 .. Len(waiting'), NEW j \in 1 .. Len(waiting'),
                        waiting'[i] = waiting'[j]
                 PROVE  i = j
      OBVIOUS
    <2>1. i + 1 = j + 1
      BY <1>2 DEF QIInv, Queue!QueueTypeOK
    <2> QED BY <2>1, <1>1
  <1>4. 1 \in 1 .. Len(waiting)
    BY <1>1
  <1>5. \E w \in Goids : w = Head(waiting) /\ Queue!Waits(w) /\ ~Queue!Waits(w)'
    <2>1. PICK w \in Goids : w = Head(waiting) /\ w = waiting[1]
      BY <1>1
    <2>2. \A i \in 1 .. Len(waiting') : waiting'[i] # w
      BY <1>2, <1>4, <2>1 DEF QIInv, Queue!QueueTypeOK
    <2>3. Queue!Waits(w) /\ ~Queue!Waits(w)'
      BY <1>4, <2>1, <2>2 DEF Queue!Waits
    <2> QED BY <2>1, <2>3
  <1>6. \A h : Queue!Waits(h)' => Queue!Waits(h)
    BY <1>2 DEF Queue!Waits
  <1> QED BY <1>1, <1>3, <1>5, <1>6

-----------------------------------------------------------------------------

LEMMA PutKeeps ==
    ASSUME MaxPuts \in Nat, QIInv, NEW g \in Goids, Queue!Put(g)
    PROVE  QIInv'
  <1>1. /\ buf' \in Seq(1 .. MaxPuts) /\ puts' \in 0 .. MaxPuts
        /\ Len(buf) \in Nat /\ Len(buf') = Len(buf) + 1 /\ ItemsInOrder' /\ got' = got /\ pc' = pc
    BY PutEffect DEF Queue!Put, Queue!evalVars
  <1>2. CASE waiting = << >>
    <2>1. UNCHANGED <<waiting, signalled>>
      BY <1>2 DEF Queue!Put
    <2>2. Queue!QueueTypeOK'
      BY <1>1, <2>1 DEF QIInv, Queue!QueueTypeOK, Queue!InGet, Queue!Waits
    <2> QED BY <1>1, <1>2, <2>1, <2>2, QueueCardinality DEF QIInv, Queue!EnoughWoken
  <1>3. CASE waiting # << >>
    <2>0. waiting' = Tail(waiting)
      BY <1>3 DEF Queue!Put
    <2>1. PICK w \in Goids : w = Head(waiting) /\ Queue!Waits(w) /\ ~Queue!Waits(w)'
      BY <1>3, <2>0, QueueSignalEffect
    <2>2. /\ waiting' \in Seq(Goids) /\ signalled' = signalled \cup {w}
          /\ \A i, j \in 1 .. Len(waiting') : waiting'[i] = waiting'[j] => i = j
          /\ \A h : Queue!Waits(h)' => Queue!Waits(h)
      BY <1>3, <2>0, <2>1, QueueSignalEffect DEF Queue!Put
    <2>3. w \notin signalled /\ signalled' \subseteq Goids
      BY <2>1, <2>2 DEF QIInv, Queue!QueueTypeOK
    <2>4. /\ IsFiniteSet(signalled') /\ Cardinality(signalled') = Cardinality(signalled) + 1
          /\ Cardinality(signalled) \in Nat
      BY <2>1, <2>2, <2>3, FS_AddElement, FS_CardinalityType DEF QIInv
    <2>5. Queue!EnoughWoken'
      BY <1>1, <1>3, <2>4, QueueCardinality DEF QIInv, Queue!EnoughWoken
    <2>6. \A h \in Goids : Queue!InGet(h)' => Queue!InGet(h)
      BY <2>1, <2>2 DEF Queue!InGet
    <2>7. \A h \in signalled' : ~Queue!Waits(h)'
      <3>1. \A h \in signalled : ~Queue!Waits(h)
        BY DEF QIInv, Queue!QueueTypeOK
      <3> QED BY <2>1, <2>2, <3>1
    <2>8. got \in Seq(1 .. MaxPuts) /\ \A h \in Goids : Queue!InGet(h)' => pc'[h] = IF h \in Bare THEN "out" ELSE "run"
      BY <1>1, <2>6 DEF QIInv, Queue!QueueTypeOK
    <2>9. Queue!QueueTypeOK'
      BY <1>1, <2>2, <2>3, <2>7, <2>8 DEF Queue!QueueTypeOK
    <2> QED BY <1>1, <2>4, <2>5, <2>9 DEF QIInv
  <1> QED BY <1>2, <1>3

LEMMA GetKeeps ==
    ASSUME QIInv, NEW g \in Goids, Queue!Get(g)
    PROVE  QIInv'
  <1>1. /\ buf' \in Seq(1 .. MaxPuts) /\ got' \in Seq(1 .. MaxPuts) /\ ItemsInOrder'
        /\ Len(buf) \in Nat /\ Len(buf') = Len(buf) - 1 /\ puts' \in 0 .. MaxPuts
        /\ UNCHANGED <<waiting, signalled>> /\ pc' = pc
    BY TakeItemEffect DEF Queue!Get, Queue!evalVars
  <1>2. Queue!QueueTypeOK'
    BY <1>1 DEF QIInv, Queue!QueueTypeOK, Queue!InGet, Queue!Waits
  <1>3. Cardinality(signalled) \in Nat
    BY FS_CardinalityType DEF QIInv
  <1>4. Queue!EnoughWoken'
    BY <1>1, <1>3, QueueCardinality DEF QIInv, Queue!EnoughWoken
  <1> QED BY <1>1, <1>2, <1>4 DEF QIInv

LEMMA GetWaitsKeeps ==
    ASSUME QIInv, NEW g \in Goids, Queue!GetWaits(g)
    PROVE  QIInv'
  <1>1. /\ UNCHANGED <<buf, signalled, puts, got>> /\ pc' = pc /\ buf = << >>
        /\ ~Queue!InGet(g) /\ pc[g] = IF g \in Bare THEN "out" ELSE "run"
    BY DEF Queue!GetWaits, Queue!Ready, Queue!evalVars
  <1>2. /\ waiting' \in Seq(Goids)
        /\ \A i, j \in 1 .. Len(waiting') : waiting'[i] = waiting'[j] => i = j
        /\ \A h : Queue!Waits(h)' <=> Queue!Waits(h) \/ h = g
    BY <1>1, QueueWaitEffect DEF Queue!GetWaits, Queue!InGet
  <1>3. Queue!QueueTypeOK'
    BY <1>1, <1>2 DEF QIInv, Queue!QueueTypeOK, Queue!InGet
  <1>4. Len(buf') = 0 /\ Cardinality(signalled) \in Nat
    BY <1>1, FS_CardinalityType DEF QIInv
  <1>5. Queue!EnoughWoken'
    BY <1>1, <1>4, QueueCardinality DEF Queue!EnoughWoken
  <1> QED BY <1>1, <1>3, <1>5 DEF QIInv, ItemsInOrder

LEMMA QueueWokenKeeps ==
    ASSUME QIInv, NEW g \in Goids, Queue!Woken(g)
    PROVE  QIInv'
  <1>1. g \in signalled /\ signalled' = signalled \ {g} /\ pc' = pc
    BY DEF Queue!Woken, Queue!evalVars
  <1>2. /\ IsFiniteSet(signalled') /\ Cardinality(signalled') = Cardinality(signalled) - 1
        /\ Cardinality(signalled) \in Nat /\ Cardinality(signalled') \in Nat
    BY <1>1, FS_RemoveElement, FS_CardinalityType DEF QIInv
  <1>3. CASE Queue!TakeItem /\ UNCHANGED waiting
    <2>1. /\ buf' \in Seq(1 .. MaxPuts) /\ got' \in Seq(1 .. MaxPuts) /\ ItemsInOrder'
          /\ Len(buf) \in Nat /\ Len(buf') = Len(buf) - 1 /\ puts' \in 0 .. MaxPuts
      BY <1>3, TakeItemEffect
    <2>2. Queue!QueueTypeOK'
      BY <1>1, <1>3, <2>1 DEF QIInv, Queue!QueueTypeOK, Queue!InGet, Queue!Waits
    <2>3. Queue!EnoughWoken'
      BY <1>2, <1>3, <2>1, QueueCardinality DEF QIInv, Queue!EnoughWoken
    <2> QED BY <1>1, <1>2, <2>1, <2>2, <2>3 DEF QIInv
  <1>4. CASE buf = << >> /\ waiting' = Append(waiting, g) /\ UNCHANGED <<buf, puts, got>>
    <2>1. ~Queue!Waits(g) /\ g \in Goids
      BY <1>1 DEF QIInv, Queue!QueueTypeOK
    <2>2. /\ waiting' \in Seq(Goids)
          /\ \A i, j \in 1 .. Len(waiting') : waiting'[i] = waiting'[j] => i = j
          /\ \A h : Queue!Waits(h)' <=> Queue!Waits(h) \/ h = g
      BY <1>4, <2>1, QueueWaitEffect
    <2>3. \A h \in Goids : Queue!InGet(h)' => Queue!InGet(h)
      BY <1>1, <2>2 DEF Queue!InGet
    <2>4. \A h \in signalled' : ~Queue!Waits(h)'
      BY <1>1, <2>2 DEF QIInv, Queue!QueueTypeOK
    <2>5. Queue!QueueTypeOK'
      BY <1>1, <1>4, <2>2, <2>3, <2>4 DEF QIInv, Queue!QueueTypeOK
    <2>6. Queue!EnoughWoken'
      BY <1>2, <1>4, QueueCardinality DEF Queue!EnoughWoken
    <2> QED BY <1>1, <1>2, <1>4, <2>5, <2>6 DEF QIInv, ItemsInOrder
  <1> QED BY <1>3, <1>4 DEF Queue!Woken

-----------------------------------------------------------------------------

(* The inductive invariant of the queue. *)
THEOREM QueueInvariance ==
    ASSUME MaxPuts \in Nat
    PROVE  Queue!QueueSpec => []QIInv
  <1>1. QIInv /\ [Queue!QueueNext]_(Queue!vars) => QIInv'
    <2> SUFFICES ASSUME QIInv, [Queue!QueueNext]_(Queue!vars) PROVE QIInv'
      OBVIOUS
    <2>1. ASSUME NEW g \in Goids, Queue!QueueStep(g) PROVE QIInv'
      BY <2>1, PutKeeps, GetKeeps, GetWaitsKeeps, QueueWokenKeeps, QueueEvalKeeps
         DEF Queue!QueueStep
    <2>2. CASE UNCHANGED Queue!vars
      BY <2>2 DEF Queue!vars, Queue!evalVars, Queue!queueVars, QIInv, Queue!QueueTypeOK,
         Queue!InGet, Queue!Waits, Queue!EnoughWoken, ItemsInOrder
    <2> QED BY <2>1, <2>2 DEF Queue!QueueNext
  <1> QED BY <1>1, QueueInitQIInv, PTL DEF Queue!QueueSpec

(* module/_queue/module.go:98-156: no put is lost on a getter that was     *)
(* woken for an item that somebody else took, and items come out in the    *)
(* order they were put in, each once.                                      *)
THEOREM QueueCorrect ==
    ASSUME MaxPuts \in Nat
    PROVE  Queue!QueueSpec => []Queue!QueueInv
  <1>1. ASSUME QIInv PROVE Queue!QueueInv
    <2>1. /\ got \in Seq(1 .. MaxPuts) /\ buf \in Seq(1 .. MaxPuts)
          /\ Len(got) \in Nat /\ Len(buf) \in Nat
      BY <1>1 DEF QIInv, Queue!QueueTypeOK
    <2>2. /\ Len(got \o buf) = Len(got) + Len(buf)
          /\ \A i \in 1 .. Len(got) + Len(buf) :
                (got \o buf)[i] = IF i <= Len(got) THEN got[i] ELSE buf[i - Len(got)]
      BY <2>1
    <2>3. ASSUME NEW i \in 1 .. Len(got \o buf) PROVE (got \o buf)[i] = i
      <3>1. CASE i <= Len(got)
        BY <1>1, <2>1, <2>2, <3>1 DEF QIInv, ItemsInOrder
      <3>2. CASE ~(i <= Len(got))
        <4>1. i - Len(got) \in 1 .. Len(buf) /\ (got \o buf)[i] = buf[i - Len(got)]
          BY <2>1, <2>2, <3>2
        <4>2. buf[i - Len(got)] = Len(got) + (i - Len(got))
          BY <1>1, <4>1 DEF QIInv, ItemsInOrder
        <4> QED BY <2>1, <4>1, <4>2
      <3> QED BY <3>1, <3>2
    <2>4. Queue!FirstInFirstOut
      BY <1>1, <2>2, <2>3 DEF Queue!FirstInFirstOut, QIInv, ItemsInOrder
    <2> QED BY <1>1, <2>4 DEF QIInv, Queue!QueueInv
  <1> QED BY <1>1, QueueInvariance, PTL
=============================================================================
