----------------------------- MODULE MCThreads -----------------------------
(***************************************************************************)
(* Instances of EvalLoop, ThreadLock and ThreadHandle for TLC: the eval    *)
(* loop by itself, with locks, and with threads that are started and       *)
(* joined.  A behaviour is of one kind.                                    *)
(***************************************************************************)
EXTENDS ThreadLock

CONSTANTS
    Kinds,              \* of EvalLoop, ThreadLock, ThreadHandle
    t1, t2, t3, l1, h1, h2

VARIABLES kind, life, handleOf, starting, joining, ident, done

OwnThread == [g \in Goids |-> g]

Hd == INSTANCE ThreadHandle WITH
    Parents <- {t1}, Joiners <- {t1, t2}, Handles <- {h1, h2}, Reuse <- FALSE

ASSUME Hd!HandleAssumption

handleVars == <<life, handleOf, starting, joining, ident, done>>
AllVars == <<kind, evalVars, lockVars, handleVars>>

(* The variables of the other kinds. *)
NoLock ==
    /\ mu = [l \in Locks |-> FALSE] /\ flag = [l \in Locks |-> FALSE]
    /\ task = [g \in Goids |-> NoTask] /\ held = [g \in Goids |-> {}]
NoHandle == life = None /\ handleOf = None /\ starting = None /\ joining = None
            /\ ident = None /\ done = None

OnlyEval == kind = "EvalLoop" /\ UNCHANGED <<kind, lockVars, handleVars>>
OnlyLock == kind = "ThreadLock" /\ UNCHANGED <<kind, handleVars>>
OnlyHandle == kind = "ThreadHandle" /\ UNCHANGED <<kind, lockVars>>

ThreadsInit ==
    /\ kind \in Kinds
    /\ \/ kind = "EvalLoop" /\ Init /\ NoLock /\ NoHandle
       \/ kind = "ThreadLock" /\ LockInit /\ NoHandle
       \/ kind = "ThreadHandle" /\ Hd!HandleInit /\ NoLock

ThreadsNext ==
    \/ OnlyEval /\ Next
    \/ OnlyLock /\ LockNext
    \/ OnlyHandle /\ Hd!HandleNext

(* The fairness of each module.  A behaviour is of one kind, so fairness   *)
(* of what is done in one kind or in another is fairness of each.          *)
TakesGil(g) ==
    \/ OnlyEval /\ Acquire(g)
    \/ OnlyLock /\ TakeGil(g)
    \/ OnlyHandle /\ Hd!TakeGil(g)

Yields(g) ==
    \/ OnlyEval /\ (Poll(g) \/ HandleBreaker(g))
    \/ OnlyLock /\ (Poll(g) \/ HandleBreaker(g)) /\ UNCHANGED lockVars
    \/ OnlyHandle /\ Hd!Eval(g) /\ pc[g] # "out" /\ pc'[g] \notin {"out", "blocked"}

Blocks(g) ==
    \/ OnlyLock /\ BeginAllowThreads(g) /\ UNCHANGED lockVars
    \/ OnlyHandle /\ Hd!Eval(g) /\ Hd!Runs(g) /\ BeginAllowThreads(g)

ComesBack(g) ==
    \/ OnlyLock /\ (Back(g) \/ StoreFlag(g) \/ TimeOut(g))
    \/ OnlyHandle /\ Hd!Joined(g)

StartsOrEnds(c) == OnlyHandle /\ (Hd!Publish(c) \/ Hd!CallFunction(c) \/ Hd!SetDone(c))

(* It waits for the GIL or for a lock, never for both, and gets it. *)
GetsIt(g) ==
    \/ TakesGil(g) /\ pc'[g] = "run"
    \/ OnlyLock /\ GetMutex(g)

(* It runs with a lock, or a thread's function, and is done. *)
IsDone(g) ==
    \/ OnlyLock /\ \E l \in held[g] : Release(g, l)
    \/ OnlyHandle /\ Hd!Return(g)

ThreadsSpec ==
    /\ ThreadsInit /\ [][ThreadsNext]_AllVars
    /\ \A g \in Goids :
          /\ WF_AllVars(TakesGil(g)) /\ SF_AllVars(GetsIt(g)) /\ SF_AllVars(IsDone(g))
          /\ WF_AllVars(Yields(g)) /\ WF_AllVars(Blocks(g)) /\ WF_AllVars(ComesBack(g))
          /\ WF_AllVars(StartsOrEnds(g)) /\ WF_AllVars(OnlyHandle /\ Hd!ReceiveIdent(g))

-----------------------------------------------------------------------------

(* handle.go:85, 285-300: what a handle tells is true of the thread it was *)
(* started with: its ident to who started it, done to who joins it.        *)
HandleInv == kind = "ThreadHandle" => Hd!HandleInv

Owed(g) ==
    CASE kind = "ThreadLock"   -> task[g].at = "wait"
      [] kind = "ThreadHandle" -> starting[g] # None \/ joining[g] # Hd!NoJoin
      [] OTHER                 -> FALSE

Paid(g) ==
    CASE kind = "ThreadLock"   -> task[g].at = "" /\ pc[g] = "run"
      [] kind = "ThreadHandle" -> starting[g] = None /\ joining[g] = Hd!NoJoin
      [] OTHER                 -> TRUE

(* module.go:375: a goroutine in acquire() gets the lock when those who    *)
(* get it release it: the wait does not keep the GIL from the holder.      *)
(* handle.go:303: a thread that starts another gets its ident although it  *)
(* has the GIL.  handle.go:166: whoever joins a thread goes on when that   *)
(* one is done.                                                            *)
BlockingCallsReturn == \A g \in Goids : Owed(g) ~> Paid(g)
=============================================================================
