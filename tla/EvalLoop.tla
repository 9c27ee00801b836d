------------------------------ MODULE EvalLoop ------------------------------
(***************************************************************************)
(* Goroutines that run Python code under the GIL: entering and leaving     *)
(* Eval (vm/eval_call.go), the switch-interval poll and the drop request   *)
(* at RESUME and backward jumps (vm/eval_gil.go, handleEvalBreaker), and   *)
(* Py_BEGIN_ALLOW_THREADS (vm/thread_hook.go).                             *)
(*                                                                         *)
(* Python code itself is the value "run" of pc.  The drop bit of the       *)
(* breaker is set by a goroutine's own poll and handled before its next    *)
(* instruction, so it is the value "breaker".  How much time has passed is *)
(* not modelled: the switch interval may be over at any poll.              *)
(***************************************************************************)
EXTENDS Gil

CONSTANT ThreadOf   \* the logical thread each goroutine runs for

ASSUME ThreadOfAssumption == ThreadOf \in [Goids -> Threads]

VARIABLES
    pc,
    armed       \* gilTimer.armed of each logical thread

evalVars == <<gilVars, pc, armed>>

(* `out` of Eval; in AcquireReentrant on entry (enter) or after having     *)
(* given the lock up (retake); running Python (run); about to handle the   *)
(* drop request (breaker); in a blocking call with the GIL released        *)
(* (blocked) or, because it was not the caller's to release, not (pinned). *)
EvalPCs == {"out", "enter", "run", "breaker", "retake", "blocked", "pinned"}

TypeOK ==
    /\ GilTypeOK
    /\ pc \in [Goids -> EvalPCs]
    /\ armed \in [Threads -> BOOLEAN]

Init ==
    /\ GilInit
    /\ pc = [g \in Goids |-> "out"]
    /\ armed = [t \in Threads |-> FALSE]

Goto(g, from, to) == pc[g] = from /\ pc' = [pc EXCEPT ![g] = to]

-----------------------------------------------------------------------------

(* setActiveThread with no frame below. *)
Enter(g) == Goto(g, "out", "enter") /\ UNCHANGED <<gilVars, armed>>

(* AcquireReentrant and the reset of the switch timer.  On entry the timer *)
(* is left alone when the thread had the lock already.                     *)
Acquire(g) ==
    \/ /\ Goto(g, "enter", "run") \/ Goto(g, "retake", "run")
       /\ Acquired(ThreadOf[g], g)
       /\ armed' = [armed EXCEPT ![ThreadOf[g]] = @ /\ pc[g] = "enter" /\ locked]
    \/ /\ pc[g] \in {"enter", "retake"}
       /\ Wait(ThreadOf[g], g)
       /\ UNCHANGED <<pc, armed>>

(* restoreActiveThread with no frame below. *)
Leave(g) ==
    /\ Goto(g, "run", "out")
    /\ ReleaseGoid(g)
    /\ UNCHANGED armed

(* gilSwitchTimer.poll when the interval is over and a drop requested. *)
Poll(g) ==
    /\ Goto(g, "run", "breaker")
    /\ requestDrop /\ ~armed[ThreadOf[g]]
    /\ armed' = [armed EXCEPT ![ThreadOf[g]] = TRUE]
    /\ UNCHANGED gilVars

(* Mutant: the breaker is cleared and the lock kept. *)
KeepGil(g) ==
    /\ Goto(g, "breaker", "run")
    /\ UNCHANGED <<gilVars, armed>>

(* handleEvalBreaker: the bit is cleared; the owner of the lock drops it.  *)
HandleBreaker(g) ==
    /\ Goto(g, "breaker", IF HeldByGoid(g) THEN "retake" ELSE "run")
    /\ ReleaseGoid(g)
    /\ UNCHANGED armed

(* Mutant: the blocking call is made with the lock held. *)
BlockWithGil(g) ==
    /\ Goto(g, "run", "blocked")
    /\ UNCHANGED <<gilVars, armed>>

(* BeginAllowThreads before a call that blocks, and its end. *)
BeginAllowThreads(g) ==
    /\ Goto(g, "run", IF HeldByGoid(g) THEN "blocked" ELSE "pinned")
    /\ ReleaseGoid(g)
    /\ UNCHANGED armed

(* Mutant: the lock is not taken again after the blocking call. *)
EndWithoutGil(g) ==
    /\ Goto(g, "blocked", "run") \/ Goto(g, "pinned", "run")
    /\ UNCHANGED <<gilVars, armed>>

EndAllowThreads(g) ==
    /\ Goto(g, "blocked", "retake") \/ Goto(g, "pinned", "run")
    /\ UNCHANGED <<gilVars, armed>>

Step(g) ==
    \/ Enter(g) \/ Acquire(g) \/ Leave(g)
    \/ Poll(g) \/ HandleBreaker(g)
    \/ BeginAllowThreads(g) \/ EndAllowThreads(g)

Next == \E g \in Goids : Step(g)

Spec == Init /\ [][Next]_evalVars

(* Python code polls, a goroutine inside AcquireReentrant goes on, and one *)
(* that time and again finds the lock free gets it in the end: Gosched     *)
(* after a drop, and sync.Mutex's own fairness, let the signalled          *)
(* goroutine in.  Nobody need ever leave, block or come back.              *)
FairSpec ==
    /\ Spec
    /\ \A g \in Goids :
          /\ WF_evalVars(Poll(g) \/ HandleBreaker(g))
          /\ WF_evalVars(Acquire(g))
          /\ SF_evalVars(Acquire(g) /\ pc'[g] = "run")

-----------------------------------------------------------------------------

Running == { g \in Goids : pc[g] \in {"run", "breaker"} }

(* threadstate.go:46: the eval loop serializes bytecode: whoever runs      *)
(* Python is alone.                                                        *)
OneRuns == \A g, h \in Running : g = h

(* The lock is owned by the goroutine that runs, and by its thread: a      *)
(* goroutine that is parked or out of Eval never keeps it from the others. *)
HolderRuns ==
    /\ locked => holderGoid \in Running /\ holder = ThreadOf[holderGoid]
    /\ \A g \in Running : HeldByGoid(g)

(* Nobody sleeps on a free lock: while there are goroutines in cond.Wait,  *)
(* the lock is held, and will be signalled when released, or one of them   *)
(* has been woken and is on its way.                                       *)
NoLostSignal == condq # << >> => locked \/ woken # {}

(* A thread that has armed its drop request does drop: the timer would not *)
(* arm it again.                                                           *)
ArmedYields == \A g \in Running : armed[ThreadOf[g]] => pc[g] = "breaker"

(* gil.go:81: "A contended acquire arms requestDrop so the current holder  *)
(* yields": when it does, the lock changes hands, however long the holder  *)
(* would compute.                                                          *)
RequestIsHonoured == requestDrop ~> ~requestDrop
=============================================================================
