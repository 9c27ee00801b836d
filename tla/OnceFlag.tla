------------------------------ MODULE OnceFlag ------------------------------
(***************************************************************************)
(* pysync/once.go: run a function once.                                    *)
(*                                                                         *)
(* The word is "unlocked" or "locked".  The constant flagOnceInitialized   *)
(* is an alias of flagLocked, so "locked" stands for a runner at work and  *)
(* for a finished one alike.  A goroutine that finds the word neither      *)
(* unlocked nor locked would set HasParked and park; NeverParks says that  *)
(* this code is never reached, which is why the module needs no lot.       *)
(*                                                                         *)
(* fn is a step that returns nil or an error.  `succeeded` is not in the   *)
(* code: it says that some fn has returned nil.                            *)
(***************************************************************************)
EXTENDS Naturals, FiniteSets

CONSTANT Threads

VARIABLES word, pc, succeeded

vars == <<word, pc, succeeded>>

(* idle, in Do (load, claim, run, park), or returned nil or fn's error.    *)
PCs == {"idle", "load", "claim", "run", "park", "nil", "error"}

TypeOK ==
    /\ word \in {"unlocked", "locked", "parked"}
    /\ pc \in [Threads -> PCs]
    /\ succeeded \in BOOLEAN

Init == word = "unlocked" /\ pc = [t \in Threads |-> "idle"] /\ succeeded = FALSE

Goto(t, from, to) == pc[t] = from /\ pc' = [pc EXCEPT ![t] = to]

(* Do: the first look at the word. *)
Call(t) ==
    /\ pc[t] \in {"idle", "nil", "error"}
    /\ pc' = [pc EXCEPT ![t] = IF word = "locked" THEN "nil" ELSE "load"]
    /\ UNCHANGED <<word, succeeded>>

(* Do: the load at the top of the loop. *)
Load(t) ==
    /\ Goto(t, "load", CASE word = "unlocked" -> "claim"
                         [] word = "locked"   -> "nil"
                         [] word = "parked"   -> "park")
    /\ UNCHANGED <<word, succeeded>>

(* Do: the swap that makes t the runner. *)
Claim(t) ==
    /\ \/ word = "unlocked" /\ Goto(t, "claim", "run") /\ word' = "locked"
       \/ word # "unlocked" /\ Goto(t, "claim", "load") /\ UNCHANGED word
    /\ UNCHANGED succeeded

(* fn returns; unlock publishes what it returned. *)
Finish(t) ==
    \/ Goto(t, "run", "nil") /\ word' = "locked" /\ succeeded' = TRUE
    \/ Goto(t, "run", "error") /\ word' = "unlocked" /\ UNCHANGED succeeded

Run(t) == Load(t) \/ Claim(t) \/ Finish(t)
Next == \E t \in Threads : Call(t) \/ Run(t)
Spec == Init /\ [][Next]_vars

(* Calls run to their end, and so does fn. *)
FairSpec == Spec /\ \A t \in Threads : WF_vars(Run(t))

-----------------------------------------------------------------------------

Running == { t \in Threads : pc[t] = "run" }

(* once.go:49: fn runs in one goroutine at a time, and not again once it   *)
(* has succeeded; while it runs, the word keeps the others from running it.*)
RunsOnce ==
    /\ \A t, u \in Running : t = u
    /\ Running # {} => word = "locked" /\ ~succeeded

(* once.go:68: the parking code of Do is never reached, and no caller ever *)
(* sets HasParked.                                                         *)
NeverParks == word # "parked" /\ \A t \in Threads : pc[t] # "park"

(* once.go:85: after an error the flag can be claimed again: it is locked  *)
(* for good only when fn has succeeded.                                    *)
LockedForAReason == word = "locked" <=> Running # {} \/ succeeded

(* once.go:44: "Concurrent callers block until the runner finishes."  Do   *)
(* returns nil only when fn has returned nil.                              *)
NilMeansDone == \A t \in Threads : pc[t] = "nil" => succeeded
=============================================================================
