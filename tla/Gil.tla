-------------------------------- MODULE Gil --------------------------------
(***************************************************************************)
(* gil/gil.go: the global interpreter lock, as actions for the modules of  *)
(* the goroutines that use it.                                             *)
(*                                                                         *)
(* The lock is owned twice over: by a logical thread (holder, the          *)
(* PyThreadState) and by the goroutine that runs on its behalf             *)
(* (holderGoid).  A generator body is a goroutine of its own that shares   *)
(* its creator's thread, so the two differ.                                *)
(*                                                                         *)
(* Every method runs under g.mu and is one action, except that             *)
(* AcquireReentrant gives g.mu up in cond.Wait: from there a goroutine is  *)
(* first on cond's list (condq), and, once signalled, off it (woken) and   *)
(* on its way to take g.mu and look at the lock again.  Until it does,     *)
(* anybody who comes along may take the lock.                              *)
(***************************************************************************)
EXTENDS Naturals, Sequences

CONSTANTS
    Threads,    \* logical threads (PyThreadState)
    Goids,      \* goroutines
    None        \* no thread, no goroutine (nil, 0)

ASSUME GilAssumption == None \notin Threads \cup Goids

VARIABLES
    locked,
    holder,
    holderGoid,
    requestDrop,
    condq,      \* goroutines in cond.Wait, in the order they came
    woken       \* goroutines signalled and not yet back under g.mu

gilVars == <<locked, holder, holderGoid, requestDrop, condq, woken>>

GilTypeOK ==
    /\ locked \in BOOLEAN
    /\ holder \in Threads \cup {None}
    /\ holderGoid \in Goids \cup {None}
    /\ requestDrop \in BOOLEAN
    /\ condq \in Seq(Goids)
    /\ \A i, j \in 1 .. Len(condq) : condq[i] = condq[j] => i = j
    /\ woken \subseteq Goids
    /\ \A i \in 1 .. Len(condq) : condq[i] \notin woken

GilInit ==
    /\ locked = FALSE
    /\ holder = None
    /\ holderGoid = None
    /\ requestDrop = FALSE
    /\ condq = << >>
    /\ woken = {}

-----------------------------------------------------------------------------

InCond(g) == \E i \in 1 .. Len(condq) : condq[i] = g

HeldByGoid(g) == locked /\ holderGoid = g

(* AcquireReentrant returning false: ts holds the lock already.  Only      *)
(* looked at on the way in, not after a wait.                              *)
AlreadyHeld(ts, g) ==
    /\ ~InCond(g) /\ g \notin woken
    /\ locked /\ holder = ts
    /\ UNCHANGED gilVars

(* AcquireReentrant, on the way in or after a wait: the lock is free.      *)
Take(ts, g) ==
    /\ ~InCond(g)
    /\ ~locked
    /\ locked' = TRUE
    /\ holder' = ts
    /\ holderGoid' = g
    /\ requestDrop' = FALSE
    /\ woken' = woken \ {g}
    /\ UNCHANGED condq

(* AcquireReentrant returns. *)
Acquired(ts, g) == IF locked THEN AlreadyHeld(ts, g) ELSE Take(ts, g)

(* AcquireReentrant, on the way in or after a wait: the lock is taken, so  *)
(* ask for a drop and wait.                                                *)
Wait(ts, g) ==
    /\ ~InCond(g)
    /\ locked
    /\ g \in woken \/ holder # ts
    /\ requestDrop' = TRUE
    /\ condq' = Append(condq, g)
    /\ woken' = woken \ {g}
    /\ UNCHANGED <<locked, holder, holderGoid>>

(* Mutant: the signalled goroutine stays on the list. *)
SignalKeeps ==
    IF condq = << >> THEN UNCHANGED <<condq, woken>>
    ELSE woken' = woken \cup {Head(condq)} /\ UNCHANGED condq

(* cond.Signal: the goroutine that has waited longest. *)
SignalOne ==
    IF condq = << >> THEN UNCHANGED <<condq, woken>>
    ELSE condq' = Tail(condq) /\ woken' = woken \cup {Head(condq)}

(* Mutant: ReleaseGoid does not signal. *)
ReleaseSilently(g) ==
    IF HeldByGoid(g)
    THEN /\ locked' = FALSE /\ holder' = None /\ holderGoid' = None
         /\ UNCHANGED <<requestDrop, condq, woken>>
    ELSE UNCHANGED gilVars

(* ReleaseGoid: nothing happens unless g owns the lock. *)
ReleaseGoid(g) ==
    IF HeldByGoid(g)
    THEN /\ locked' = FALSE /\ holder' = None /\ holderGoid' = None
         /\ SignalOne
         /\ UNCHANGED requestDrop
    ELSE UNCHANGED gilVars

(* Handoff: ts's hold passes to another goroutine; nothing happens if the  *)
(* holder is another thread.                                               *)
Handoff(ts, to) ==
    /\ holderGoid' = IF locked /\ holder = ts THEN to ELSE holderGoid
    /\ UNCHANGED <<locked, holder, requestDrop, condq, woken>>
=============================================================================
