---------------------------- MODULE RLockProofs ----------------------------
(***************************************************************************)
(* Proofs about RLock, for any number of goroutines that run for threads   *)
(* of their own, and any bound on how deep they enter.                     *)
(*                                                                         *)
(* RIInv adds three parts to the properties.  GotIsShut: who has got the   *)
(* gate has shut it.  WaitersBlock: a goroutine in acquire is in its       *)
(* blocking call or on the way back from it, so that it does not call      *)
(* acquire a second time and forget the gate it has.  That needs RunsOK:   *)
(* who runs owns the GIL, or the blocking call would not give it up.       *)
(***************************************************************************)
EXTENDS RLock, TLAPS

OwnThreads == \A g, h \in Goids : ThreadOf[g] = ThreadOf[h] => g = h

RLockSpec == RLockInit /\ [][RLockNext]_vars

RTypes ==
    /\ owner \in Goids \cup {None} /\ gate \in BOOLEAN
    /\ count \in 0 .. MaxDepth
    /\ task \in [Goids -> Tasks]
    /\ saved \in [Goids -> 0 .. MaxDepth]
    /\ depth \in [Goids -> 0 .. MaxDepth]

RunsOK ==
    /\ \A g \in Goids : pc[g] \in {"run", "breaker", "restore"} <=> HeldByGoid(g)
    /\ locked => holderGoid \in Goids /\ holder = ThreadOf[holderGoid]

WaitersBlock ==
    /\ pc \in [Goids -> EvalPCs \cup {"restore"}]
    /\ \A g \in Goids : pc[g] # "pinned"
    /\ \A g \in Goids : task[g] # "" => pc[g] \in {"blocked", "retake"}

(* Who has got the gate has shut it. *)
GotIsShut == \A g \in Goids : task[g] = "got" => gate

(* The part about the lock, and the part about where goroutines are. *)
Bookkeeping == RTypes /\ CountIsDepth /\ GateGuardsOwner /\ GotIsShut
Places == RunsOK /\ WaitersBlock

RIInv == Bookkeeping /\ Places

-----------------------------------------------------------------------------

LEMMA DepthBounds == MaxDepth \in Nat /\ 0 \in 0 .. MaxDepth /\ 1 \in 0 .. MaxDepth
  <1>1. MaxDepth \in Nat /\ MaxDepth # 0
    BY RLockAssumption
  <1> QED BY <1>1

LEMMA RInitIInv == RLockInit => RIInv
  <1> SUFFICES ASSUME RLockInit PROVE RIInv
    OBVIOUS
  <1>1. /\ owner = None /\ gate = FALSE /\ count = 0 /\ 0 \in 0 .. MaxDepth
        /\ task = [g \in Goids |-> ""] /\ pc = [g \in Goids |-> "out"]
        /\ saved = [g \in Goids |-> 0] /\ depth = [g \in Goids |-> 0]
        /\ locked = FALSE
    BY DepthBounds DEF RLockInit, Init, GilInit
  <1>2. RTypes /\ WaitersBlock /\ RunsOK
    BY <1>1 DEF RTypes, WaitersBlock, RunsOK, HeldByGoid, Tasks, EvalPCs
  <1>3. CountIsDepth /\ GateGuardsOwner /\ GotIsShut
    BY <1>1, GilAssumption DEF CountIsDepth, GateGuardsOwner, GotIsShut
  <1> QED BY <1>2, <1>3 DEF RIInv, Bookkeeping, Places

LEMMA SameBookkeeping ==
    ASSUME RIInv, UNCHANGED rlockVars
    PROVE  Bookkeeping'
  BY DEF RIInv, Bookkeeping, RTypes, CountIsDepth, GateGuardsOwner, GotIsShut, rlockVars

-----------------------------------------------------------------------------

(* g gives the GIL up, and runs no more.                                   *)
LEMMA ReleaseKeepsPlaces ==
    ASSUME RIInv, NEW g \in Goids, NEW to \in {"out", "retake", "blocked"},
           pc[g] \in {"run", "breaker"}, pc' = [pc EXCEPT ![g] = to], ReleaseGoid(g),
           task'[g] # "" => to # "out",
           \A h \in Goids : h # g => task'[h] = task[h]
    PROVE  Places'
  <1>1. HeldByGoid(g) /\ locked' = FALSE
    BY DEF RIInv, Places, RunsOK, ReleaseGoid
  <1>2. RunsOK'
    BY <1>1 DEF RIInv, Places, RunsOK, WaitersBlock, HeldByGoid
  <1>3. WaitersBlock'
    BY DEF RIInv, Places, WaitersBlock, EvalPCs
  <1> QED BY <1>2, <1>3 DEF Places

(* g moves and the GIL stays where it is.                                  *)
LEMMA StayKeepsPlaces ==
    ASSUME RIInv, NEW g \in Goids, NEW to \in EvalPCs \cup {"restore"},
           pc' = [pc EXCEPT ![g] = to], UNCHANGED gilVars, to # "pinned",
           pc[g] \in {"run", "breaker", "restore"} <=> to \in {"run", "breaker", "restore"},
           task'[g] # "" => to \in {"blocked", "retake"},
           \A h \in Goids : h # g => task'[h] = task[h]
    PROVE  Places'
  <1>1. RunsOK'
    BY DEF RIInv, Places, RunsOK, WaitersBlock, HeldByGoid, gilVars
  <1>2. WaitersBlock'
    BY DEF RIInv, Places, WaitersBlock
  <1> QED BY <1>1, <1>2 DEF Places

(* AcquireReentrant: who gets the GIL finds it free, since nobody else     *)
(* runs for its thread.                                                    *)
LEMMA AcquireKeepsPlaces ==
    ASSUME OwnThreads, RIInv, NEW g \in Goids, Acquire(g),
           pc'[g] = "run" => task'[g] = "",
           pc'[g] # "run" => task'[g] = task[g],
           \A h \in Goids : h # g => task'[h] = task[h]
    PROVE  Places'
  <1>0. pc[g] \in {"enter", "retake"} /\ ~HeldByGoid(g)
    BY DEF Acquire, Goto, RIInv, Places, RunsOK
  <1>1. CASE pc' = pc /\ Wait(ThreadOf[g], g)
    <2>1. UNCHANGED <<locked, holder, holderGoid>>
      BY <1>1 DEF Wait
    <2>2. RunsOK'
      BY <1>1, <2>1 DEF RIInv, Places, RunsOK, HeldByGoid
    <2>3. WaitersBlock'
      BY <1>0, <1>1 DEF RIInv, Places, WaitersBlock
    <2> QED BY <2>2, <2>3 DEF Places
  <1>2. CASE pc' = [pc EXCEPT ![g] = "run"] /\ Acquired(ThreadOf[g], g)
    <2>1. pc'[g] = "run" /\ \A h \in Goids : h # g => pc'[h] = pc[h]
      BY <1>2 DEF RIInv, Places, WaitersBlock
    <2>2. CASE locked
      <3>1. holder = ThreadOf[g] /\ holderGoid \in Goids /\ holder = ThreadOf[holderGoid]
        BY <1>2, <2>2 DEF Acquired, AlreadyHeld, RIInv, Places, RunsOK
      <3>2. HeldByGoid(g)
        BY <2>2, <3>1 DEF OwnThreads, HeldByGoid
      <3> QED BY <1>0, <3>2
    <2>3. CASE ~locked
      <3>1. locked' /\ holder' = ThreadOf[g] /\ holderGoid' = g
        BY <1>2, <2>3 DEF Acquired, Take
      <3>2. \A h \in Goids : pc[h] \notin {"run", "breaker", "restore"}
        BY <2>3 DEF RIInv, Places, RunsOK, HeldByGoid
      <3>3. RunsOK'
        BY <2>1, <3>1, <3>2 DEF RunsOK, HeldByGoid
      <3>4. WaitersBlock'
        BY <1>2, <2>1 DEF RIInv, Places, WaitersBlock, EvalPCs
      <3> QED BY <3>3, <3>4 DEF Places
    <2> QED BY <2>2, <2>3
  <1> QED BY <1>1, <1>2 DEF Acquire, Goto

-----------------------------------------------------------------------------

(* A goroutine in acquire moves on, and no owner changes.                  *)
LEMMA TaskKeeps ==
    ASSUME RIInv, NEW g \in Goids, NEW to \in Tasks,
           task' = [task EXCEPT ![g] = to], UNCHANGED <<owner, count, saved, depth>>,
           \/ to # "got" /\ task[g] # "got" /\ UNCHANGED gate
           \/ to = "got" /\ ~gate /\ gate'
    PROVE  RTypes' /\ CountIsDepth' /\ GateGuardsOwner' /\ GotIsShut'
  <1>1. /\ task'[g] = to /\ \A h \in Goids : h # g => task'[h] = task[h]
        /\ task' \in [Goids -> Tasks] /\ gate' \in BOOLEAN
    BY DEF RIInv, Bookkeeping, RTypes
  <1>2. RTypes' /\ CountIsDepth'
    BY <1>1 DEF RIInv, Bookkeeping, RTypes, CountIsDepth
  <1>3. CASE to # "got" /\ task[g] # "got" /\ UNCHANGED gate
    <2>1. \A h \in Goids : task'[h] = "got" <=> task[h] = "got"
      BY <1>1, <1>3
    <2> QED BY <1>2, <1>3, <2>1 DEF RIInv, Bookkeeping, GateGuardsOwner, GotIsShut
  <1>4. CASE to = "got" /\ ~gate /\ gate'
    <2>1. owner = None /\ \A h \in Goids : task[h] # "got"
      BY <1>4 DEF RIInv, Bookkeeping, GateGuardsOwner, GotIsShut
    <2>2. \A h \in Goids : task'[h] = "got" <=> h = g
      BY <1>1, <1>4, <2>1
    <2> QED BY <1>2, <1>4, <2>1, <2>2 DEF RIInv, Bookkeeping, GateGuardsOwner, GotIsShut
  <1> QED BY <1>3, <1>4

(* The gate makes an owner: nobody else is, or is about to be.             *)
LEMMA NewOwnerKeeps ==
    ASSUME RIInv, NEW g \in Goids, NEW n \in 0 .. MaxDepth, n > 0,
           Owns(g, n), gate',
           ~gate \/ task[g] = "got",
           (task' = task /\ task[g] # "got") \/ task' = [task EXCEPT ![g] = ""],
           saved' \in [Goids -> 0 .. MaxDepth]
    PROVE  RTypes' /\ CountIsDepth' /\ GateGuardsOwner' /\ GotIsShut'
  <1>0. owner' = g /\ count' = n /\ depth' = [depth EXCEPT ![g] = n]
    BY DEF Owns
  <1>1. owner = None /\ \A h \in Goids : task[h] = "got" => h = g
    BY DEF RIInv, Bookkeeping, GateGuardsOwner, GotIsShut
  <1>2. task' \in [Goids -> Tasks] /\ \A h \in Goids : task'[h] # "got"
    BY <1>1 DEF RIInv, Bookkeeping, RTypes, Tasks
  <1>3. \A h \in Goids : depth[h] = 0
    BY <1>1, GilAssumption DEF RIInv, Bookkeeping, CountIsDepth
  <1>4. RTypes'
    BY <1>0, <1>2 DEF RIInv, Bookkeeping, RTypes
  <1>5. CountIsDepth'
    BY <1>0, <1>3 DEF RIInv, Bookkeeping, RTypes, CountIsDepth
  <1>6. GateGuardsOwner' /\ GotIsShut'
    BY <1>0, <1>2, GilAssumption DEF GateGuardsOwner, GotIsShut
  <1> QED BY <1>4, <1>5, <1>6

(* The owner leaves, and opens the gate.                                   *)
LEMMA OwnerGoneKeeps ==
    ASSUME RIInv, NEW g \in Goids, owner = g,
           owner' = None, count' = 0, ~gate', gate' \in BOOLEAN,
           depth' = [depth EXCEPT ![g] = 0], UNCHANGED task,
           saved' \in [Goids -> 0 .. MaxDepth]
    PROVE  RTypes' /\ CountIsDepth' /\ GateGuardsOwner' /\ GotIsShut'
  <1>1. \A h \in Goids : task[h] # "got"
    BY GilAssumption DEF RIInv, Bookkeeping, GateGuardsOwner
  <1>3. RTypes'
    BY DepthBounds DEF RIInv, Bookkeeping, RTypes
  <1>4. CountIsDepth'
    BY GilAssumption DEF RIInv, Bookkeeping, RTypes, CountIsDepth
  <1>5. GateGuardsOwner' /\ GotIsShut'
    BY <1>1 DEF GateGuardsOwner, GotIsShut
  <1> QED BY <1>3, <1>4, <1>5

(* The owner is in a different number of times, and stays the owner.       *)
LEMMA OwnerStaysKeeps ==
    ASSUME RIInv, NEW g \in Goids, owner = g, NEW n \in 0 .. MaxDepth, n > 0,
           Owns(g, n), gate', gate' \in BOOLEAN, UNCHANGED <<task, saved>>
    PROVE  RTypes' /\ CountIsDepth' /\ GateGuardsOwner' /\ GotIsShut'
  <1>1. owner' = g /\ count' = n /\ depth' = [depth EXCEPT ![g] = n]
    BY DEF Owns
  <1>2. RTypes'
    BY <1>1 DEF RIInv, Bookkeeping, RTypes
  <1>3. CountIsDepth'
    BY <1>1 DEF RIInv, Bookkeeping, RTypes, CountIsDepth
  <1>4. GateGuardsOwner' /\ GotIsShut'
    BY <1>1, GilAssumption DEF RIInv, Bookkeeping, GateGuardsOwner, GotIsShut
  <1> QED BY <1>2, <1>3, <1>4

-----------------------------------------------------------------------------

LEMMA EvalKeeps ==
    ASSUME RIInv, NEW g \in Goids, UNCHANGED rlockVars,
           Enter(g) \/ Leave(g) \/ Poll(g) \/ HandleBreaker(g) \/ BeginAllowThreads(g)
    PROVE  RIInv'
  <1>0. pc[g] \in {"out", "run", "breaker"}
    BY DEF Enter, Leave, Poll, HandleBreaker, BeginAllowThreads, Goto
  <1>1. task'[g] = "" /\ task' = task
    BY <1>0 DEF RIInv, Places, WaitersBlock, rlockVars
  <1>2. pc[g] \in {"run", "breaker"} => HeldByGoid(g)
    BY DEF RIInv, Places, RunsOK
  <1>3. CASE Enter(g) \/ Poll(g)
    <2>1. PICK to \in {"enter", "breaker"} :
              /\ pc' = [pc EXCEPT ![g] = to] /\ UNCHANGED gilVars
              /\ pc[g] = IF to = "enter" THEN "out" ELSE "run"
      BY <1>3 DEF Enter, Poll, Goto
    <2>2. Places'
      BY <1>1, <2>1, StayKeepsPlaces DEF EvalPCs
    <2> QED BY <2>2, SameBookkeeping DEF RIInv
  <1>4. CASE Leave(g) \/ HandleBreaker(g) \/ BeginAllowThreads(g)
    <2>1. PICK to \in {"out", "retake", "blocked"} :
              /\ pc' = [pc EXCEPT ![g] = to] /\ ReleaseGoid(g)
              /\ pc[g] \in {"run", "breaker"}
      BY <1>2, <1>4 DEF Leave, HandleBreaker, BeginAllowThreads, Goto
    <2>2. Places'
      BY <1>1, <2>1, ReleaseKeepsPlaces
    <2> QED BY <2>2, SameBookkeeping DEF RIInv
  <1> QED BY <1>3, <1>4

LEMMA AcquiringKeeps ==
    ASSUME RIInv, NEW g \in Goids, Acquiring(g)
    PROVE  RIInv'
  <1>1. PICK how \in {"wait", "poll"} : task' = [task EXCEPT ![g] = how]
    BY DEF Acquiring
  <1>2. /\ pc[g] = "run" /\ pc' = [pc EXCEPT ![g] = "blocked"] /\ ReleaseGoid(g)
        /\ UNCHANGED <<gate, owner, count, saved, depth>>
    BY DEF Acquiring, BeginAllowThreads, Goto, RIInv, Places, RunsOK
  <1>3. task[g] = "" /\ \A h \in Goids : h # g => task'[h] = task[h]
    BY <1>1, <1>2 DEF RIInv, Bookkeeping, RTypes, Places, WaitersBlock
  <1>4. Places'
    BY <1>2, <1>3, ReleaseKeepsPlaces
  <1>5. Bookkeeping'
    BY <1>1, <1>2, <1>3, TaskKeeps DEF Bookkeeping, Tasks
  <1> QED BY <1>4, <1>5 DEF RIInv

(* GetGate and TimeOut: where the goroutine is stays the same.             *)
LEMMA WaitEndsKeeps ==
    ASSUME RIInv, NEW g \in Goids, GetGate(g) \/ TimeOut(g)
    PROVE  RIInv'
  <1>1. PICK to \in {"got", "missed"} :
            /\ task' = [task EXCEPT ![g] = to] /\ task[g] \in {"wait", "poll"}
            /\ \/ to # "got" /\ UNCHANGED gate
               \/ to = "got" /\ ~gate /\ gate'
            /\ UNCHANGED <<owner, count, saved, depth, evalVars>>
    BY DEF GetGate, TimeOut
  <1>2. Bookkeeping'
    BY <1>1, TaskKeeps DEF Bookkeeping, Tasks
  <1>3. RunsOK'
    BY <1>1 DEF RIInv, Places, RunsOK, HeldByGoid, evalVars, gilVars
  <1>4. WaitersBlock'
    BY <1>1 DEF RIInv, Places, WaitersBlock, Bookkeeping, RTypes, evalVars
  <1> QED BY <1>2, <1>3, <1>4 DEF RIInv, Places

LEMMA BackKeeps ==
    ASSUME RIInv, NEW g \in Goids, Back(g)
    PROVE  RIInv'
  <1>1. /\ pc[g] = "blocked" /\ pc' = [pc EXCEPT ![g] = "retake"]
        /\ UNCHANGED gilVars /\ UNCHANGED rlockVars
    BY DEF Back, EndAllowThreads, Goto, RIInv, Places, WaitersBlock
  <1>2. Places'
    BY <1>1, StayKeepsPlaces DEF EvalPCs, rlockVars
  <1> QED BY <1>1, <1>2, SameBookkeeping DEF RIInv

(* The end of acquire, or one more round in the queue for the GIL.         *)
LEMMA TakeGilKeeps ==
    ASSUME OwnThreads, RIInv, NEW g \in Goids, TakeGil(g)
    PROVE  RIInv'
  <1>1. CASE pc'[g] # "run"
    <2>1. UNCHANGED rlockVars
      BY <1>1 DEF TakeGil
    <2>2. Places'
      BY <1>1, <2>1, AcquireKeepsPlaces DEF TakeGil, rlockVars
    <2> QED BY <2>1, <2>2, SameBookkeeping DEF RIInv
  <1>2. CASE pc'[g] = "run"
    <2>0. /\ task' = [task EXCEPT ![g] = ""] /\ UNCHANGED <<gate, saved>>
          /\ IF task[g] = "got" THEN Owns(g, 1) ELSE UNCHANGED <<owner, count, depth>>
      BY <1>2 DEF TakeGil
    <2>1. task'[g] = "" /\ \A h \in Goids : h # g => task'[h] = task[h]
      BY <2>0 DEF RIInv, Bookkeeping, RTypes
    <2>2. Places'
      BY <1>2, <2>1, AcquireKeepsPlaces DEF TakeGil
    <2>3. CASE task[g] = "got"
      <3>0. PICK n \in 0 .. MaxDepth : n = 1 /\ n > 0
        BY DepthBounds
      <3>1. gate' /\ saved' \in [Goids -> 0 .. MaxDepth] /\ Owns(g, n)
        BY <2>0, <2>3, <3>0 DEF RIInv, Bookkeeping, RTypes, GotIsShut
      <3>2. Bookkeeping'
        BY <2>0, <2>3, <3>0, <3>1, NewOwnerKeeps DEF Bookkeeping
      <3> QED BY <2>2, <3>2 DEF RIInv
    <2>4. CASE task[g] # "got"
      BY <2>0, <2>2, <2>4, TaskKeeps DEF RIInv, Bookkeeping, Tasks
    <2> QED BY <2>3, <2>4
  <1> QED BY <1>1, <1>2

(* What is done with the GIL in hand and no blocking call.                 *)
LEMMA SamePlaces ==
    ASSUME RIInv, UNCHANGED <<evalVars, task>>
    PROVE  Places'
  BY DEF RIInv, Places, RunsOK, WaitersBlock, HeldByGoid, evalVars, gilVars

LEMMA ReenterKeeps ==
    ASSUME RIInv, NEW g \in Goids, Reenter(g)
    PROVE  RIInv'
  <1>1. PICK n \in 0 .. MaxDepth : n = count + 1 /\ n > 0
    BY DepthBounds DEF Reenter, RIInv, Bookkeeping, RTypes
  <1>2. /\ owner = g /\ Owns(g, n) /\ gate' /\ gate' \in BOOLEAN
        /\ UNCHANGED <<evalVars, task, saved>>
    BY <1>1, GilAssumption DEF Reenter, RIInv, Bookkeeping, RTypes, GateGuardsOwner
  <1>3. Bookkeeping'
    BY <1>1, <1>2, OwnerStaysKeeps DEF Bookkeeping
  <1> QED BY <1>2, <1>3, SamePlaces DEF RIInv

LEMMA TryAcquireKeeps ==
    ASSUME RIInv, NEW g \in Goids, TryAcquire(g)
    PROVE  RIInv'
  <1>0. PICK n \in 0 .. MaxDepth : n = 1 /\ n > 0
    BY DepthBounds
  <1>1. /\ Owns(g, n) /\ gate' /\ ~gate
        /\ UNCHANGED <<evalVars, task, saved>>
    BY <1>0 DEF TryAcquire
  <1>2. task[g] # "got" /\ saved' \in [Goids -> 0 .. MaxDepth]
    BY <1>1 DEF RIInv, Bookkeeping, RTypes, GotIsShut
  <1>3. Bookkeeping'
    BY <1>0, <1>1, <1>2, NewOwnerKeeps DEF Bookkeeping
  <1> QED BY <1>1, <1>3, SamePlaces DEF RIInv

LEMMA ReleaseKeeps ==
    ASSUME RIInv, NEW g \in Goids, Release(g)
    PROVE  RIInv'
  <1>0. /\ owner = g /\ count > 0 /\ count \in Nat /\ depth[g] = count
        /\ gate /\ UNCHANGED <<evalVars, task, saved>>
    BY GilAssumption DEF Release, RIInv, Bookkeeping, RTypes, CountIsDepth, GateGuardsOwner
  <1>1. CASE count = 1
    <2>0. depth' = [depth EXCEPT ![g] = 0]
      <3>1. depth' = [depth EXCEPT ![g] = depth[g] - 1] /\ depth[g] - 1 = 0
        BY <1>0, <1>1 DEF Release
      <3> QED BY <3>1
    <2>1. owner' = None /\ count' = 0 /\ ~gate' /\ gate' \in BOOLEAN
      <3>1. ~(count > 1) /\ count - 1 = 0
        BY <1>1
      <3>2. owner' = None /\ count' = 0
        BY <1>1, <3>1 DEF Release
      <3>3. gate' = (count > 1)
        BY DEF Release
      <3>4. ~gate'
        BY <3>1, <3>3
      <3>5. gate' \in BOOLEAN
        BY <3>3
      <3> QED BY <3>2, <3>4, <3>5
    <2>2. saved' \in [Goids -> 0 .. MaxDepth]
      BY <1>0 DEF RIInv, Bookkeeping, RTypes
    <2>3. Bookkeeping'
      BY <1>0, <2>0, <2>1, <2>2, OwnerGoneKeeps DEF Bookkeeping
    <2> QED BY <1>0, <2>3, SamePlaces DEF RIInv
  <1>2. CASE count # 1
    <2>1. PICK n \in 0 .. MaxDepth : n = count - 1 /\ n > 0
      BY <1>0, <1>2, DepthBounds DEF RIInv, Bookkeeping, RTypes
    <2>2. owner' = g /\ count' = n /\ gate' /\ gate' \in BOOLEAN
      <3>1. count > 1
        BY <1>0, <1>2
      <3> QED BY <1>0, <1>2, <2>1, <3>1 DEF Release
    <2>4. depth' = [depth EXCEPT ![g] = n]
      <3>1. depth' = [depth EXCEPT ![g] = depth[g] - 1] /\ depth[g] - 1 = n
        BY <1>0, <2>1 DEF Release
      <3> QED BY <3>1
    <2>5. Owns(g, n)
      BY <2>2, <2>4 DEF Owns
    <2>3. Bookkeeping'
      BY <1>0, <2>1, <2>2, <2>5, OwnerStaysKeeps DEF Bookkeeping
    <2> QED BY <1>0, <2>3, SamePlaces DEF RIInv
  <1> QED BY <1>1, <1>2

LEMMA ReleaseSaveKeeps ==
    ASSUME RIInv, NEW g \in Goids, ReleaseSave(g)
    PROVE  RIInv'
  <1>1. /\ owner = g /\ owner' = None /\ count' = 0 /\ gate' = FALSE
        /\ depth' = [depth EXCEPT ![g] = 0] /\ UNCHANGED <<evalVars, task>>
        /\ saved' \in [Goids -> 0 .. MaxDepth]
    BY DEF ReleaseSave, RIInv, Bookkeeping, RTypes
  <1>2. Bookkeeping'
    BY <1>1, OwnerGoneKeeps DEF Bookkeeping
  <1> QED BY <1>1, <1>2, SamePlaces DEF RIInv

LEMMA RestoreKeeps ==
    ASSUME RIInv, NEW g \in Goids, AcquireRestore(g) \/ (Restore(g) /\ saved[g] > 0)
    PROVE  RIInv'
  <1>1. task[g] = ""
    BY DEF AcquireRestore, Restore, Goto, RIInv, Places, WaitersBlock
  <1>2. PICK to \in {"run", "restore"} :
            /\ pc' = [pc EXCEPT ![g] = to] /\ pc[g] \in {"run", "restore"}
            /\ UNCHANGED gilVars /\ task' = task
    BY DEF AcquireRestore, Restore, Goto, rlockVars
  <1>3. Places'
    BY <1>1, <1>2, StayKeepsPlaces DEF EvalPCs
  <1>4. CASE AcquireRestore(g)
    BY <1>3, <1>4, SameBookkeeping DEF AcquireRestore, RIInv
  <1>5. CASE Restore(g) /\ saved[g] > 0
    <2>1. PICK n \in 0 .. MaxDepth : n = saved[g] /\ n > 0
      BY <1>5 DEF RIInv, Bookkeeping, RTypes
    <2>2. Owns(g, n) /\ gate' /\ ~gate /\ saved' \in [Goids -> 0 .. MaxDepth]
      BY <1>5, <2>1, DepthBounds DEF Restore, RIInv, Bookkeeping, RTypes
    <2> QED BY <1>1, <1>2, <1>3, <2>1, <2>2, NewOwnerKeeps DEF RIInv, Bookkeeping
  <1> QED BY <1>4, <1>5

-----------------------------------------------------------------------------

(* Who is in _acquire_restore has saved what it released: the count that   *)
(* it puts back is not 0.                                                  *)
SavedOK == \A g \in Goids : pc[g] = "restore" => saved[g] > 0

(* Who waits for the gate does so in the blocking call. *)
PollsOK == \A g \in Goids : task[g] \in {"wait", "poll"} => pc[g] = "blocked"

LEMMA SavedInductive ==
    ASSUME RIInv, SavedOK, NEW g \in Goids, RLockStep(g)
    PROVE  SavedOK'
  <1>0. pc \in [Goids -> EvalPCs \cup {"restore"}] /\ saved \in [Goids -> 0 .. MaxDepth]
    BY DEF RIInv, Bookkeeping, RTypes, Places, WaitersBlock
  <1>1. CASE UNCHANGED saved /\ (pc' = pc \/ \E to \in EvalPCs : pc' = [pc EXCEPT ![g] = to])
    BY <1>0, <1>1 DEF SavedOK, EvalPCs
  <1>2. CASE ReleaseSave(g)
    BY <1>0, <1>2 DEF SavedOK, ReleaseSave, evalVars
  <1>3. CASE AcquireRestore(g)
    BY <1>0, <1>3 DEF SavedOK, AcquireRestore, Goto, rlockVars
  <1>4. CASE Restore(g)
    BY <1>0, <1>4 DEF SavedOK, Restore, Goto
  <1>5. CASE \/ Enter(g) \/ Leave(g) \/ Poll(g) \/ HandleBreaker(g) \/ BeginAllowThreads(g)
    <2>1. \E to \in EvalPCs : pc' = [pc EXCEPT ![g] = to]
      BY <1>5 DEF Enter, Leave, Poll, HandleBreaker, BeginAllowThreads, Goto, EvalPCs
    <2>2. ~ReleaseSave(g) /\ ~AcquireRestore(g) /\ ~Restore(g) => UNCHANGED saved
      BY DEF RLockStep, rlockVars, TakeGil, Back, GetGate, TimeOut,
             Reenter, TryAcquire, Acquiring, Release
    <2> QED BY <1>1, <1>2, <1>3, <1>4, <2>1, <2>2
  <1>6. CASE TakeGil(g) \/ Back(g) \/ Acquiring(g)
    <2>1. UNCHANGED saved
      BY <1>6 DEF TakeGil, Back, Acquiring, rlockVars
    <2>2. pc' = pc \/ \E to \in EvalPCs : pc' = [pc EXCEPT ![g] = to]
      BY <1>6 DEF TakeGil, Back, Acquiring, Acquire, EndAllowThreads, BeginAllowThreads,
                  Goto, EvalPCs
    <2> QED BY <1>1, <2>1, <2>2
  <1>7. CASE GetGate(g) \/ TimeOut(g) \/ Reenter(g) \/ TryAcquire(g) \/ Release(g)
    <2>1. UNCHANGED <<saved, pc>>
      BY <1>7 DEF GetGate, TimeOut, Reenter, TryAcquire, Release, evalVars
    <2> QED BY <1>1, <2>1
  <1> QED BY <1>2, <1>3, <1>4, <1>5, <1>6, <1>7 DEF RLockStep

LEMMA PollsInductive ==
    ASSUME RIInv, PollsOK, NEW g \in Goids, RLockStep(g)
    PROVE  PollsOK'
  <1>0. /\ pc \in [Goids -> EvalPCs \cup {"restore"}] /\ task \in [Goids -> Tasks]
        /\ task[g] # "" => pc[g] \in {"blocked", "retake"}
    BY DEF RIInv, Bookkeeping, RTypes, Places, WaitersBlock
  <1>1. CASE UNCHANGED task /\ task[g] \notin {"wait", "poll"}
             /\ \E to \in EvalPCs \cup {"restore"} : pc' = [pc EXCEPT ![g] = to]
    BY <1>0, <1>1 DEF PollsOK
  <1>2. CASE pc' = pc /\ \E to \in {"", "got", "missed"} : task' = [task EXCEPT ![g] = to]
    BY <1>0, <1>2 DEF PollsOK
  <1>3. CASE UNCHANGED <<pc, task>>
    BY <1>3 DEF PollsOK
  <1>4. CASE Acquiring(g)
    BY <1>0, <1>4 DEF PollsOK, Acquiring, BeginAllowThreads, Goto, RIInv, Places, RunsOK
  <1>5. CASE TakeGil(g)
    <2>1. pc[g] \in {"enter", "retake"} /\ task[g] \notin {"wait", "poll"}
      BY <1>0, <1>5 DEF TakeGil, Acquire, Goto, PollsOK
    <2>2. pc' = pc \/ pc' = [pc EXCEPT ![g] = "run"]
      BY <1>5 DEF TakeGil, Acquire, Goto
    <2>3. task' = task \/ task' = [task EXCEPT ![g] = ""]
      BY <1>5 DEF TakeGil, rlockVars
    <2> QED BY <1>0, <2>1, <2>2, <2>3 DEF PollsOK
  <1>6. CASE Back(g) \/ AcquireRestore(g) \/ Restore(g)
    <2>1. UNCHANGED task /\ \E to \in EvalPCs \cup {"restore"} : pc' = [pc EXCEPT ![g] = to]
      BY <1>6 DEF Back, EndAllowThreads, AcquireRestore, Restore, Goto, rlockVars, EvalPCs
    <2>2. task[g] \notin {"wait", "poll"}
      BY <1>0, <1>6 DEF Back, AcquireRestore, Restore, Goto
    <2> QED BY <1>1, <2>1, <2>2
  <1>7. CASE GetGate(g) \/ TimeOut(g)
    BY <1>2, <1>7 DEF GetGate, TimeOut, evalVars
  <1>8. CASE Reenter(g) \/ TryAcquire(g) \/ Release(g) \/ ReleaseSave(g)
    BY <1>3, <1>8 DEF Reenter, TryAcquire, Release, ReleaseSave, evalVars
  <1>9. CASE /\ Enter(g) \/ Leave(g) \/ Poll(g) \/ HandleBreaker(g) \/ BeginAllowThreads(g)
             /\ UNCHANGED rlockVars
    <2>1. UNCHANGED task /\ \E to \in EvalPCs : pc' = [pc EXCEPT ![g] = to]
      BY <1>9 DEF Enter, Leave, Poll, HandleBreaker, BeginAllowThreads, Goto, EvalPCs, rlockVars
    <2>2. task[g] \notin {"wait", "poll"}
      BY <1>0, <1>9 DEF Enter, Leave, Poll, HandleBreaker, BeginAllowThreads, Goto
    <2> QED BY <1>1, <2>1, <2>2
  <1> QED BY <1>4, <1>5, <1>6, <1>7, <1>8, <1>9 DEF RLockStep

LEMMA StepKeeps ==
    ASSUME OwnThreads, RIInv, SavedOK, NEW g \in Goids, RLockStep(g)
    PROVE  RIInv'
  <1>1. CASE \/ TakeGil(g) \/ Back(g) \/ GetGate(g) \/ TimeOut(g)
    BY <1>1, TakeGilKeeps, BackKeeps, WaitEndsKeeps
  <1>2. CASE Reenter(g) \/ TryAcquire(g) \/ Acquiring(g) \/ Release(g)
    BY <1>2, ReenterKeeps, TryAcquireKeeps, AcquiringKeeps, ReleaseKeeps
  <1>3. CASE ReleaseSave(g)
    BY <1>3, ReleaseSaveKeeps
  <1>4. CASE AcquireRestore(g) \/ Restore(g)
    <2>1. Restore(g) => saved[g] > 0
      BY DEF Restore, Goto, SavedOK
    <2> QED BY <1>4, <2>1, RestoreKeeps
  <1>5. CASE /\ Enter(g) \/ Leave(g) \/ Poll(g) \/ HandleBreaker(g) \/ BeginAllowThreads(g)
             /\ UNCHANGED rlockVars
    BY <1>5, EvalKeeps
  <1> QED BY <1>1, <1>2, <1>3, <1>4, <1>5 DEF RLockStep

LEMMA StutterKeeps ==
    ASSUME RIInv, SavedOK, PollsOK, UNCHANGED vars
    PROVE  RIInv' /\ SavedOK' /\ PollsOK'
  <1>1. UNCHANGED <<evalVars, rlockVars>>
    BY DEF vars
  <1>2. Bookkeeping' /\ Places'
    BY <1>1, SameBookkeeping, SamePlaces DEF rlockVars
  <1>3. SavedOK' /\ PollsOK'
    BY <1>1 DEF SavedOK, PollsOK, evalVars, rlockVars
  <1> QED BY <1>2, <1>3 DEF RIInv

(* The inductive invariant of an RLock, with the types of its variables    *)
(* and where goroutines are: rlock.go:195-277, 319-366 on the eval loop.   *)
THEOREM RLockInvariance ==
    ASSUME OwnThreads
    PROVE  RLockSpec => [](RIInv /\ SavedOK /\ PollsOK)
  <1>1. RLockInit => RIInv /\ SavedOK /\ PollsOK
    BY RInitIInv DEF RLockInit, Init, SavedOK, PollsOK
  <1>2. RIInv /\ SavedOK /\ PollsOK /\ [RLockNext]_vars => (RIInv /\ SavedOK /\ PollsOK)'
    BY StepKeeps, SavedInductive, PollsInductive, StutterKeeps DEF RLockNext
  <1> QED BY <1>1, <1>2, PTL DEF RLockSpec

(* Whatever acquires time out, and however _release_save interrupts a      *)
(* nest of them: the count of an RLock is how often its owner is in,       *)
(* nobody else is, and the gate is shut as long as somebody owns the lock  *)
(* or is about to, which is one goroutine.                                 *)
THEOREM RLockCorrect ==
    ASSUME OwnThreads
    PROVE  RLockSpec => []RLockInv
  <1>1. RIInv /\ PollsOK => RLockInv
    BY DEF RIInv, Bookkeeping, RTypes, Places, WaitersBlock, PollsOK, RLockInv, RLockTypeOK
  <1> QED BY <1>1, RLockInvariance, PTL
=============================================================================
