----------------------------- MODULE GilProofs -----------------------------
(***************************************************************************)
(* Proofs about Gil and EvalLoop, for any number of goroutines that run    *)
(* for threads of their own; what ReleaseGoid and AcquireReentrant do to   *)
(* cond's list is used for the generators too.                             *)
(***************************************************************************)
EXTENDS EvalLoop, TLAPS

(* The eval loop.  Inv is HolderRuns in a form that says for each          *)
(* goroutine whether it owns the lock, with where goroutines on cond's     *)
(* list are (CondOK): in AcquireReentrant, so that nobody who runs is on   *)
(* it.                                                                     *)

(* Every goroutine has a logical thread of its own. *)
OwnThreads == \A g, h \in Goids : ThreadOf[g] = ThreadOf[h] => g = h

CondOK ==
    \A g \in Goids : InCond(g) \/ g \in woken => pc[g] \in {"enter", "retake"}

OwnerOK ==
    /\ \A g \in Goids : pc[g] \in {"run", "breaker"} <=> HeldByGoid(g)
    /\ locked => holderGoid \in Goids /\ holder = ThreadOf[holderGoid]

(* A goroutine that makes a blocking call had the lock, and released it.   *)
NeverPinned == \A g \in Goids : pc[g] # "pinned"

Inv == TypeOK /\ CondOK /\ OwnerOK /\ NeverPinned /\ NoLostSignal /\ ArmedYields

-----------------------------------------------------------------------------

(* cond.Signal takes the first goroutine off the list and wakes it; with a *)
(* list that is not empty, somebody is woken.                              *)
LEMMA SignalOneEffect ==
    ASSUME GilTypeOK, SignalOne
    PROVE  /\ condq' \in Seq(Goids) /\ woken' \subseteq Goids
           /\ \A i, j \in 1 .. Len(condq') : condq'[i] = condq'[j] => i = j
           /\ \A i \in 1 .. Len(condq') : condq'[i] \notin woken'
           /\ \A g : InCond(g)' => InCond(g)
           /\ \A g \in woken' : g \in woken \/ InCond(g)
           /\ condq' # << >> => woken' # {}
  <1>1. CASE condq = << >>
    BY <1>1 DEF SignalOne, GilTypeOK, InCond
  <1>2. CASE condq # << >>
    <2>1. /\ condq' = Tail(condq) /\ woken' = woken \cup {Head(condq)}
      BY <1>2 DEF SignalOne
    <2>2. /\ Len(condq) \in Nat /\ Len(condq) >= 1
          /\ Head(condq) = condq[1] /\ Head(condq) \in Goids
          /\ Tail(condq) \in Seq(Goids)
          /\ Len(Tail(condq)) = Len(condq) - 1
          /\ \A i \in 1 .. Len(condq) - 1 : Tail(condq)[i] = condq[i + 1]
      BY <1>2 DEF GilTypeOK
    <2>3. \A i \in 1 .. Len(condq') : i + 1 \in 1 .. Len(condq) /\ condq'[i] = condq[i + 1]
      BY <2>1, <2>2
    <2>4. condq' \in Seq(Goids) /\ woken' \subseteq Goids /\ woken' # {}
      BY <2>1, <2>2 DEF GilTypeOK
    <2>5. \A i, j \in 1 .. Len(condq') : condq'[i] = condq'[j] => i = j
      <3> SUFFICES ASSUME NEW i \in 1 .. Len(condq'), NEW j \in 1 .. Len(condq'),
                          condq'[i] = condq'[j]
                   PROVE  i = j
        OBVIOUS
      <3>1. i + 1 = j + 1
        BY <2>3 DEF GilTypeOK
      <3> QED BY <3>1, <2>1, <2>2
    <2>6. \A i \in 1 .. Len(condq') : condq'[i] \notin woken'
      <3> SUFFICES ASSUME NEW i \in 1 .. Len(condq')
                   PROVE  condq'[i] \notin woken'
        OBVIOUS
      <3>1. condq[i + 1] \notin woken
        BY <2>3 DEF GilTypeOK
      <3>2. condq[i + 1] # condq[1]
        <4>1. 1 \in 1 .. Len(condq) /\ i + 1 # 1
          BY <2>1, <2>2
        <4> QED BY <4>1, <2>3 DEF GilTypeOK
      <3> QED BY <3>1, <3>2, <2>1, <2>2, <2>3
    <2>7. \A g : InCond(g)' => InCond(g)
      BY <2>3 DEF InCond
    <2>8. \A g \in woken' : g \in woken \/ InCond(g)
      BY <2>1, <2>2 DEF InCond
    <2> QED BY <2>4, <2>5, <2>6, <2>7, <2>8
  <1> QED BY <1>1, <1>2

(* cond.Wait puts the caller on the list, once. *)
LEMMA WaitEffect ==
    ASSUME GilTypeOK, NEW ts, NEW g \in Goids, Wait(ts, g)
    PROVE  /\ GilTypeOK'
           /\ \A h : InCond(h)' => h = g \/ InCond(h)
           /\ woken' \subseteq woken
  <1>1. /\ condq' = Append(condq, g) /\ woken' = woken \ {g}
        /\ locked' = locked /\ holder' = holder /\ holderGoid' = holderGoid
        /\ requestDrop' = TRUE
    BY DEF Wait
  <1>2. /\ Len(condq) \in Nat /\ condq' \in Seq(Goids) /\ Len(condq') = Len(condq) + 1
        /\ \A i \in 1 .. Len(condq) : condq'[i] = condq[i]
        /\ condq'[Len(condq) + 1] = g
    BY <1>1 DEF GilTypeOK
  <1>3. \A i \in 1 .. Len(condq) : condq[i] # g
    BY DEF Wait, InCond
  <1>4. \A i \in 1 .. Len(condq') : i \in 1 .. Len(condq) \/ i = Len(condq) + 1
    BY <1>2
  <1>5. \A i, j \in 1 .. Len(condq') : condq'[i] = condq'[j] => i = j
    BY <1>2, <1>3, <1>4 DEF GilTypeOK
  <1>6. \A i \in 1 .. Len(condq') : condq'[i] \notin woken'
    BY <1>1, <1>2, <1>4 DEF GilTypeOK
  <1>7. GilTypeOK'
    BY <1>1, <1>2, <1>5, <1>6 DEF GilTypeOK
  <1>8. \A h : InCond(h)' => h = g \/ InCond(h)
    BY <1>2, <1>4 DEF InCond
  <1> QED BY <1>1, <1>7, <1>8

-----------------------------------------------------------------------------

(* Nobody holds the lock at first. *)
LEMMA InitInv == Init => Inv
  <1> SUFFICES ASSUME Init PROVE Inv
    OBVIOUS
  <1> USE DEF Init, GilInit
  <1>1. TypeOK
    <2>1. condq = << >> /\ condq \in Seq(Goids) /\ 1 .. Len(condq) = {}
      OBVIOUS
    <2>2. locked = FALSE /\ holder = None /\ holderGoid = None /\ requestDrop = FALSE /\ woken = {}
      OBVIOUS
    <2>3. /\ \A i, j \in 1 .. Len(condq) : condq[i] = condq[j] => i = j
          /\ \A i \in 1 .. Len(condq) : condq[i] \notin woken
      BY ONLY <2>1
    <2>4. GilTypeOK
      BY ONLY <2>1, <2>2, <2>3 DEF GilTypeOK
    <2>5. pc \in [Goids -> EvalPCs] /\ armed \in [Threads -> BOOLEAN]
      BY DEF EvalPCs
    <2> QED BY <2>4, <2>5 DEF TypeOK
  <1>2. CondOK
    BY DEF CondOK, InCond
  <1>3. OwnerOK
    BY DEF OwnerOK, HeldByGoid
  <1> QED BY <1>1, <1>2, <1>3 DEF Inv, NeverPinned, NoLostSignal, ArmedYields, Running

(* A step of a goroutine that gives up the lock it holds. *)
LEMMA ReleaseKeepsInv ==
    ASSUME OwnThreads, Inv, NEW g \in Goids, NEW to \in {"out", "retake", "blocked"},
           pc[g] \in {"run", "breaker"},
           pc' = [pc EXCEPT ![g] = to],
           ReleaseGoid(g), UNCHANGED armed
    PROVE  Inv'
  <1>1. HeldByGoid(g)
    BY DEF Inv, OwnerOK
  <1>2. /\ locked' = FALSE /\ holder' = None /\ holderGoid' = None
        /\ SignalOne /\ requestDrop' = requestDrop
    BY <1>1 DEF ReleaseGoid
  <1>3. /\ condq' \in Seq(Goids) /\ woken' \subseteq Goids
        /\ \A i, j \in 1 .. Len(condq') : condq'[i] = condq'[j] => i = j
        /\ \A i \in 1 .. Len(condq') : condq'[i] \notin woken'
        /\ \A h : InCond(h)' => InCond(h)
        /\ \A h \in woken' : h \in woken \/ InCond(h)
        /\ condq' # << >> => woken' # {}
    BY <1>2, SignalOneEffect DEF Inv, TypeOK
  <1>4. TypeOK'
    BY <1>2, <1>3 DEF Inv, TypeOK, GilTypeOK, EvalPCs
  <1>5. CondOK'
    BY <1>3 DEF Inv, CondOK, TypeOK
  <1>6. \A h \in Goids : pc'[h] \notin {"run", "breaker"}
    BY <1>1 DEF Inv, OwnerOK, TypeOK, HeldByGoid
  <1>7. OwnerOK'
    BY <1>2, <1>6 DEF OwnerOK, HeldByGoid
  <1>8. ArmedYields'
    BY <1>6 DEF ArmedYields, Running
  <1>9. NeverPinned'
    BY DEF Inv, NeverPinned, TypeOK
  <1> QED BY <1>3, <1>4, <1>5, <1>7, <1>8, <1>9 DEF Inv, NoLostSignal

(* A step that leaves the lock alone, of a goroutine that does not wait.   *)
LEMMA StayKeepsInv ==
    ASSUME OwnThreads, Inv, NEW g \in Goids, NEW from, NEW to \in EvalPCs \ {"pinned"},
           Goto(g, from, to), UNCHANGED gilVars,
           from \notin {"enter", "retake"},
           from \in {"run", "breaker"} <=> to \in {"run", "breaker"},
           armed' \in [Threads -> BOOLEAN], ArmedYields'
    PROVE  Inv'
  <1> USE DEF Goto, gilVars
  <1>1. TypeOK'
    BY DEF Inv, TypeOK, GilTypeOK
  <1>2. CondOK'
    BY DEF Inv, CondOK, TypeOK, InCond
  <1>3. OwnerOK'
    BY DEF Inv, OwnerOK, TypeOK, HeldByGoid
  <1>4. NeverPinned'
    BY DEF Inv, NeverPinned, TypeOK
  <1> QED BY <1>1, <1>2, <1>3, <1>4 DEF Inv, NoLostSignal

(* Taking the lock, on entry or again. *)
LEMMA AcquireKeepsInv ==
    ASSUME OwnThreads, Inv, NEW g \in Goids, Acquire(g)
    PROVE  Inv'
  <1> USE DEF Goto
  <1>0. ThreadOf[g] \in Threads /\ pc[g] \in {"enter", "retake"}
    BY ThreadOfAssumption DEF Acquire
  <1>1. CASE /\ pc' = [pc EXCEPT ![g] = "run"]
             /\ Take(ThreadOf[g], g)
             /\ armed' = [armed EXCEPT ![ThreadOf[g]] = @ /\ pc[g] = "enter" /\ locked]
    <2>1. /\ ~locked /\ locked' = TRUE /\ holder' = ThreadOf[g] /\ holderGoid' = g
          /\ requestDrop' = FALSE /\ woken' = woken \ {g} /\ condq' = condq /\ ~InCond(g)
      BY <1>1 DEF Take
    <2>2. TypeOK'
      BY <2>1, <1>0, <1>1 DEF Inv, TypeOK, GilTypeOK, EvalPCs
    <2>3. CondOK'
      BY <2>1, <1>1 DEF Inv, CondOK, TypeOK, InCond
    <2>4. \A h \in Goids : pc'[h] \in {"run", "breaker"} <=> h = g
      BY <2>1, <1>1 DEF Inv, OwnerOK, HeldByGoid, TypeOK
    <2>5. OwnerOK'
      BY <2>1, <2>4 DEF OwnerOK, HeldByGoid
    <2>6. ArmedYields'
      <3>1. armed' = [armed EXCEPT ![ThreadOf[g]] = FALSE]
        BY <1>1, <2>1
      <3> QED BY <1>0, <1>1, <2>4, <3>1 DEF ArmedYields, Running, Inv, TypeOK
    <2>7. NeverPinned'
      BY <1>1 DEF Inv, NeverPinned, TypeOK
    <2> QED BY <2>1, <2>2, <2>3, <2>5, <2>6, <2>7 DEF Inv, NoLostSignal
  <1>2. CASE AlreadyHeld(ThreadOf[g], g)
    <2>1. holderGoid \in Goids /\ holder = ThreadOf[holderGoid] /\ holder = ThreadOf[g] /\ locked
      BY <1>2 DEF AlreadyHeld, Inv, OwnerOK
    <2>2. holderGoid = g
      BY <2>1 DEF OwnThreads
    <2> QED BY <1>0, <2>1, <2>2 DEF Inv, OwnerOK, HeldByGoid
  <1>3. CASE Wait(ThreadOf[g], g) /\ UNCHANGED <<pc, armed>>
    <2>1. GilTypeOK' /\ woken' \subseteq woken /\ \A h : InCond(h)' => h = g \/ InCond(h)
      BY <1>3, WaitEffect DEF Inv, TypeOK
    <2>2. locked /\ UNCHANGED <<locked, holder, holderGoid>>
      BY <1>3 DEF Wait
    <2>3. TypeOK'
      BY <2>1, <1>3 DEF Inv, TypeOK
    <2>4. CondOK'
      BY <2>1, <1>0, <1>3 DEF Inv, CondOK
    <2>5. OwnerOK'
      BY <2>2, <1>3 DEF Inv, OwnerOK, HeldByGoid
    <2>6. ArmedYields'
      BY <1>3 DEF Inv, ArmedYields, Running
    <2>7. NeverPinned'
      BY <1>3 DEF Inv, NeverPinned
    <2> QED BY <2>2, <2>3, <2>4, <2>5, <2>6, <2>7 DEF Inv, NoLostSignal
  <1> QED BY <1>1, <1>2, <1>3 DEF Acquire, Acquired

(* The invariant is inductive. *)
LEMMA NextInv == OwnThreads /\ Inv /\ [Next]_evalVars => Inv'
  <1> SUFFICES ASSUME OwnThreads, Inv, [Next]_evalVars PROVE Inv'
    OBVIOUS
  <1>1. ASSUME NEW g \in Goids, Enter(g) PROVE Inv'
    <2>1. Goto(g, "out", "enter") /\ UNCHANGED gilVars /\ UNCHANGED armed
      BY <1>1 DEF Enter, gilVars
    <2>2. armed' \in [Threads -> BOOLEAN] /\ ArmedYields'
      BY <2>1 DEF Inv, TypeOK, ArmedYields, Running, Goto
    <2> QED BY <2>1, <2>2, StayKeepsInv DEF EvalPCs
  <1>2. ASSUME NEW g \in Goids, Acquire(g) PROVE Inv'
    BY <1>2, AcquireKeepsInv
  <1>3. ASSUME NEW g \in Goids, Leave(g) PROVE Inv'
    BY <1>3, ReleaseKeepsInv DEF Leave, Goto
  <1>4. ASSUME NEW g \in Goids, Poll(g) PROVE Inv'
    <2>1. /\ Goto(g, "run", "breaker") /\ UNCHANGED gilVars
          /\ armed' = [armed EXCEPT ![ThreadOf[g]] = TRUE]
      BY <1>4 DEF Poll
    <2>2. \A h \in Goids : pc[h] \in {"run", "breaker"} => h = g
      BY <2>1 DEF Inv, OwnerOK, HeldByGoid, Goto
    <2>3. armed' \in [Threads -> BOOLEAN] /\ ArmedYields'
      BY <2>1, <2>2, ThreadOfAssumption DEF Inv, TypeOK, ArmedYields, Running, Goto
    <2> QED BY <2>1, <2>3, StayKeepsInv DEF EvalPCs
  <1>5. ASSUME NEW g \in Goids, HandleBreaker(g) PROVE Inv'
    <2>1. HeldByGoid(g)
      BY <1>5 DEF HandleBreaker, Goto, Inv, OwnerOK
    <2> QED BY <1>5, <2>1, ReleaseKeepsInv DEF HandleBreaker, Goto
  <1>6. ASSUME NEW g \in Goids, BeginAllowThreads(g) PROVE Inv'
    <2>1. HeldByGoid(g)
      BY <1>6 DEF BeginAllowThreads, Goto, Inv, OwnerOK
    <2> QED BY <1>6, <2>1, ReleaseKeepsInv DEF BeginAllowThreads, Goto
  <1>7. ASSUME NEW g \in Goids, EndAllowThreads(g) PROVE Inv'
    <2>1. CASE Goto(g, "blocked", "retake")
      <3>1. armed' \in [Threads -> BOOLEAN] /\ ArmedYields'
        BY <1>7, <2>1 DEF EndAllowThreads, Inv, TypeOK, ArmedYields, Running, Goto
      <3> QED BY <1>7, <2>1, <3>1, StayKeepsInv DEF EndAllowThreads, EvalPCs, gilVars
    <2>2. ~Goto(g, "pinned", "run")
      BY DEF Goto, Inv, NeverPinned
    <2> QED BY <1>7, <2>1, <2>2 DEF EndAllowThreads
  <1>8. CASE UNCHANGED evalVars
    BY <1>8 DEF evalVars, gilVars, Inv, TypeOK, GilTypeOK, CondOK, InCond, OwnerOK,
                HeldByGoid, NeverPinned, NoLostSignal, ArmedYields, Running
  <1> QED BY <1>1, <1>2, <1>3, <1>4, <1>5, <1>6, <1>7, <1>8 DEF Next, Step

-----------------------------------------------------------------------------

(* Inv holds in every state, when goroutines and logical threads go one to *)
(* one.                                                                    *)
THEOREM Invariance ==
    ASSUME OwnThreads
    PROVE  Spec => []Inv
  <1>1. Inv /\ [Next]_evalVars => Inv'
    BY NextInv
  <1> QED BY <1>1, InitInv, PTL DEF Spec

(* Every variable stays within its type; the list of waiters holds nobody  *)
(* twice.                                                                  *)
THEOREM TypeCorrect ==
    ASSUME OwnThreads
    PROVE  Spec => []TypeOK
  <1>1. Inv => TypeOK
    BY DEF Inv
  <1> QED BY <1>1, Invariance, PTL

(* gil.go: no two goroutines run Python code at the same time.             *)
THEOREM Serialized ==
    ASSUME OwnThreads
    PROVE  Spec => []OneRuns
  <1>1. Inv => OneRuns
    BY DEF Inv, OwnerOK, OneRuns, Running, HeldByGoid
  <1> QED BY <1>1, Invariance, PTL

(* gil.go: the goroutine that runs, and only it, owns the lock.            *)
THEOREM OwnerRuns ==
    ASSUME OwnThreads
    PROVE  Spec => []HolderRuns
  <1>1. Inv => HolderRuns
    BY DEF Inv, OwnerOK, HolderRuns, Running, HeldByGoid
  <1> QED BY <1>1, Invariance, PTL

(* gil.go: no goroutine is left in cond.Wait on a lock that is free.       *)
THEOREM SignalsKept ==
    ASSUME OwnThreads
    PROVE  Spec => []NoLostSignal
  <1>1. Inv => NoLostSignal
    BY DEF Inv
  <1> QED BY <1>1, Invariance, PTL

(* eval_gil.go: a thread whose timer is armed is about to drop the lock.   *)
THEOREM ArmedDrops ==
    ASSUME OwnThreads
    PROVE  Spec => []ArmedYields
  <1>1. Inv => ArmedYields
    BY DEF Inv
  <1> QED BY <1>1, Invariance, PTL
=============================================================================
