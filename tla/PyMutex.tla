------------------------------ MODULE PyMutex ------------------------------
(***************************************************************************)
(* pysync/mutex.go: the byte-flag mutex (CPython's PyMutex).               *)
(*                                                                         *)
(* The word holds two flags, Locked and HasParked.  LockTimed first tries  *)
(* to take the flag, then parks on the word; Unlock hands the mutex over   *)
(* to the first waiter when that waiter has been waiting for longer than   *)
(* the fairness window, and otherwise wakes it to compete again.  A bounded*)
(* wait may be given up while an unlocker is already dequeuing the waiter. *)
(*                                                                         *)
(* Each access to the word is a step of its own.  A goroutine is `idle`,   *)
(* inside LockTimed (try, load, take, mark, park, enqueue, blocked,        *)
(* timedout, claimed), `held` (its caller owns the mutex), inside          *)
(* tryUnlock (unlock, clear, unpark, signal) or `panic`.  Every goroutine  *)
(* uses one mutex at a time; it may pick another one for its next call.    *)
(*                                                                         *)
(* Time.  timeout[t] is what is left of a call's timeout: Forever (< 0),   *)
(* Some (> 0) or Zero.  overdue[t] says that timeToBeFair has passed for   *)
(* t's mutexEntry; it is set by a step of the clock, at any moment.        *)
(***************************************************************************)
EXTENDS ParkingLot

CONSTANT Limits     \* the timeouts callers pass, of Zero, Some and Forever

VARIABLES
    bits,       \* bits[m]: the flags of mutex m's word
    pc,
    mu,         \* mu[t]: the mutex t's current call is about
    seen,       \* seen[t]: the value of the word t last loaded or wrote (v, newv)
    timeout,
    overdue,    \* time.Now().After(entry.timeToBeFair)
    handedOff,  \* mutexEntry.handedOff
    wakee       \* wakee[t]: the waiter t has dequeued and has yet to signal

callVars == <<mu, seen, timeout, overdue, handedOff, wakee>>
vars == <<lotVars, bits, pc, callVars>>

Locked    == "Locked"
HasParked == "HasParked"
Flags     == {Locked, HasParked}

Zero    == "zero"
Some    == "some"
Forever == "forever"

ASSUME LimitsAssumption == Limits \subseteq {Zero, Some, Forever}

Locking   == {"try", "load", "take", "mark", "park", "enqueue", "blocked",
              "timedout", "claimed"}
Unlocking == {"unlock", "clear", "unpark"}
PCs       == Locking \cup Unlocking \cup {"idle", "held", "signal", "panic"}

TypeOK ==
    /\ LotTypeOK
    /\ bits \in [Addrs -> SUBSET Flags]
    /\ pc \in [Threads -> PCs]
    /\ mu \in [Threads -> Addrs]
    /\ seen \in [Threads -> SUBSET Flags]
    /\ timeout \in [Threads -> {Zero, Some, Forever}]
    /\ overdue \in [Threads -> BOOLEAN]
    /\ handedOff \in [Threads -> BOOLEAN]
    /\ wakee \in [Threads -> Threads \cup {Nobody}]

Init ==
    /\ LotInit
    /\ bits = [m \in Addrs |-> {}]
    /\ pc = [t \in Threads |-> "idle"]
    /\ mu \in [Threads -> Addrs]
    /\ seen = [t \in Threads |-> {}]
    /\ timeout = [t \in Threads |-> Zero]
    /\ overdue = [t \in Threads |-> FALSE]
    /\ handedOff = [t \in Threads |-> FALSE]
    /\ wakee = [t \in Threads |-> Nobody]

-----------------------------------------------------------------------------

Goto(t, from, to) == pc[t] = from /\ pc' = [pc EXCEPT ![t] = to]

(* bits.CompareAndSwap(seen[t], new) succeeds. *)
Swap(t, new) ==
    /\ bits[mu[t]] = seen[t]
    /\ bits' = [bits EXCEPT ![mu[t]] = new]

(* bits.CompareAndSwap(seen[t], _) fails. *)
SwapFails(t) == bits[mu[t]] # seen[t] /\ UNCHANGED bits

(* v := bits.Load(); what t does next depends on the flags it saw. *)
LoadWord(t, m) == seen' = [seen EXCEPT ![t] = bits[m]]

(* LockTimed: the load of the fast path.  A locked mutex sends the call to *)
(* the slow path, or back to its caller when timeout is 0.                 *)
CallLock(t, m, limit) ==
    /\ Goto(t, "idle", IF Locked \notin bits[m] THEN "try"
                       ELSE IF limit = Zero THEN "idle" ELSE "load")
    /\ mu' = [mu EXCEPT ![t] = m]
    /\ LoadWord(t, m)
    /\ timeout' = [timeout EXCEPT ![t] = limit]
    /\ overdue' = [overdue EXCEPT ![t] = FALSE]
    /\ handedOff' = [handedOff EXCEPT ![t] = FALSE]
    /\ UNCHANGED <<lotVars, bits, wakee>>

(* Mutant: the fast path stores the flag instead of swapping it in. *)
TryFastByStore(t) ==
    /\ Goto(t, "try", "held")
    /\ bits' = [bits EXCEPT ![mu[t]] = @ \cup {Locked}]
    /\ UNCHANGED <<lotVars, callVars>>

(* LockTimed: the compare-and-swap of the fast path. *)
TryFast(t) ==
    /\ \/ Goto(t, "try", "held") /\ Swap(t, seen[t] \cup {Locked})
       \/ Goto(t, "try", IF timeout[t] = Zero THEN "idle" ELSE "load") /\ SwapFails(t)
    /\ UNCHANGED <<lotVars, callVars>>

(* LockTimed: the load at the top of the loop. *)
Load(t) ==
    /\ Goto(t, "load", IF Locked \notin bits[mu[t]] THEN "take"
                       ELSE IF timeout[t] = Zero THEN "idle"
                       ELSE IF HasParked \in bits[mu[t]] THEN "park" ELSE "mark")
    /\ LoadWord(t, mu[t])
    /\ UNCHANGED <<lotVars, bits, mu, timeout, overdue, handedOff, wakee>>

(* LockTimed: the loop found the mutex free and takes it. *)
Take(t) ==
    /\ \/ Goto(t, "take", "held") /\ Swap(t, seen[t] \cup {Locked})
       \/ Goto(t, "take", "load") /\ SwapFails(t)
    /\ UNCHANGED <<lotVars, callVars>>

(* LockTimed: set HasParked before parking. *)
MarkParked(t) ==
    /\ \/ /\ Goto(t, "mark", "park")
          /\ Swap(t, seen[t] \cup {HasParked})
          /\ seen' = [seen EXCEPT ![t] = @ \cup {HasParked}]
       \/ /\ Goto(t, "mark", "load")
          /\ SwapFails(t)
          /\ UNCHANGED seen
    /\ UNCHANGED <<lotVars, mu, timeout, overdue, handedOff, wakee>>

(* The end of LockTimed's loop: a bounded wait may have nothing left. *)
Remaining(t) ==
    \E left \in (IF timeout[t] = Some THEN {Some, Zero} ELSE {timeout[t]}) :
        timeout' = [timeout EXCEPT ![t] = left]

(* Park's check: does the word still have the value t expects? *)
CheckPark(t) ==
    /\ \/ /\ bits[mu[t]] = seen[t]
          /\ Goto(t, "park", "enqueue")
          /\ BeginPark(t, mu[t])
          /\ UNCHANGED timeout
       \/ /\ bits[mu[t]] # seen[t]
          /\ Goto(t, "park", "load")
          /\ ParkAgain(mu[t])
          /\ Remaining(t)
    /\ UNCHANGED <<bits, mu, seen, overdue, handedOff, wakee>>

EnqueueSelf(t) ==
    /\ Goto(t, "enqueue", "blocked")
    /\ Enqueue(t, mu[t])
    /\ UNCHANGED <<bits, callVars>>

(* Park returns ParkOK: the mutex was handed over, or the loop runs again. *)
ParkOK(t) ==
    /\ pc[t] \in {"blocked", "claimed"}
    /\ Wake(t)
    /\ \/ /\ handedOff[t]
          /\ pc' = [pc EXCEPT ![t] = "held"]
          /\ UNCHANGED timeout
       \/ /\ ~handedOff[t]
          /\ pc' = [pc EXCEPT ![t] = "load"]
          /\ Remaining(t)
    /\ UNCHANGED <<bits, mu, seen, overdue, handedOff, wakee>>

(* The timer of a bounded Park fires first. *)
TimerFires(t) ==
    /\ timeout[t] # Forever
    /\ Goto(t, "blocked", "timedout")
    /\ UNCHANGED <<lotVars, bits, callVars>>

(* Mutant: a waiter that timed out leaves without looking at isUnparking. *)
GiveUpAlways(t) ==
    /\ Goto(t, "timedout", "idle")
    /\ RemoveTimedOut(t, mu[t]) \/ TimedOutButClaimed(t, mu[t])
    /\ UNCHANGED <<bits, callVars>>

(* Park, having timed out, takes bucket.mu again: the waiter gives up, or  *)
(* an unparker got to it first.                                            *)
GiveUp(t) ==
    /\ \/ Goto(t, "timedout", "idle") /\ RemoveTimedOut(t, mu[t])
       \/ Goto(t, "timedout", "claimed") /\ TimedOutButClaimed(t, mu[t])
    /\ UNCHANGED <<bits, callVars>>

-----------------------------------------------------------------------------

(* tryUnlock: the load at the top of its loop. *)
LoadToUnlock(t) ==
    /\ pc[t] \in {"held", "unlock"}
    /\ pc' = [pc EXCEPT ![t] = IF Locked \notin bits[mu[t]] THEN "panic"
                               ELSE IF HasParked \in bits[mu[t]] THEN "unpark"
                               ELSE "clear"]
    /\ LoadWord(t, mu[t])
    /\ UNCHANGED <<lotVars, bits, mu, timeout, overdue, handedOff, wakee>>

(* tryUnlock with nobody parked. *)
Clear(t) ==
    /\ \/ Goto(t, "clear", "idle") /\ Swap(t, {})
       \/ Goto(t, "clear", "unlock") /\ SwapFails(t)
    /\ UNCHANGED <<lotVars, callVars>>

(* Mutant: the handoff leaves the word unlocked. *)
UnparkFirstUnlocks(t) ==
    /\ Goto(t, "unpark", "signal")
    /\ \E i \in 1 .. Len(Queue(mu[t])) :
         LET w == Queue(mu[t])[i].thr IN
          /\ Dequeue(mu[t], i)
          /\ handedOff' = [handedOff EXCEPT ![w] = overdue[w]]
          /\ bits' = [bits EXCEPT ![mu[t]] =
                         IF HasMore(Queue(mu[t]), i) THEN {HasParked} ELSE {}]
          /\ wakee' = [wakee EXCEPT ![t] = w]
    /\ UNCHANGED <<mu, seen, timeout, overdue>>

(* Mutant: the callback forgets the waiters that remain. *)
UnparkFirstForgetsMore(t) ==
    /\ Goto(t, "unpark", "signal")
    /\ \E i \in 1 .. Len(Queue(mu[t])) :
         LET w == Queue(mu[t])[i].thr IN
          /\ Dequeue(mu[t], i)
          /\ handedOff' = [handedOff EXCEPT ![w] = overdue[w]]
          /\ bits' = [bits EXCEPT ![mu[t]] = IF overdue[w] THEN {Locked} ELSE {}]
          /\ wakee' = [wakee EXCEPT ![t] = w]
    /\ UNCHANGED <<mu, seen, timeout, overdue>>

(* Mutant: no handoff, the waiter always competes. *)
UnparkFirstNoHandoff(t) ==
    /\ Goto(t, "unpark", "signal")
    /\ \E i \in 1 .. Len(Queue(mu[t])) :
          /\ Dequeue(mu[t], i)
          /\ bits' = [bits EXCEPT ![mu[t]] =
                         IF HasMore(Queue(mu[t]), i) THEN {HasParked} ELSE {}]
          /\ wakee' = [wakee EXCEPT ![t] = Queue(mu[t])[i].thr]
    /\ UNCHANGED <<mu, seen, timeout, overdue, handedOff>>

(* tryUnlock's Unpark callback, run under bucket.mu, when a waiter was     *)
(* dequeued: a plain store of the new word.                                *)
UnparkFirst(t) ==
    /\ Goto(t, "unpark", "signal")
    /\ \E i \in 1 .. Len(Queue(mu[t])) :
         LET w == Queue(mu[t])[i].thr IN
          /\ Dequeue(mu[t], i)
          /\ handedOff' = [handedOff EXCEPT ![w] = overdue[w]]
          /\ bits' = [bits EXCEPT ![mu[t]] =
                         (IF overdue[w] THEN {Locked} ELSE {}) \cup
                         (IF HasMore(Queue(mu[t]), i) THEN {HasParked} ELSE {})]
          /\ wakee' = [wakee EXCEPT ![t] = w]
    /\ UNCHANGED <<mu, seen, timeout, overdue>>

(* The same callback when every waiter has timed out meanwhile. *)
UnparkNone(t) ==
    /\ Goto(t, "unpark", "idle")
    /\ DequeueNone(mu[t])
    /\ bits' = [bits EXCEPT ![mu[t]] = {}]
    /\ UNCHANGED callVars

(* Unpark signals the waiter it dequeued. *)
SignalWaiter(t) ==
    /\ Goto(t, "signal", "idle")
    /\ Signal(wakee[t])
    /\ wakee' = [wakee EXCEPT ![t] = Nobody]
    /\ UNCHANGED <<bits, mu, seen, timeout, overdue, handedOff>>

(* The clock passes entry.timeToBeFair of a call in its slow path. *)
Tick(t) ==
    /\ pc[t] \in Locking \ {"try"}
    /\ ~overdue[t]
    /\ overdue' = [overdue EXCEPT ![t] = TRUE]
    /\ UNCHANGED <<lotVars, bits, pc, mu, seen, timeout, handedOff, wakee>>

-----------------------------------------------------------------------------

(* The steps of t that the Go scheduler runs once they are enabled. *)
Run(t) ==
    \/ TryFast(t) \/ Load(t) \/ Take(t) \/ MarkParked(t) \/ CheckPark(t)
    \/ EnqueueSelf(t) \/ ParkOK(t) \/ GiveUp(t)
    \/ LoadToUnlock(t) \/ Clear(t) \/ UnparkFirst(t) \/ UnparkNone(t)
    \/ SignalWaiter(t)

Call(t) == \E m \in Addrs, limit \in Limits : CallLock(t, m, limit)

Next == \E t \in Threads : Call(t) \/ Run(t) \/ TimerFires(t) \/ Tick(t)

Spec == Init /\ [][Next]_vars

(* Goroutines inside LockTimed or Unlock keep running, and an owner does   *)
(* unlock.  Nobody need ever call LockTimed, a timer may fire late, but    *)
(* the clock does move.                                                    *)
Fairness == \A t \in Threads : WF_vars(Run(t)) /\ WF_vars(Tick(t))
FairSpec == Spec /\ Fairness

-----------------------------------------------------------------------------

(* t owns m: its caller has it, it is unlocking it, or an unlocker handed  *)
(* it over and t has yet to wake up.                                       *)
Owns(t, m) ==
    /\ mu[t] = m
    /\ \/ pc[t] \in {"held"} \cup Unlocking
       \/ pc[t] \in {"blocked", "timedout", "claimed"} /\ handedOff[t]

(* A mutex has one owner, and its word says so: no two goroutines own it,  *)
(* and nobody owns a mutex whose word reads unlocked, in particular while  *)
(* it is being handed over.                                                *)
MutualExclusion ==
    \A m \in Addrs :
        /\ \A t, u \in Threads : Owns(t, m) /\ Owns(u, m) => t = u
        /\ \A t \in Threads : Owns(t, m) => Locked \in bits[m]

(* Unlock of a mutex its caller owns never finds the word unlocked, which  *)
(* would be the "unlocking mutex that is not locked" panic.                *)
UnlockNeverPanics == \A t \in Threads : pc[t] # "panic"

(* t has been dequeued without a handoff, or is in the loop of LockTimed   *)
(* with the intention to look at m again.                                  *)
WillRetry(t, m) ==
    /\ mu[t] = m
    /\ \/ pc[t] \in {"load", "take"}
       \/ pc[t] \in {"blocked", "timedout", "claimed"} /\ unparking[t]

(* No wakeup is lost: while somebody is parked on m its word says so (the  *)
(* owner will call Unpark), and if m has no owner then some goroutine is   *)
(* awake, or about to be woken, to take it and unpark the rest -- even if  *)
(* the one that was chosen had timed out at that moment.                   *)
NoLostWakeup ==
    \A m \in Addrs : ParkedOn(m) # {} =>
        /\ HasParked \in bits[m]
        /\ Locked \in bits[m] \/ \E t \in Threads : WillRetry(t, m)

(* A waiter's channel holds one token, and the one goroutine that dequeued *)
(* the waiter sends it: an unlocker never blocks in Unpark.                *)
SignalNeverBlocks ==
    \A t \in Threads : pc[t] = "signal" =>
        /\ ~notify[wakee[t]]
        /\ \A u \in Threads \ {t} : wakee[u] # wakee[t]

-----------------------------------------------------------------------------

(* The inductive invariant: the properties above and what they rest on.    *)

Parking == {"blocked", "timedout", "claimed"}

(* A goroutine on a list is inside Park on that address, unclaimed. *)
Inside(t, m) ==
    /\ pc[t] \in {"blocked", "timedout"}
    /\ mu[t] = m
    /\ ~handedOff[t] /\ ~unparking[t]

QueuedInside == \A m \in Addrs : \A t \in ParkedOn(m) : Inside(t, m)

(* What a goroutine remembers of the word between its steps; the word      *)
(* cannot change between a true check and the enqueue, because whoever     *)
(* would unlock a contended mutex needs bucket.mu.                         *)
SeenOK ==
    \A t \in Threads :
        /\ pc[t] \in Locking \ Parking => ~handedOff[t]
        /\ pc[t] \in {"try", "take"} => Locked \notin seen[t]
        /\ pc[t] = "mark" => Locked \in seen[t] /\ HasParked \notin seen[t]
        /\ pc[t] = "park" => Locked \in seen[t] /\ HasParked \in seen[t]
        /\ pc[t] = "clear" => HasParked \notin seen[t]
        /\ pc[t] = "enqueue" =>
              /\ Locked \in bits[mu[t]] /\ HasParked \in bits[mu[t]]
              /\ bucketMu[BucketOf[mu[t]]] = t

(* A claimed waiter has one claimer until its token is sent. *)
ClaimsOK ==
    \A t \in Threads :
        /\ notify[t] => unparking[t] /\ pc[t] \in Parking
        /\ pc[t] = "signal" <=> wakee[t] # Nobody
        /\ wakee[t] # Nobody =>
              /\ pc[wakee[t]] \in Parking
              /\ unparking[wakee[t]] /\ ~notify[wakee[t]]
              /\ \A u \in Threads : wakee[u] = wakee[t] => u = t

IInv ==
    /\ TypeOK
    /\ QueuedInside
    /\ SeenOK
    /\ ClaimsOK
    /\ MutualExclusion
    /\ UnlockNeverPanics
    /\ NoLostWakeup

-----------------------------------------------------------------------------

(* What a mutex promises its callers, FairLock.tla: the owner it has here. *)
OwnerOf(m) == IF \E t \in Threads : Owns(t, m)
              THEN CHOOSE t \in Threads : Owns(t, m) ELSE Nobody

Abstract == INSTANCE FairLock WITH
    Locks   <- Addrs,
    owner   <- [m \in Addrs |-> OwnerOf(m)],
    waiting <- [t \in Threads |-> IF pc[t] \in Locking /\ ~Owns(t, mu[t])
                                  THEN {mu[t]} ELSE {}]

(* Every step of the mutex is a step of the abstract lock or changes none  *)
(* of its state.                                                           *)
ImplementsLock == Abstract!Spec
=============================================================================
