------------------------------ MODULE RWMutex ------------------------------
(***************************************************************************)
(* pysync/rwmutex.go: the reader-writer lock, on the parking lot.          *)
(*                                                                         *)
(* The word packs a writer flag, a HasParked flag and the number of        *)
(* readers.  A goroutine that cannot have the lock sets HasParked and      *)
(* parks; the last reader out, or the writer, unparks everybody, and they  *)
(* compete again.  A writer that unlocks clears HasParked before it has    *)
(* unparked anyone, and the last reader leaves the flag set.               *)
(*                                                                         *)
(* Each access to the word is a step.  A goroutine is `idle`, inside RLock *)
(* or Lock (load, take, mark, park, enqueue, blocked), `held`, inside      *)
(* RUnlock or Unlock (unpark, signal), or in `panic`.                      *)
(***************************************************************************)
EXTENDS ParkingLot, FiniteSets

CONSTANTS
    Addr,       \* the address of the lock's word
    Readers,    \* goroutines that use RLock and RUnlock
    Writers     \* goroutines, the same or others, that use Lock and Unlock

RWAssumption ==
    Addr \in Addrs /\ Readers \cup Writers \subseteq Threads /\ IsFiniteSet(Threads)

VARIABLES
    bits,       \* the word: [writer, parked, readers]
    writing,    \* the goroutines whose call, or last call, is Lock
    pc,
    seen,       \* seen[t]: the value of the word t last loaded (bits, expected)
    wakees      \* wakees[t]: waiters t has dequeued and has yet to signal

vars == <<lotVars, bits, writing, pc, seen, wakees>>

Words == [writer : BOOLEAN, parked : BOOLEAN, readers : Nat]
Unlocked == [writer |-> FALSE, parked |-> FALSE, readers |-> 0]

Waiting == {"load", "take", "mark", "park", "enqueue", "blocked"}
PCs == Waiting \cup {"idle", "held", "unpark", "signal", "panic"}

TypeOK ==
    /\ LotTypeOK
    /\ bits \in Words
    /\ writing \subseteq Threads
    /\ pc \in [Threads -> PCs]
    /\ seen \in [Threads -> Words]
    /\ wakees \in [Threads -> Seq(Threads)]

Init ==
    /\ LotInit
    /\ bits = Unlocked
    /\ writing = {}
    /\ pc = [t \in Threads |-> "idle"]
    /\ seen = [t \in Threads |-> Unlocked]
    /\ wakees = [t \in Threads |-> << >>]

-----------------------------------------------------------------------------

Goto(t, from, to) == pc[t] = from /\ pc' = [pc EXCEPT ![t] = to]

Swap(t, new) == bits = seen[t] /\ bits' = new
SwapFails(t) == bits # seen[t] /\ UNCHANGED bits

(* Mutant: readers only look at the writer flag. *)
MustWaitForHolders(t, w) == w.writer \/ (t \in writing /\ w.readers # 0)

(* A reader is turned away by a writer or by anybody parked, a writer by   *)
(* the holders alone.                                                      *)
MustWait(t, w) == w.writer \/ IF t \in writing THEN w.readers # 0 ELSE w.parked

(* The word when t has taken the lock. *)
Taken(t, w) == IF t \in writing THEN [w EXCEPT !.writer = TRUE]
                                ELSE [w EXCEPT !.readers = @ + 1]

(* RLock or Lock is called. *)
Call(t) ==
    /\ Goto(t, "idle", "load")
    /\ \/ t \in Readers /\ writing' = writing \ {t}
       \/ t \in Writers /\ writing' = writing \cup {t}
    /\ UNCHANGED <<lotVars, bits, seen, wakees>>

(* RLock and Lock: load the word and go by what it says.  The call itself, *)
(* a failed swap and the end of parkAndWait all come here.                 *)
Load(t) ==
    /\ Goto(t, "load", IF ~MustWait(t, bits) THEN "take"
                       ELSE IF bits.parked THEN "park" ELSE "mark")
    /\ seen' = [seen EXCEPT ![t] = bits]
    /\ UNCHANGED <<lotVars, bits, wakees>>

(* Mutant: the lock is taken by an atomic add. *)
TakeByAdd(t) ==
    /\ Goto(t, "take", "held")
    /\ bits' = Taken(t, bits)
    /\ UNCHANGED <<lotVars, seen, wakees>>

(* The swap that takes the lock. *)
Take(t) ==
    /\ \/ Goto(t, "take", "held") /\ Swap(t, Taken(t, seen[t]))
       \/ Goto(t, "take", "load") /\ SwapFails(t)
    /\ UNCHANGED <<lotVars, seen, wakees>>

(* parkAndWait: announce a parked waiter. *)
MarkParked(t) ==
    /\ \/ /\ Goto(t, "mark", "park")
          /\ Swap(t, [seen[t] EXCEPT !.parked = TRUE])
          /\ seen' = [seen EXCEPT ![t].parked = TRUE]
       \/ /\ Goto(t, "mark", "load")
          /\ SwapFails(t)
          /\ UNCHANGED seen
    /\ UNCHANGED <<lotVars, wakees>>

(* parkAndWait: Park's check, under bucket.mu. *)
CheckPark(t) ==
    /\ \/ bits = seen[t] /\ Goto(t, "park", "enqueue") /\ BeginPark(t, Addr)
       \/ bits # seen[t] /\ Goto(t, "park", "load") /\ ParkAgain(Addr)
    /\ UNCHANGED <<bits, seen, wakees>>

EnqueueSelf(t) ==
    /\ Goto(t, "enqueue", "blocked")
    /\ Enqueue(t, Addr)
    /\ UNCHANGED <<bits, seen, wakees>>

Woken(t) ==
    /\ Goto(t, "blocked", "load")
    /\ Wake(t)
    /\ UNCHANGED <<bits, seen, wakees>>

-----------------------------------------------------------------------------

(* Mutants: the last reader, or the writer, leaves without unparking. *)
RUnlockForgetsParked(t) ==
    /\ t \notin writing
    /\ Goto(t, "held", IF bits.readers = 0 THEN "panic" ELSE "idle")
    /\ bits' = [bits EXCEPT !.readers = @ - 1]
    /\ UNCHANGED <<lotVars, seen, wakees>>

UnlockForgetsParked(t) ==
    /\ t \in writing
    /\ Goto(t, "held", IF ~bits.writer \/ bits.readers # 0 THEN "panic" ELSE "idle")
    /\ bits' = Unlocked
    /\ UNCHANGED <<lotVars, seen, wakees>>

(* RUnlock: subtract one reader; the last one out unparks. *)
RUnlock(t) ==
    /\ t \notin writing
    /\ Goto(t, "held", IF bits.readers = 0 THEN "panic"
                       ELSE IF bits.readers = 1 /\ bits.parked THEN "unpark"
                       ELSE "idle")
    /\ bits' = [bits EXCEPT !.readers = @ - 1]
    /\ UNCHANGED <<lotVars, seen, wakees>>

(* Unlock: clear the whole word, HasParked with it. *)
Unlock(t) ==
    /\ t \in writing
    /\ Goto(t, "held", IF ~bits.writer \/ bits.readers # 0 THEN "panic"
                       ELSE IF bits.parked THEN "unpark" ELSE "idle")
    /\ bits' = Unlocked
    /\ UNCHANGED <<lotVars, seen, wakees>>

(* UnparkAll: dequeue everybody parked on the lock, in the list's order. *)
UnparkEverybody(t) ==
    /\ DequeueAll(Addr)
    /\ \E ws \in Picked(Queue(Addr), WaitersOn(Addr)) :
          /\ wakees' = [wakees EXCEPT ![t] = [i \in DOMAIN ws |-> ws[i].thr]]
          /\ Goto(t, "unpark", IF ws = << >> THEN "idle" ELSE "signal")
    /\ UNCHANGED <<bits, seen>>

(* UnparkAll: signal them one by one. *)
SignalNext(t) ==
    /\ Goto(t, "signal", IF Len(wakees[t]) = 1 THEN "idle" ELSE "signal")
    /\ Signal(Head(wakees[t]))
    /\ wakees' = [wakees EXCEPT ![t] = Tail(@)]
    /\ UNCHANGED <<bits, seen>>

-----------------------------------------------------------------------------

Run(t) ==
    /\ \/ Load(t) \/ Take(t)
       \/ MarkParked(t) \/ CheckPark(t) \/ EnqueueSelf(t) \/ Woken(t)
       \/ RUnlock(t) \/ Unlock(t) \/ UnparkEverybody(t) \/ SignalNext(t)
    /\ UNCHANGED writing

Next == \E t \in Threads : Call(t) \/ Run(t)

Spec == Init /\ [][Next]_vars

(* Goroutines inside a call keep running and holders let go. *)
FairSpec == Spec /\ \A t \in Threads : WF_vars(Run(t))

-----------------------------------------------------------------------------

Holding == { t \in Threads : pc[t] = "held" }

(* A writer excludes everybody, and the word counts who is in: the reader  *)
(* field is the number of readers, the writer flag says there is a writer. *)
WordCountsHolders ==
    /\ bits.readers = Cardinality(Holding \ writing)
    /\ Cardinality(Holding \cap writing) = IF bits.writer THEN 1 ELSE 0
    /\ bits.writer => bits.readers = 0

(* RUnlock and Unlock by a holder do not panic. *)
UnlockNeverPanics == \A t \in Threads : pc[t] # "panic"

(* rwmutex.go:22: the word and the goroutines inside agree at every step:  *)
(* the reader count is theirs, the write bit is the writer's, and no       *)
(* unlock by who is inside meets a word that makes it panic.               *)
RWInv == TypeOK /\ WordCountsHolders /\ UnlockNeverPanics

(* A writer that is awake, or dequeued and about to be, and will see the   *)
(* word again.                                                             *)
WriterAwake(t) ==
    /\ t \in writing
    /\ pc[t] \in {"load", "take", "mark", "park"} \/ (pc[t] = "blocked" /\ unparking[t])

(* Nobody is left parked: somebody holds the lock and its word asks it to  *)
(* unpark, or an unparker is on its way, or (after the last reader left    *)
(* HasParked behind) a writer is awake to take the lock and unpark the     *)
(* rest.  Only a writer can: readers turn back at HasParked.               *)
NoLostWakeup ==
    ParkedOn(Addr) # {} =>
        \/ bits.parked /\ Holding # {}
        \/ \E t \in Threads : pc[t] = "unpark"
        \/ \E t \in Threads : WriterAwake(t)
=============================================================================
