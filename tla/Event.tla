------------------------------- MODULE Event -------------------------------
(***************************************************************************)
(* pysync/event.go: the one-shot event, on the parking lot.                *)
(*                                                                         *)
(* The word is Unset, Parked (unset, somebody is parked) or Set.  Waiters  *)
(* call WaitTimed, with or without a deadline, and notifiers call Notify.  *)
(* Wait is a loop around WaitTimed(-1): a waiter whose call returned false *)
(* is back where it started and may call again.                            *)
(*                                                                         *)
(* A waiter is `idle`, inside WaitTimed (load, mark, park, enqueue,        *)
(* blocked, timedout, claimed, answer) or has returned `true` or `false`;  *)
(* a notifier is `idle`, inside Notify (swap, retry, unpark, signal) or    *)
(* `done`.                                                                 *)
(***************************************************************************)
EXTENDS ParkingLot

CONSTANTS
    Addr,       \* the address of the event's word
    Waiters,    \* goroutines that wait
    Bounded     \* the waiters that pass a timeout

EventAssumption ==
    Addr \in Addrs /\ Waiters \subseteq Threads /\ Bounded \subseteq Waiters

Notifiers == Threads \ Waiters

VARIABLES
    word,
    pc,
    seen,       \* seen[t]: the value of the word t last loaded (v)
    wakees      \* wakees[t]: waiters t has dequeued and has yet to signal

vars == <<lotVars, word, pc, seen, wakees>>

Words == {"Unset", "Parked", "Set"}
WaitPCs == {"load", "mark", "park", "enqueue", "blocked", "timedout", "claimed", "answer"}
PCs == WaitPCs \cup {"idle", "true", "false", "swap", "unpark", "signal", "retry", "done"}

TypeOK ==
    /\ LotTypeOK
    /\ word \in Words
    /\ pc \in [Threads -> PCs]
    /\ seen \in [Threads -> Words]
    /\ wakees \in [Threads -> Seq(Threads)]

Init ==
    /\ LotInit
    /\ word = "Unset"
    /\ pc = [t \in Threads |-> "idle"]
    /\ seen = [t \in Threads |-> "Unset"]
    /\ wakees = [t \in Threads |-> << >>]

-----------------------------------------------------------------------------

Goto(t, from, to) == pc[t] = from /\ pc' = [pc EXCEPT ![t] = to]

(* WaitTimed: the load at the top. *)
Load(t) ==
    /\ t \in Waiters
    /\ pc[t] \in {"idle", "true", "false", "load"}
    /\ pc' = [pc EXCEPT ![t] = CASE word = "Set"    -> "true"
                                 [] word = "Unset"  -> "mark"
                                 [] word = "Parked" -> "park"]
    /\ seen' = [seen EXCEPT ![t] = word]
    /\ UNCHANGED <<lotVars, word, wakees>>

(* WaitTimed: from Unset to Parked, or start over. *)
MarkParked(t) ==
    /\ \/ Goto(t, "mark", "park") /\ word = seen[t] /\ word' = "Parked"
       \/ Goto(t, "mark", "load") /\ word # seen[t] /\ UNCHANGED word
    /\ UNCHANGED <<lotVars, seen, wakees>>

(* Mutant: Park's check does not look at the word. *)
CheckNothing(t) ==
    /\ Goto(t, "park", "enqueue") /\ BeginPark(t, Addr)
    /\ UNCHANGED <<word, seen, wakees>>

(* Park's check, under bucket.mu. *)
CheckPark(t) ==
    /\ \/ word = "Parked" /\ Goto(t, "park", "enqueue") /\ BeginPark(t, Addr)
       \/ word # "Parked" /\ Goto(t, "park", "answer") /\ ParkAgain(Addr)
    /\ UNCHANGED <<word, seen, wakees>>

EnqueueSelf(t) ==
    /\ Goto(t, "enqueue", "blocked")
    /\ Enqueue(t, Addr)
    /\ UNCHANGED <<word, seen, wakees>>

(* Mutant: Park returns before anybody unparks. *)
WokenSpuriously(t) ==
    /\ Goto(t, "blocked", "answer")
    /\ UNCHANGED <<lotVars, word, seen, wakees>>

Woken(t) ==
    /\ \/ Goto(t, "blocked", "answer")
       \/ Goto(t, "claimed", "answer")
    /\ Wake(t)
    /\ UNCHANGED <<word, seen, wakees>>

TimerFires(t) ==
    /\ t \in Bounded
    /\ Goto(t, "blocked", "timedout")
    /\ UNCHANGED <<lotVars, word, seen, wakees>>

GiveUp(t) ==
    /\ \/ Goto(t, "timedout", "answer") /\ RemoveTimedOut(t, Addr)
       \/ Goto(t, "timedout", "claimed") /\ TimedOutButClaimed(t, Addr)
    /\ UNCHANGED <<word, seen, wakees>>

(* WaitTimed: the load after Park is its result, however Park ended. *)
Answer(t) ==
    /\ Goto(t, "answer", IF word = "Set" THEN "true" ELSE "false")
    /\ UNCHANGED <<lotVars, word, seen, wakees>>

-----------------------------------------------------------------------------

LoadToNotify(t) ==
    /\ t \in Notifiers
    /\ pc[t] \in {"idle", "retry", "done"}
    /\ pc' = [pc EXCEPT ![t] = IF word = "Set" THEN "done" ELSE "swap"]
    /\ seen' = [seen EXCEPT ![t] = word]
    /\ UNCHANGED <<lotVars, word, wakees>>

SetOnly(t) ==
    /\ Goto(t, "swap", "done")
    /\ word' = "Set"
    /\ UNCHANGED <<lotVars, seen, wakees>>

(* Notify: swap the loaded value for Set, or start over. *)
SetWord(t) ==
    /\ \/ /\ word = seen[t]
          /\ Goto(t, "swap", IF seen[t] = "Parked" THEN "unpark" ELSE "done")
          /\ word' = "Set"
       \/ /\ word # seen[t]
          /\ Goto(t, "swap", "retry")
          /\ UNCHANGED word
    /\ UNCHANGED <<lotVars, seen, wakees>>

UnparkEverybody(t) ==
    /\ DequeueAll(Addr)
    /\ \E ws \in Picked(Queue(Addr), WaitersOn(Addr)) :
          /\ wakees' = [wakees EXCEPT ![t] = [i \in DOMAIN ws |-> ws[i].thr]]
          /\ Goto(t, "unpark", IF ws = << >> THEN "done" ELSE "signal")
    /\ UNCHANGED <<word, seen>>

SignalNext(t) ==
    /\ Goto(t, "signal", IF Len(wakees[t]) = 1 THEN "done" ELSE "signal")
    /\ Signal(Head(wakees[t]))
    /\ wakees' = [wakees EXCEPT ![t] = Tail(@)]
    /\ UNCHANGED <<word, seen>>

-----------------------------------------------------------------------------

(* Steps inside a call that has begun, and the start of a call. *)
Run(t) ==
    \/ pc[t] = "load" /\ Load(t)
    \/ pc[t] = "retry" /\ LoadToNotify(t)
    \/ MarkParked(t) \/ CheckPark(t) \/ EnqueueSelf(t) \/ Woken(t) \/ GiveUp(t)
    \/ Answer(t) \/ SetWord(t) \/ UnparkEverybody(t) \/ SignalNext(t)

Call(t) == pc[t] \notin {"load", "retry"} /\ (Load(t) \/ LoadToNotify(t))

Next == \E t \in Threads : Call(t) \/ Run(t) \/ TimerFires(t)

Spec == Init /\ [][Next]_vars

(* Goroutines inside a call keep running; nobody need ever call Notify.    *)
FairSpec == Spec /\ \A t \in Threads : WF_vars(Run(t))

-----------------------------------------------------------------------------

(* Nobody is left parked on an event that has been set: a notifier is on   *)
(* its way to unpark them.  And whoever parks has the word say so, or      *)
(* Notify would not look for them.                                         *)
NoLostWakeup ==
    ParkedOn(Addr) # {} =>
        /\ word # "Unset"
        /\ word = "Set" => \E t \in Threads : pc[t] = "unpark"

(* WaitTimed(-1) never returns false: a goroutine without a deadline is    *)
(* only ever woken by a Notify, so the loop in Wait does not spin.         *)
UnboundedWaitIsTrue == \A t \in Waiters \ Bounded : pc[t] # "false"

(* event.go:13: the word, the lot and where every goroutine is fit         *)
(* together: whoever is parked will be found, and is woken by nothing but  *)
(* the event or its own timer.                                             *)
EventInv == TypeOK /\ NoLostWakeup /\ UnboundedWaitIsTrue
=============================================================================
