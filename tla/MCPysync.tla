------------------------------ MODULE MCPysync ------------------------------
(***************************************************************************)
(* Instances of RWMutex, Event, PyMutex, RecursiveMutex and SeqLock for    *)
(* TLC: for safety and liveness of the first two, for liveness of the      *)
(* third, with no timeouts (MCPyMutex has them), and for safety of the     *)
(* others.  A behaviour uses an object of one kind.                        *)
(***************************************************************************)
EXTENDS TLC

CONSTANTS
    Kinds,              \* of RWMutex, Event, PyMutex, RecursiveMutex, SeqLock
    t1, t2, t3, t4,     \* goroutines
    Nobody, Addr, Addrs, b1, Buckets, BucketOf

VARIABLES
    kind,
    waitq, bucketMu, unparking, notify, pc, seen, bits, writing, wakees,
    word, mu, timeout, overdue, handedOff, wakee,
    owner, level, at, depth,
    sequence, cells, token, got

OneBucket == (Addr :> b1)

Three == {t1, t2, t3}
Four  == {t1, t2, t3, t4}

RW == INSTANCE RWMutex WITH
    Threads <- Three, Readers <- {t1, t2}, Writers <- {t2, t3}

Ev == INSTANCE Event WITH
    Threads <- Four, Waiters <- {t1, t2}, Bounded <- {t2}

Mx == INSTANCE PyMutex WITH Threads <- Three, Limits <- {"forever"}

Rec == INSTANCE RecursiveMutex WITH
    Threads <- {t1, t2}, Limits <- {"forever"}, MaxLevel <- 2

Sq == INSTANCE SeqLock WITH Writers <- {t1, t2}, Readers <- {t3}, SeqModulus <- 6

ASSUME RW!RWAssumption /\ Ev!EventAssumption /\ Rec!RecAssumption /\ Sq!SeqAssumption

mxVars == <<mu, timeout, overdue, handedOff, wakee>>
recVars == <<owner, level, at, depth>>
sqVars == <<sequence, cells, token, got>>
AllVars == <<kind, waitq, bucketMu, unparking, notify, pc, seen, bits, writing, wakees,
             word, mxVars, recVars, sqVars>>

(* The variables of the other kinds. *)
OnlyRW == kind = "RWMutex" /\ UNCHANGED <<kind, word, mxVars, recVars, sqVars>>
OnlyEv == kind = "Event" /\ UNCHANGED <<kind, bits, writing, mxVars, recVars, sqVars>>
OnlyMx == kind = "PyMutex" /\ UNCHANGED <<kind, word, writing, wakees, recVars, sqVars>>
OnlyRec == kind = "RecursiveMutex" /\ UNCHANGED <<kind, word, writing, wakees, sqVars>>
OnlySq ==
    /\ kind = "SeqLock"
    /\ UNCHANGED <<kind, waitq, bucketMu, unparking, notify, seen, bits, writing, wakees,
                   word, mxVars, recVars>>

NoMutex == mu = Nobody /\ timeout = Nobody /\ overdue = Nobody /\ handedOff = Nobody
           /\ wakee = Nobody
NoOwner == owner = Nobody /\ level = Nobody /\ at = Nobody /\ depth = Nobody
NoSeq == sequence = Nobody /\ cells = Nobody /\ token = Nobody /\ got = Nobody
NoLot == waitq = Nobody /\ bucketMu = Nobody /\ unparking = Nobody /\ notify = Nobody
         /\ seen = Nobody /\ wakees = Nobody

PysyncInit ==
    /\ kind \in Kinds
    /\ \/ kind = "RWMutex" /\ RW!Init /\ word = Nobody /\ NoMutex /\ NoOwner /\ NoSeq
       \/ /\ kind = "Event" /\ Ev!Init /\ bits = Nobody /\ writing = Nobody /\ NoMutex
          /\ NoOwner /\ NoSeq
       \/ /\ kind = "PyMutex" /\ Mx!Init
          /\ word = Nobody /\ writing = Nobody /\ wakees = Nobody /\ NoOwner /\ NoSeq
       \/ /\ kind = "RecursiveMutex" /\ Rec!RecInit
          /\ word = Nobody /\ writing = Nobody /\ wakees = Nobody /\ NoSeq
       \/ /\ kind = "SeqLock" /\ Sq!SeqInit
          /\ word = Nobody /\ bits = Nobody /\ writing = Nobody /\ NoLot /\ NoMutex /\ NoOwner

PysyncNext ==
    \/ OnlyRW /\ RW!Next
    \/ OnlyEv /\ Ev!Next
    \/ OnlyMx /\ Mx!Next
    \/ OnlyRec /\ Rec!RecNext
    \/ OnlySq /\ Sq!SeqNext

(* The fairness of each module. *)
PysyncSpec ==
    /\ PysyncInit /\ [][PysyncNext]_AllVars
    /\ \A t \in Three : WF_AllVars(OnlyRW /\ RW!Run(t))
    /\ \A t \in Four : WF_AllVars(OnlyEv /\ Ev!Run(t))
    /\ \A t \in Three :
          WF_AllVars(OnlyMx /\ Mx!Run(t)) /\ WF_AllVars(OnlyMx /\ Mx!Tick(t))

-----------------------------------------------------------------------------

(* rwmutex.go:22, 60-86: the word and the goroutines inside agree at every *)
(* step, no unlock by who is inside panics, and nobody is parked whom      *)
(* nobody is going to unpark.                                              *)
RWInv == kind = "RWMutex" => RW!RWInv /\ RW!NoLostWakeup

(* rwmutex.go:15: "Writers are not starved: once a writer parks, new       *)
(* readers also park": while HasParked stands for a parked writer, a       *)
(* writer gets the lock, however many readers come and go.  (A writer's    *)
(* Unlock takes HasParked away before it unparks anybody.  From there on   *)
(* the parked writers compete with everybody else.)                        *)
WritersAreServed ==
    (kind = "RWMutex" /\ bits.parked /\ RW!ParkedOn(Addr) \cap writing # {})
        ~> (kind = "RWMutex" => RW!Holding \cap writing # {})

(* event.go:13, 75-100: word, lot and goroutines fit together, and a wait  *)
(* without a deadline does not return false.                               *)
EventInv == kind = "Event" => Ev!EventInv

(* recursive.go:21: ident and level tell of the goroutine inside, and of   *)
(* it alone, while the mutex goes from one owner to the next, and unlocks  *)
(* by it never panic.                                                      *)
RecInv == kind = "RecursiveMutex" => Rec!RecInv

(* seqlock.go:8: writers exclude each other, and a read that EndRead lets  *)
(* pass saw one published version, with writes under way, abandoned and    *)
(* published around it, and the number coming round.                       *)
SeqInv == kind = "SeqLock" => Sq!SeqInv

(* What each kind owes a waiter, and when it has paid. *)
Owed(t) ==
    CASE kind = "RWMutex" -> t \in Three /\ pc[t] = "blocked"
      [] kind = "Event"   -> t \in {t1, t2} /\ word = "Set" /\ pc[t] \in Ev!WaitPCs
      [] kind = "PyMutex" -> t \in Mx!ParkedOn(Addr) /\ timeout[t] = "forever" /\ overdue[t]
      [] OTHER -> FALSE

Paid(t) ==
    CASE kind = "RWMutex" -> t \in Three /\ pc[t] # "blocked"
      [] kind = "Event"   -> pc[t] = "true"
      [] kind = "PyMutex" -> t \in Three /\ pc[t] = "held"
      [] OTHER -> FALSE

(* rwmutex.go:128-150: whoever parks on a reader-writer lock is dequeued   *)
(* and woken.  event.go:41-60: once the event is set, a wait that is under *)
(* way returns true: the waiter is woken, or was about to find out by      *)
(* itself.  mutex.go:107-150, the fairness promise: a goroutine parked     *)
(* without a deadline for longer than the window gets the mutex, whoever   *)
(* else competes.                                                          *)
WaitersAreServed == \A t \in Four : Owed(t) ~> Paid(t)
=============================================================================
