----------------------------- MODULE ParkingLot -----------------------------
(***************************************************************************)
(* pysync/parkinglot.go: the address-keyed parking lot every pysync        *)
(* primitive blocks on.  A waiter parks on an address; waiters whose       *)
(* addresses hash to the same bucket share one FIFO list and one mutex.    *)
(*                                                                         *)
(* The module has the lot's state and, for each piece of Park, Unpark and  *)
(* UnparkAll that is atomic to the other goroutines, an operator that      *)
(* changes it.  The modules that extend it sequence those pieces with a pc *)
(* and supply the `check` and `fn` callbacks.                              *)
(*                                                                         *)
(* What is atomic.  All the list operations happen under bucket.mu, so a   *)
(* critical section that touches the caller's word once is one step.  Park *)
(* is the exception: it evaluates check(), which reads the word, and then  *)
(* enqueues, and the word's owner need not hold bucket.mu to change it.    *)
(* Park is therefore two steps, BeginPark and Enqueue, with bucket.mu held *)
(* in between.  Unpark and UnparkAll send on the waiter's channel after    *)
(* releasing bucket.mu: Signal is a step of its own.                       *)
(***************************************************************************)
EXTENDS Naturals, Sequences, SequencesExt, FiniteSets

CONSTANTS
    Threads,    \* goroutines that use the primitives
    Nobody,     \* not a goroutine: a free bucket mutex, no waiter dequeued
    Addrs,      \* the words parked on, one per primitive
    Buckets,    \* the lot's buckets (numBuckets = 257 in the code)
    BucketOf    \* bucketFor: which bucket an address hashes to

ASSUME LotAssumption ==
    /\ Nobody \notin Threads
    /\ BucketOf \in [Addrs -> Buckets]

VARIABLES
    waitq,      \* waitq[b]: bucket b's list of waiters, first to last
    bucketMu,   \* bucketMu[b]: the goroutine inside Park holding bucket.mu
    unparking,  \* unparking[t]: waiter.isUnparking of t's current waiter
    notify      \* notify[t]: a token is in the channel of t's waiter

lotVars == <<waitq, bucketMu, unparking, notify>>

Waiter == [thr : Threads, addr : Addrs]

(* The shape of the lists: a goroutine has one waiter, on the list of its  *)
(* address's bucket.                                                       *)
QueuesOK ==
    /\ waitq \in [Buckets -> Seq(Waiter)]
    /\ \A b \in Buckets : \A i, j \in 1 .. Len(waitq[b]) :
          /\ BucketOf[waitq[b][i].addr] = b
          /\ i # j => waitq[b][i].thr # waitq[b][j].thr

LotTypeOK ==
    /\ QueuesOK
    /\ bucketMu \in [Buckets -> Threads \cup {Nobody}]
    /\ unparking \in [Threads -> BOOLEAN]
    /\ notify \in [Threads -> BOOLEAN]

LotInit ==
    /\ waitq = [b \in Buckets |-> << >>]
    /\ bucketMu = [b \in Buckets |-> Nobody]
    /\ unparking = [t \in Threads |-> FALSE]
    /\ notify = [t \in Threads |-> FALSE]

-----------------------------------------------------------------------------

Queue(a) == waitq[BucketOf[a]]

(* bucket.mu of a's bucket can be taken. *)
MuFree(a) == bucketMu[BucketOf[a]] = Nobody

(* Position i of q is the first waiter parked on a: what dequeue finds. *)
IsFirst(q, i, a) ==
    /\ i \in 1 .. Len(q)
    /\ q[i].addr = a
    /\ \A j \in 1 .. i - 1 : q[j].addr # a

NoWaiter(a) == \A i \in 1 .. Len(Queue(a)) : Queue(a)[i].addr # a

(* Once waiter i is gone another waiter on the same address remains. *)
HasMore(q, i) == \E j \in (1 .. Len(q)) \ {i} : q[j].addr = q[i].addr

(* t is on the list of a's bucket, at position i. *)
IsQueuedAt(t, a, i) ==
    i \in 1 .. Len(Queue(a)) /\ Queue(a)[i] = [thr |-> t, addr |-> a]

ParkedOn(a) == { t \in Threads : \E i \in 1 .. Len(Queue(a)) : IsQueuedAt(t, a, i) }

-----------------------------------------------------------------------------

(* Park: bucket.mu is taken and check() has just answered false, so the    *)
(* mutex is released again and the caller gets ParkAgain.                  *)
ParkAgain(a) == MuFree(a) /\ UNCHANGED lotVars

(* Park: bucket.mu is taken and check() has just answered true. *)
BeginPark(t, a) ==
    /\ MuFree(a)
    /\ bucketMu' = [bucketMu EXCEPT ![BucketOf[a]] = t]
    /\ UNCHANGED <<waitq, unparking, notify>>

(* Park: enqueue a fresh waiter at the tail and release bucket.mu. *)
Enqueue(t, a) ==
    /\ bucketMu[BucketOf[a]] = t
    /\ waitq' = [waitq EXCEPT ![BucketOf[a]] = Append(@, [thr |-> t, addr |-> a])]
    /\ unparking' = [unparking EXCEPT ![t] = FALSE]
    /\ notify' = [notify EXCEPT ![t] = FALSE]
    /\ bucketMu' = [bucketMu EXCEPT ![BucketOf[a]] = Nobody]

(* Park: <-w.notify. *)
Wake(t) ==
    /\ notify[t]
    /\ notify' = [notify EXCEPT ![t] = FALSE]
    /\ UNCHANGED <<waitq, bucketMu, unparking>>

(* Park, after the timer fired: still queued, so the waiter removes itself *)
(* and the caller gets ParkTimeout.                                        *)
RemoveTimedOut(t, a) ==
    /\ MuFree(a)
    /\ ~unparking[t]
    /\ \E i \in 1 .. Len(Queue(a)) :
          /\ IsQueuedAt(t, a, i)
          /\ waitq' = [waitq EXCEPT ![BucketOf[a]] = RemoveAt(@, i)]
    /\ UNCHANGED <<bucketMu, unparking, notify>>

(* Park, after the timer fired: an unparker has already dequeued this      *)
(* waiter; the caller goes on to wait for its token.                       *)
TimedOutButClaimed(t, a) ==
    /\ MuFree(a)
    /\ unparking[t]
    /\ UNCHANGED lotVars

(* Unpark: dequeue the waiter at position i, the first on a. *)
Dequeue(a, i) ==
    /\ MuFree(a)
    /\ IsFirst(Queue(a), i, a)
    /\ waitq' = [waitq EXCEPT ![BucketOf[a]] = RemoveAt(@, i)]
    /\ unparking' = [unparking EXCEPT ![Queue(a)[i].thr] = TRUE]
    /\ UNCHANGED <<bucketMu, notify>>

(* Unpark finding nobody on a. *)
DequeueNone(a) == MuFree(a) /\ NoWaiter(a) /\ UNCHANGED lotVars

(* The elements of q at the positions in S, in q's order: one list. *)
Picked(q, S) ==
    { [i \in 1 .. Cardinality(S) |-> q[p[i]]] :
        p \in { p \in [1 .. Cardinality(S) -> S] :
                  \A i, j \in 1 .. Cardinality(S) : i < j => p[i] < p[j] } }

WaitersOn(a) == { i \in 1 .. Len(Queue(a)) : Queue(a)[i].addr = a }

(* UnparkAll: dequeue every waiter on a. *)
DequeueAll(a) ==
    /\ MuFree(a)
    /\ \E rest \in Picked(Queue(a), (1 .. Len(Queue(a))) \ WaitersOn(a)) :
          waitq' = [waitq EXCEPT ![BucketOf[a]] = rest]
    /\ unparking' = [t \in Threads |-> t \in ParkedOn(a) \/ unparking[t]]
    /\ UNCHANGED <<bucketMu, notify>>

(* Unpark and UnparkAll, after bucket.mu: send on the waiter's channel.    *)
(* The channel holds one token, so a second send would block.              *)
Signal(t) ==
    /\ ~notify[t]
    /\ notify' = [notify EXCEPT ![t] = TRUE]
    /\ UNCHANGED <<waitq, bucketMu, unparking>>
=============================================================================
