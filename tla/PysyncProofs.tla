---------------------------- MODULE PysyncProofs ----------------------------
(***************************************************************************)
(* Proofs about package pysync, for any number of goroutines, mutexes and  *)
(* buckets.                                                                *)
(*                                                                         *)
(* The parking lot comes first: what its steps do to the set of goroutines *)
(* parked on an address.  The rest uses ParkedOn only; that the lists      *)
(* behind it are sequences matters in the first part alone.  Then PyMutex: *)
(* every invariant the runs check, and that it implements FairLock; and    *)
(* RecursiveMutex on it.  OnceFlag and SeqLock need no lot.  Event and     *)
(* RWMutex share an invariant about sleepers (Sleep), and come last.       *)
(***************************************************************************)
EXTENDS RecursiveMutex, SequenceTheorems, FiniteSetTheorems, TLAPS

(* Removing one element of a sequence keeps the others in order. *)
LEMMA RemoveAtProps ==
    ASSUME NEW S, NEW s \in Seq(S), NEW i \in 1 .. Len(s)
    PROVE  /\ RemoveAt(s, i) \in Seq(S)
           /\ Len(RemoveAt(s, i)) = Len(s) - 1
           /\ \A j \in 1 .. Len(s) - 1 :
                 RemoveAt(s, i)[j] = IF j < i THEN s[j] ELSE s[j + 1]
<1> DEFINE p == SubSeq(s, 1, i - 1)
           r == SubSeq(s, i + 1, Len(s))
<1>1. p \in Seq(S) /\ Len(p) = i - 1 /\ \A j \in 1 .. i - 1 : p[j] = s[j]
  OBVIOUS
<1>2. r \in Seq(S) /\ Len(r) = Len(s) - i /\ \A j \in 1 .. Len(s) - i : r[j] = s[i + j]
  OBVIOUS
<1> HIDE DEF p, r
<1>3. /\ p \o r \in Seq(S)
      /\ Len(p \o r) = Len(p) + Len(r)
      /\ \A j \in 1 .. Len(p) + Len(r) :
            (p \o r)[j] = IF j <= Len(p) THEN p[j] ELSE r[j - Len(p)]
  BY <1>1, <1>2, ConcatProperties
<1>4. /\ Len(p) + Len(r) = Len(s) - 1
      /\ \A j \in 1 .. Len(s) - 1 : (p \o r)[j] = IF j < i THEN s[j] ELSE s[j + 1]
  <2>1. Len(p) + Len(r) = Len(s) - 1
    BY <1>1, <1>2
  <2>2. ASSUME NEW j \in 1 .. Len(s) - 1
        PROVE  (p \o r)[j] = IF j < i THEN s[j] ELSE s[j + 1]
    <3>1. CASE j < i
      BY <1>1, <1>3, <2>1, <3>1
    <3>2. CASE ~(j < i)
      <4>1. (p \o r)[j] = r[j - (i - 1)]
        BY <1>1, <1>3, <2>1, <3>2
      <4>2. j - (i - 1) \in 1 .. Len(s) - i /\ i + (j - (i - 1)) = j + 1
        BY <3>2
      <4> QED
        BY <1>2, <3>2, <4>1, <4>2
    <3> QED
      BY <3>1, <3>2
  <2> QED
    BY <2>1, <2>2
<1>5. RemoveAt(s, i) = p \o r
  BY DEF RemoveAt, p, r
<1> QED
  BY <1>3, <1>4, <1>5

-----------------------------------------------------------------------------

(* A step that leaves the lists alone parks and unparks nobody. *)
LEMMA SameQueues ==
    ASSUME UNCHANGED waitq
    PROVE  /\ QueuesOK => QueuesOK'
           /\ \A c : ParkedOn(c)' = ParkedOn(c)
BY DEF QueuesOK, ParkedOn, IsQueuedAt, Queue

(* A goroutine parked on an address is at one position of one list. *)
LEMMA ParkedOnDef ==
    ASSUME QueuesOK, NEW a \in Addrs, NEW t
    PROVE  t \in ParkedOn(a) <=>
             \E i \in 1 .. Len(Queue(a)) : Queue(a)[i] = [thr |-> t, addr |-> a]
<1>1. BucketOf[a] \in Buckets
  BY LotAssumption
<1>2. Queue(a) \in Seq(Waiter)
  BY <1>1 DEF QueuesOK, Queue
<1>3. ASSUME NEW i \in 1 .. Len(Queue(a)), Queue(a)[i] = [thr |-> t, addr |-> a]
      PROVE  t \in Threads
  <2>1. Queue(a)[i] \in Waiter
    BY <1>2, ElementOfSeq
  <2> QED
    BY <1>3, <2>1 DEF Waiter
<1> QED
  BY <1>3 DEF ParkedOn, IsQueuedAt

(* Unpark finds no waiter exactly when nobody is parked on the address. *)
LEMMA NoWaiterParked ==
    ASSUME QueuesOK, NEW a \in Addrs
    PROVE  NoWaiter(a) <=> ParkedOn(a) = {}
<1>1. BucketOf[a] \in Buckets
  BY LotAssumption
<1>2. Queue(a) \in Seq(Waiter)
  BY <1>1 DEF QueuesOK, Queue
<1>3. ASSUME NEW i \in 1 .. Len(Queue(a))
      PROVE  Queue(a)[i] \in Waiter
  BY <1>2, ElementOfSeq
<1>4. ASSUME NEW i \in 1 .. Len(Queue(a)), Queue(a)[i].addr = a
      PROVE  Queue(a)[i].thr \in ParkedOn(a)
  BY <1>3, <1>4 DEF ParkedOn, IsQueuedAt, Waiter
<1>5. ASSUME NEW t \in ParkedOn(a) PROVE ~NoWaiter(a)
  <2>1. PICK i \in 1 .. Len(Queue(a)) : Queue(a)[i] = [thr |-> t, addr |-> a]
    BY DEF ParkedOn, IsQueuedAt
  <2>2. Queue(a)[i].addr = a
    BY <2>1
  <2> QED
    BY <2>2 DEF NoWaiter
<1>6. ASSUME ~NoWaiter(a) PROVE ParkedOn(a) # {}
  BY <1>4, <1>6 DEF NoWaiter
<1> QED
  BY <1>5, <1>6

(* What dequeue finds is parked on the address. *)
LEMMA FirstIsParked ==
    ASSUME QueuesOK, NEW a \in Addrs, NEW i, IsFirst(Queue(a), i, a)
    PROVE  Queue(a)[i].thr \in ParkedOn(a)
<1>1. BucketOf[a] \in Buckets
  BY LotAssumption
<1>2. Queue(a) \in Seq(Waiter) /\ i \in 1 .. Len(Queue(a)) /\ Queue(a)[i].addr = a
  BY <1>1 DEF QueuesOK, Queue, IsFirst
<1>3. Queue(a)[i] \in Waiter
  BY <1>2, ElementOfSeq
<1> QED
  BY <1>2, <1>3 DEF ParkedOn, IsQueuedAt, Waiter

(* hasMore: another goroutine remains parked on the dequeued one's address.*)
LEMMA HasMoreParked ==
    ASSUME QueuesOK, NEW a \in Addrs, NEW i \in 1 .. Len(Queue(a)),
           Queue(a)[i].addr = a
    PROVE  HasMore(Queue(a), i) <=> ParkedOn(a) \ {Queue(a)[i].thr} # {}
<1> DEFINE q == Queue(a)
<1>1. BucketOf[a] \in Buckets
  BY LotAssumption
<1>2. q \in Seq(Waiter) /\ \A j \in 1 .. Len(q) : j # i => q[j].thr # q[i].thr
  BY <1>1 DEF QueuesOK, Queue
<1>3. \A j \in 1 .. Len(q) : q[j] \in Waiter
  BY <1>2, ElementOfSeq
<1>4. ASSUME HasMore(q, i) PROVE ParkedOn(a) \ {q[i].thr} # {}
  <2>1. PICK j \in (1 .. Len(q)) \ {i} : q[j].addr = a
    BY <1>4 DEF HasMore
  <2>2. q[j].thr \in ParkedOn(a)
    BY <1>3, <2>1 DEF ParkedOn, IsQueuedAt, Waiter
  <2> QED
    BY <1>2, <2>1, <2>2
<1>5. ASSUME NEW t \in ParkedOn(a), t # q[i].thr PROVE HasMore(q, i)
  <2>1. PICK j \in 1 .. Len(q) : q[j] = [thr |-> t, addr |-> a]
    BY <1>5 DEF ParkedOn, IsQueuedAt
  <2> QED
    BY <1>5, <2>1 DEF HasMore
<1> QED
  BY <1>4, <1>5

(* Enqueue parks the caller and nobody else. *)
LEMMA EnqueueParks ==
    ASSUME QueuesOK, NEW t \in Threads, NEW a \in Addrs,
           \A c \in Addrs : t \notin ParkedOn(c),
           waitq' = [waitq EXCEPT ![BucketOf[a]] = Append(@, [thr |-> t, addr |-> a])]
    PROVE  /\ QueuesOK'
           /\ \A c \in Addrs : ParkedOn(c)' = ParkedOn(c) \cup (IF c = a THEN {t} ELSE {})
<1> DEFINE b == BucketOf[a]
           q == Queue(a)
           w == [thr |-> t, addr |-> a]
           r == Append(q, w)
<1>1. b \in Buckets /\ q = waitq[b] /\ q \in Seq(Waiter) /\ w \in Waiter
  BY LotAssumption DEF QueuesOK, Queue, Waiter
<1>2. r \in Seq(Waiter) /\ Len(r) = Len(q) + 1 /\ r[Len(q) + 1] = w
      /\ \A i \in 1 .. Len(q) : r[i] = q[i]
  BY <1>1, AppendProperties
<1>3. waitq' = [waitq EXCEPT ![b] = r]
  BY <1>1
<1>4. waitq' \in [Buckets -> Seq(Waiter)] /\ waitq'[b] = r
      /\ \A c \in Buckets \ {b} : waitq'[c] = waitq[c]
  BY <1>1, <1>2, <1>3 DEF QueuesOK
<1>5. \A i \in 1 .. Len(q) : q[i].thr # t
  <2> SUFFICES ASSUME NEW i \in 1 .. Len(q), q[i].thr = t PROVE FALSE
    OBVIOUS
  <2>1. q[i] \in Waiter /\ BucketOf[q[i].addr] = b
    BY <1>1, ElementOfSeq DEF QueuesOK
  <2>2. t \in ParkedOn(q[i].addr)
    BY <1>1, <2>1 DEF ParkedOn, IsQueuedAt, Queue, Waiter
  <2> QED
    BY <2>1, <2>2 DEF Waiter
<1> HIDE DEF b, q, w, r
<1>6. ASSUME NEW c \in Buckets, NEW i \in 1 .. Len(waitq'[c]), NEW j \in 1 .. Len(waitq'[c])
      PROVE  /\ BucketOf[waitq'[c][i].addr] = c
             /\ i # j => waitq'[c][i].thr # waitq'[c][j].thr
  <2>1. CASE c # b
    BY <1>4, <2>1 DEF QueuesOK
  <2>2. CASE c = b
    <3>1. \A k \in 1 .. Len(r) : \/ k \in 1 .. Len(q) /\ r[k] = q[k]
                                 \/ k = Len(q) + 1 /\ r[k] = w
      BY <1>1, <1>2
    <3>2. w.thr = t /\ w.addr = a
      BY DEF w
    <3>3. \A k, l \in 1 .. Len(q) : /\ BucketOf[q[k].addr] = b
                                    /\ k # l => q[k].thr # q[l].thr
      BY <1>1 DEF QueuesOK
    <3>4. i \in 1 .. Len(r) /\ j \in 1 .. Len(r)
      BY <1>4, <2>2
    <3>5. waitq'[c][i] = r[i] /\ waitq'[c][j] = r[j]
      BY <1>4, <2>2
    <3>6. BucketOf[a] = b
      BY DEF b
    <3>7. BucketOf[r[i].addr] = b
      BY <3>1, <3>2, <3>3, <3>4, <3>6
    <3>8. i # j => r[i].thr # r[j].thr
      BY <1>5, <3>1, <3>2, <3>3, <3>4
    <3> QED
      BY <2>2, <3>5, <3>7, <3>8
  <2> QED
    BY <2>1, <2>2
<1>7. QueuesOK'
  BY <1>4, <1>6 DEF QueuesOK
<1>8. ASSUME NEW c \in Addrs, NEW u \in Threads
      PROVE  u \in ParkedOn(c)' <=> u \in ParkedOn(c) \/ (c = a /\ u = t)
  <2> DEFINE v == [thr |-> u, addr |-> c]
  <2>1. BucketOf[c] \in Buckets
    BY LotAssumption
  <2>2. u \in ParkedOn(c) <=> \E i \in 1 .. Len(waitq[BucketOf[c]]) : waitq[BucketOf[c]][i] = v
    BY DEF ParkedOn, IsQueuedAt, Queue
  <2>3. u \in ParkedOn(c)' <=> \E i \in 1 .. Len(waitq'[BucketOf[c]]) : waitq'[BucketOf[c]][i] = v
    BY DEF ParkedOn, IsQueuedAt, Queue
  <2>4. v = w <=> c = a /\ u = t
    BY DEF w
  <2> HIDE DEF v
  <2>5. CASE BucketOf[c] # b
    BY <1>4, <2>1, <2>2, <2>3, <2>5 DEF b
  <2>6. CASE BucketOf[c] = b
    <3>1. (\E i \in 1 .. Len(r) : r[i] = v) => (\E i \in 1 .. Len(q) : q[i] = v) \/ v = w
      BY <1>1, <1>2
    <3>2. ASSUME NEW i \in 1 .. Len(q), q[i] = v PROVE \E j \in 1 .. Len(r) : r[j] = v
      BY <1>1, <1>2, <3>2
    <3>3. ASSUME v = w PROVE \E j \in 1 .. Len(r) : r[j] = v
      <4>1. Len(r) \in 1 .. Len(r) /\ r[Len(r)] = w
        BY <1>1, <1>2
      <4> QED BY <4>1, <3>3
    <3> QED
      BY <1>1, <1>4, <2>2, <2>3, <2>4, <2>6, <3>1, <3>2, <3>3
  <2> QED
    BY <2>5, <2>6
<1>9. \A c \in Addrs : ParkedOn(c) \subseteq Threads /\ ParkedOn(c)' \subseteq Threads
  BY DEF ParkedOn
<1> QED
  BY <1>7, <1>8, <1>9

(* Taking position i out of a list unparks that one goroutine. *)
LEMMA RemovalUnparks ==
    ASSUME QueuesOK, NEW a \in Addrs, NEW i \in 1 .. Len(Queue(a)),
           Queue(a)[i].addr = a,
           waitq' = [waitq EXCEPT ![BucketOf[a]] = RemoveAt(@, i)]
    PROVE  /\ QueuesOK'
           /\ \A c \in Addrs :
                 ParkedOn(c)' = ParkedOn(c) \ (IF c = a THEN {Queue(a)[i].thr} ELSE {})
<1> DEFINE b == BucketOf[a]
           q == Queue(a)
           r == RemoveAt(q, i)
<1>1. b \in Buckets /\ q = waitq[b] /\ q \in Seq(Waiter)
  BY LotAssumption DEF QueuesOK, Queue
<1>2. r \in Seq(Waiter) /\ Len(r) = Len(q) - 1
      /\ \A j \in 1 .. Len(q) - 1 : r[j] = IF j < i THEN q[j] ELSE q[j + 1]
  BY <1>1, RemoveAtProps
<1>3. waitq' = [waitq EXCEPT ![b] = r]
  BY <1>1
<1>4. waitq' \in [Buckets -> Seq(Waiter)] /\ waitq'[b] = r
      /\ \A c \in Buckets \ {b} : waitq'[c] = waitq[c]
  BY <1>1, <1>2, <1>3 DEF QueuesOK
<1>5. \A j, k \in 1 .. Len(q) : /\ BucketOf[q[j].addr] = b
                                /\ j # k => q[j].thr # q[k].thr
  BY <1>1 DEF QueuesOK
<1>6. i \in 1 .. Len(q) /\ Len(q) \in Nat /\ q[i] \in Waiter /\ q[i].addr = a
  BY <1>1, ElementOfSeq
<1> HIDE DEF b, q, r
<1>7. ASSUME NEW c \in Buckets, NEW j \in 1 .. Len(waitq'[c]), NEW k \in 1 .. Len(waitq'[c])
      PROVE  /\ BucketOf[waitq'[c][j].addr] = c
             /\ j # k => waitq'[c][j].thr # waitq'[c][k].thr
  <2>1. CASE c # b
    BY <1>4, <2>1 DEF QueuesOK
  <2>2. CASE c = b
    <3> DEFINE old(n) == IF n < i THEN n ELSE n + 1
    <3>1. j \in 1 .. Len(q) - 1 /\ k \in 1 .. Len(q) - 1
      BY <1>2, <1>4, <2>2
    <3>2. old(j) \in 1 .. Len(q) /\ old(k) \in 1 .. Len(q) /\ (j # k => old(j) # old(k))
      BY <1>6, <3>1
    <3>3. waitq'[c][j] = q[old(j)] /\ waitq'[c][k] = q[old(k)]
      BY <1>2, <1>4, <2>2, <3>1
    <3>4. BucketOf[q[old(j)].addr] = b /\ (j # k => q[old(j)].thr # q[old(k)].thr)
      BY <1>5, <3>2
    <3> QED
      BY <2>2, <3>3, <3>4
  <2> QED
    BY <2>1, <2>2
<1>8. QueuesOK'
  BY <1>4, <1>7 DEF QueuesOK
<1>9. ASSUME NEW c \in Addrs, NEW u \in Threads
      PROVE  u \in ParkedOn(c)' <=> u \in ParkedOn(c) /\ ~(c = a /\ u = q[i].thr)
  <2> DEFINE v == [thr |-> u, addr |-> c]
  <2>1. BucketOf[c] \in Buckets
    BY LotAssumption
  <2>2. u \in ParkedOn(c) <=> \E j \in 1 .. Len(waitq[BucketOf[c]]) : waitq[BucketOf[c]][j] = v
    BY DEF ParkedOn, IsQueuedAt, Queue
  <2>3. u \in ParkedOn(c)' <=> \E j \in 1 .. Len(waitq'[BucketOf[c]]) : waitq'[BucketOf[c]][j] = v
    BY DEF ParkedOn, IsQueuedAt, Queue
  <2>4. q[i] = v <=> c = a /\ u = q[i].thr
    BY <1>6 DEF Waiter
  <2>5. v.thr = u
    OBVIOUS
  <2> HIDE DEF v
  <2>6. CASE BucketOf[c] # b
    BY <1>4, <2>1, <2>2, <2>3, <2>6 DEF b
  <2>7. CASE BucketOf[c] = b
    <3>1. ASSUME NEW j \in 1 .. Len(r), r[j] = v
          PROVE  q[i] # v /\ \E k \in 1 .. Len(q) : q[k] = v
      <4> DEFINE k == IF j < i THEN j ELSE j + 1
      <4>1. k \in 1 .. Len(q) /\ k # i /\ q[k] = v
        BY <1>2, <1>6, <3>1
      <4> QED
        BY <1>5, <1>6, <4>1
    <3>2. ASSUME NEW k \in 1 .. Len(q), q[k] = v, q[i] # v
          PROVE  \E j \in 1 .. Len(r) : r[j] = v
      <4> DEFINE j == IF k < i THEN k ELSE k - 1
      <4>1. j \in 1 .. Len(q) - 1 /\ r[j] = v
        BY <1>2, <1>6, <3>2
      <4> QED
        BY <1>2, <4>1
    <3> QED
      BY <1>1, <1>4, <2>2, <2>3, <2>4, <2>7, <3>1, <3>2
  <2> QED
    BY <2>6, <2>7
<1>10. \A c \in Addrs : ParkedOn(c) \subseteq Threads /\ ParkedOn(c)' \subseteq Threads
  BY DEF ParkedOn
<1> QED
  BY <1>8, <1>9, <1>10 DEF q

-----------------------------------------------------------------------------

(* The three actions that change a list, in terms of ParkedOn. *)
LEMMA EnqueueEffect ==
    ASSUME QueuesOK, NEW t \in Threads, NEW a \in Addrs,
           \A c \in Addrs : t \notin ParkedOn(c), Enqueue(t, a)
    PROVE  /\ QueuesOK'
           /\ \A c \in Addrs : ParkedOn(c)' = ParkedOn(c) \cup (IF c = a THEN {t} ELSE {})
<1>1. waitq' = [waitq EXCEPT ![BucketOf[a]] = Append(@, [thr |-> t, addr |-> a])]
  BY DEF Enqueue
<1> QED
  BY <1>1, EnqueueParks

LEMMA DequeueEffect ==
    ASSUME QueuesOK, NEW a \in Addrs, NEW i \in 1 .. Len(Queue(a)), Dequeue(a, i)
    PROVE  LET w == Queue(a)[i].thr IN
           /\ w \in ParkedOn(a)
           /\ QueuesOK'
           /\ \A c \in Addrs : ParkedOn(c)' = ParkedOn(c) \ (IF c = a THEN {w} ELSE {})
           /\ HasMore(Queue(a), i) <=> ParkedOn(a)' # {}
<1>1. /\ IsFirst(Queue(a), i, a)
      /\ Queue(a)[i].addr = a
      /\ waitq' = [waitq EXCEPT ![BucketOf[a]] = RemoveAt(@, i)]
  BY DEF Dequeue, IsFirst
<1>2. Queue(a)[i].thr \in ParkedOn(a)
  BY <1>1, FirstIsParked
<1>3. /\ QueuesOK'
      /\ \A c \in Addrs : ParkedOn(c)' = ParkedOn(c) \ (IF c = a THEN {Queue(a)[i].thr} ELSE {})
  BY <1>1, RemovalUnparks
<1>4. HasMore(Queue(a), i) <=> ParkedOn(a) \ {Queue(a)[i].thr} # {}
  BY <1>1, HasMoreParked
<1> QED
  BY <1>2, <1>3, <1>4

LEMMA RemoveTimedOutEffect ==
    ASSUME QueuesOK, NEW t \in Threads, NEW a \in Addrs, RemoveTimedOut(t, a)
    PROVE  /\ t \in ParkedOn(a)
           /\ QueuesOK'
           /\ \A c \in Addrs : ParkedOn(c)' = ParkedOn(c) \ (IF c = a THEN {t} ELSE {})
<1>1. PICK i \in 1 .. Len(Queue(a)) :
          /\ IsQueuedAt(t, a, i)
          /\ waitq' = [waitq EXCEPT ![BucketOf[a]] = RemoveAt(@, i)]
  BY DEF RemoveTimedOut
<1>2. Queue(a)[i].thr = t /\ Queue(a)[i].addr = a
  BY <1>1 DEF IsQueuedAt
<1>3. /\ QueuesOK'
      /\ \A c \in Addrs : ParkedOn(c)' = ParkedOn(c) \ (IF c = a THEN {Queue(a)[i].thr} ELSE {})
  BY <1>1, <1>2, RemovalUnparks
<1>4. t \in ParkedOn(a)
  BY <1>1 DEF ParkedOn
<1> QED
  BY <1>2, <1>3, <1>4

(* p tells which of q's positions S each element of r comes from.          *)
ComesFrom(p, r, q, S) ==
    /\ p \in [1 .. Len(r) -> S]
    /\ \A i, j \in 1 .. Len(r) : i # j => p[i] # p[j]
    /\ \A i \in 1 .. Len(r) : r[i] = q[p[i]]
    /\ \A k \in S : \E i \in 1 .. Len(r) : p[i] = k

(* What is picked from a list is what was there, once each, and all of it. *)
LEMMA PickedProps ==
    ASSUME NEW X, NEW q \in Seq(X), NEW S \in SUBSET (1 .. Len(q)), NEW r \in Picked(q, S)
    PROVE  r \in Seq(X) /\ \E p : ComesFrom(p, r, q, S)
  <1> DEFINE n == Cardinality(S)
  <1>1. IsFiniteSet(S) /\ n \in Nat
    <2>1. IsFiniteSet(1 .. Len(q))
      BY FS_Interval
    <2> QED BY <2>1, FS_Subset, FS_CardinalityType
  <1>2. PICK p \in [1 .. n -> S] :
            /\ \A i, j \in 1 .. n : i < j => p[i] < p[j]
            /\ r = [i \in 1 .. n |-> q[p[i]]]
    BY DEF Picked
  <1> HIDE DEF n
  <1>3. \A i \in 1 .. n : p[i] \in 1 .. Len(q) /\ q[p[i]] \in X
    BY <1>2, ElementOfSeq
  <1>4. r \in Seq(X) /\ Len(r) = n
    BY <1>1, <1>2, <1>3
  <1>5. \A i, j \in 1 .. n : i # j => p[i] # p[j]
    <2> SUFFICES ASSUME NEW i \in 1 .. n, NEW j \in 1 .. n, i # j PROVE p[i] # p[j]
      OBVIOUS
    <2>1. CASE i < j
      BY <1>2, <1>3, <2>1
    <2>2. CASE j < i
      BY <1>2, <1>3, <2>2
    <2> QED BY <1>1, <2>1, <2>2
  <1>6. \A k \in S : \E i \in 1 .. n : p[i] = k
    <2>1. p \in Injection(1 .. n, S)
      BY <1>2, <1>5 DEF Injection, IsInjective
    <2>2. Cardinality(1 .. n) = n
      BY <1>1, FS_Interval
    <2>3. p \in Surjection(1 .. n, S)
      BY <1>1, <2>1, <2>2, FS_Injection DEF n
    <2> QED BY <2>3 DEF Surjection
  <1> QED BY <1>2, <1>4, <1>5, <1>6 DEF ComesFrom

-----------------------------------------------------------------------------

(* UnparkAll leaves nobody on its address, and the others where they are.  *)
LEMMA DequeueAllEffect ==
    ASSUME QueuesOK, NEW a \in Addrs, DequeueAll(a)
    PROVE  /\ QueuesOK'
           /\ \A c \in Addrs : ParkedOn(c)' = IF c = a THEN {} ELSE ParkedOn(c)
<1> DEFINE b == BucketOf[a]
           q == Queue(a)
           S == (1 .. Len(q)) \ WaitersOn(a)
<1>1. b \in Buckets /\ q = waitq[b] /\ q \in Seq(Waiter)
  BY LotAssumption DEF QueuesOK, Queue
<1>2. PICK r \in Picked(q, S) : waitq' = [waitq EXCEPT ![b] = r]
  BY DEF DequeueAll
<1>3. /\ S \in SUBSET (1 .. Len(q))
      /\ \A i \in 1 .. Len(q) : i \in S <=> q[i].addr # a
  BY DEF WaitersOn
<1>4. r \in Seq(Waiter)
  BY <1>1, <1>3, PickedProps
<1>5. PICK p : ComesFrom(p, r, q, S)
  <2> HIDE DEF q, S, b
  <2> QED BY <1>1, <1>3, PickedProps
<1>6. waitq' \in [Buckets -> Seq(Waiter)] /\ waitq'[b] = r
      /\ \A c \in Buckets \ {b} : waitq'[c] = waitq[c]
  BY <1>1, <1>2, <1>4 DEF QueuesOK
<1>7. \A j, k \in 1 .. Len(q) : /\ BucketOf[q[j].addr] = b
                                /\ j # k => q[j].thr # q[k].thr
  BY <1>1 DEF QueuesOK
<1>b. b = BucketOf[a] /\ q = Queue(a)
  OBVIOUS
<1> HIDE DEF b, q, S
<1>8. \A i \in 1 .. Len(r) : p[i] \in S /\ p[i] \in 1 .. Len(q)
  BY <1>3, <1>5 DEF ComesFrom
<1>9. ASSUME NEW c \in Buckets, NEW j \in 1 .. Len(waitq'[c]), NEW k \in 1 .. Len(waitq'[c])
      PROVE  /\ BucketOf[waitq'[c][j].addr] = c
             /\ j # k => waitq'[c][j].thr # waitq'[c][k].thr
  <2>1. CASE c # b
    BY <1>6, <2>1 DEF QueuesOK
  <2>2. CASE c = b
    <3>1. j \in 1 .. Len(r) /\ k \in 1 .. Len(r)
      BY <1>6, <2>2
    <3>2. p[j] \in 1 .. Len(q) /\ p[k] \in 1 .. Len(q) /\ (j # k => p[j] # p[k])
      BY <1>5, <1>8, <3>1 DEF ComesFrom
    <3>3. waitq'[c][j] = q[p[j]] /\ waitq'[c][k] = q[p[k]]
      BY <1>5, <1>6, <2>2, <3>1 DEF ComesFrom
    <3> QED BY <1>7, <2>2, <3>2, <3>3
  <2> QED BY <2>1, <2>2
<1>10. QueuesOK'
  BY <1>6, <1>9 DEF QueuesOK
<1>11. ASSUME NEW c \in Addrs, NEW u \in Threads
       PROVE  u \in ParkedOn(c)' <=> u \in ParkedOn(c) /\ c # a
  <2> DEFINE v == [thr |-> u, addr |-> c]
  <2>1. BucketOf[c] \in Buckets
    BY LotAssumption
  <2>2. u \in ParkedOn(c) <=> \E i \in 1 .. Len(waitq[BucketOf[c]]) : waitq[BucketOf[c]][i] = v
    BY DEF ParkedOn, IsQueuedAt, Queue
  <2>3. u \in ParkedOn(c)' <=> \E i \in 1 .. Len(waitq'[BucketOf[c]]) : waitq'[BucketOf[c]][i] = v
    BY DEF ParkedOn, IsQueuedAt, Queue
  <2>4. v.addr = c
    OBVIOUS
  <2> HIDE DEF v
  <2>5. CASE BucketOf[c] # b
    BY <1>6, <1>b, <2>1, <2>2, <2>3, <2>5
  <2>6. CASE BucketOf[c] = b
    <3>1. ASSUME NEW i \in 1 .. Len(r), r[i] = v
          PROVE  c # a /\ \E k \in 1 .. Len(q) : q[k] = v
      <4>1. p[i] \in S /\ p[i] \in 1 .. Len(q) /\ q[p[i]] = v
        BY <1>5, <1>8, <3>1 DEF ComesFrom
      <4> QED BY <1>3, <2>4, <4>1
    <3>2. ASSUME NEW k \in 1 .. Len(q), q[k] = v, c # a
          PROVE  \E i \in 1 .. Len(r) : r[i] = v
      <4>1. k \in S
        BY <1>3, <2>4, <3>2
      <4>2. PICK i \in 1 .. Len(r) : p[i] = k
        BY <1>5, <4>1 DEF ComesFrom
      <4> QED BY <1>5, <3>2, <4>2 DEF ComesFrom
    <3> QED BY <1>1, <1>6, <2>2, <2>3, <2>6, <3>1, <3>2
  <2> QED BY <2>5, <2>6
<1>12. \A c \in Addrs : ParkedOn(c) \subseteq Threads /\ ParkedOn(c)' \subseteq Threads
  BY DEF ParkedOn
<1> QED BY <1>10, <1>11, <1>12

(* The goroutines UnparkAll has dequeued, in order: parked there, each once.*)
LEMMA DequeuedThreads ==
    ASSUME QueuesOK, NEW a \in Addrs, NEW ws \in Picked(Queue(a), WaitersOn(a)),
           NEW gone, gone = [i \in DOMAIN ws |-> ws[i].thr]
    PROVE  /\ gone \in Seq(Threads) /\ Len(gone) = Len(ws)
           /\ (ws = << >>) <=> Len(gone) = 0
           /\ \A i \in 1 .. Len(gone) : gone[i] \in ParkedOn(a)
           /\ \A i, j \in 1 .. Len(gone) : i # j => gone[i] # gone[j]
           /\ \A t \in ParkedOn(a) : \E i \in 1 .. Len(gone) : gone[i] = t
<1> DEFINE q == Queue(a)
           S == WaitersOn(a)
<1>1. BucketOf[a] \in Buckets /\ q = waitq[BucketOf[a]] /\ q \in Seq(Waiter)
      /\ \A j, k \in 1 .. Len(q) : j # k => q[j].thr # q[k].thr
  BY LotAssumption DEF QueuesOK, Queue
<1>2. S \in SUBSET (1 .. Len(q)) /\ \A i \in 1 .. Len(q) : i \in S <=> q[i].addr = a
  BY DEF WaitersOn
<1>3. ws \in Seq(Waiter)
  BY <1>1, <1>2, PickedProps
<1>4. PICK p : ComesFrom(p, ws, q, S)
  <2>1. ws \in Picked(q, S)
    OBVIOUS
  <2>2. q \in Seq(Waiter) /\ S \in SUBSET (1 .. Len(q))
    BY <1>1, <1>2
  <2> HIDE DEF q, S
  <2> QED BY <2>1, <2>2, PickedProps
<1>5. \A i \in 1 .. Len(ws) : ws[i] \in Waiter
  BY <1>3, ElementOfSeq
<1>6. \A i \in 1 .. Len(q) : q[i] \in Waiter
  BY <1>1, ElementOfSeq
<1>7. /\ gone \in Seq(Threads) /\ Len(gone) = Len(ws) /\ Len(ws) \in Nat
      /\ \A i \in 1 .. Len(ws) : gone[i] = ws[i].thr
  BY <1>3, <1>5 DEF Waiter
<1>8. \A t : t \in ParkedOn(a) <=> \E i \in 1 .. Len(q) : q[i] = [thr |-> t, addr |-> a]
  BY ParkedOnDef
<1> HIDE DEF q, S
<1>9. \A i \in 1 .. Len(ws) : p[i] \in S /\ p[i] \in 1 .. Len(q)
  BY <1>2, <1>4 DEF ComesFrom
<1>10. ASSUME NEW i \in 1 .. Len(ws) PROVE gone[i] \in ParkedOn(a)
  <2>1. q[p[i]].addr = a /\ q[p[i]].thr = gone[i] /\ q[p[i]] \in Waiter
    BY <1>2, <1>4, <1>6, <1>7, <1>9 DEF ComesFrom
  <2>2. q[p[i]] = [thr |-> gone[i], addr |-> a]
    BY <2>1 DEF Waiter
  <2> QED BY <1>8, <1>9, <2>2
<1>11. ASSUME NEW i \in 1 .. Len(ws), NEW j \in 1 .. Len(ws), i # j PROVE gone[i] # gone[j]
  <2>1. p[i] # p[j] /\ q[p[i]].thr # q[p[j]].thr
    BY <1>1, <1>4, <1>9, <1>11 DEF ComesFrom
  <2> QED BY <1>4, <1>7, <2>1 DEF ComesFrom
<1>12. ASSUME NEW t \in ParkedOn(a) PROVE \E i \in 1 .. Len(ws) : gone[i] = t
  <2>1. PICK k \in 1 .. Len(q) : q[k] = [thr |-> t, addr |-> a]
    BY <1>8, <1>12
  <2>2. k \in S
    BY <1>2, <2>1
  <2>3. PICK i \in 1 .. Len(ws) : p[i] = k
    BY <1>4, <2>2 DEF ComesFrom
  <2>4. gone[i] = t
    BY <1>4, <1>7, <2>1, <2>3 DEF ComesFrom
  <2> QED BY <2>4
<1>13. (ws = << >>) <=> Len(ws) = 0
  BY <1>3
<1>14. Len(gone) = Len(ws) /\ gone \in Seq(Threads)
  BY <1>7
<1>15. \A i, j \in 1 .. Len(gone) : i # j => gone[i] # gone[j]
  BY <1>11, <1>14
<1>16. \A i \in 1 .. Len(gone) : gone[i] \in ParkedOn(a)
  BY <1>10, <1>14
<1>17. \A t \in ParkedOn(a) : \E i \in 1 .. Len(gone) : gone[i] = t
  BY <1>12, <1>14
<1> QED BY <1>13, <1>14, <1>15, <1>16, <1>17

-----------------------------------------------------------------------------

USE LotAssumption, LimitsAssumption DEF Locked, HasParked, Zero, Some, Forever

(* The type invariant is kept; QueuedInside is needed to know that Enqueue *)
(* adds a goroutine that is on no list.                                    *)
LEMMA TypeInductive ==
    TypeOK /\ QueuedInside /\ [Next]_vars => TypeOK'
<1> SUFFICES ASSUME TypeOK, QueuedInside, [Next]_vars PROVE TypeOK'
  OBVIOUS
<1> USE DEF TypeOK, LotTypeOK, Flags, PCs, Locking, Unlocking
<1>1. ASSUME UNCHANGED vars PROVE TypeOK'
  BY <1>1, SameQueues DEF vars, lotVars, callVars
<1>2. ASSUME NEW t \in Threads, Call(t) PROVE TypeOK'
  <2>1. PICK m \in Addrs, limit \in Limits : CallLock(t, m, limit)
    BY <1>2 DEF Call
  <2> QED
    BY <2>1, SameQueues DEF CallLock, Goto, LoadWord, lotVars
<1>3. ASSUME NEW t \in Threads, TryFast(t) PROVE TypeOK'
  BY <1>3, SameQueues DEF TryFast, Goto, Swap, SwapFails, lotVars, callVars
<1>4. ASSUME NEW t \in Threads, Load(t) PROVE TypeOK'
  BY <1>4, SameQueues DEF Load, Goto, LoadWord, lotVars
<1>5. ASSUME NEW t \in Threads, Take(t) PROVE TypeOK'
  BY <1>5, SameQueues DEF Take, Goto, Swap, SwapFails, lotVars, callVars
<1>6. ASSUME NEW t \in Threads, MarkParked(t) PROVE TypeOK'
  BY <1>6, SameQueues DEF MarkParked, Goto, Swap, SwapFails, lotVars
<1>7. ASSUME NEW t \in Threads, CheckPark(t) PROVE TypeOK'
  BY <1>7, SameQueues DEF CheckPark, Goto, BeginPark, ParkAgain, Remaining, lotVars
<1>8. ASSUME NEW t \in Threads, EnqueueSelf(t) PROVE TypeOK'
  <2>1. \A c \in Addrs : t \notin ParkedOn(c)
    BY <1>8 DEF EnqueueSelf, Goto, QueuedInside, Inside
  <2>2. QueuesOK'
    BY <1>8, <2>1, EnqueueEffect DEF EnqueueSelf
  <2> QED
    BY <1>8, <2>2 DEF EnqueueSelf, Enqueue, Goto, callVars
<1>9. ASSUME NEW t \in Threads, ParkOK(t) PROVE TypeOK'
  BY <1>9, SameQueues DEF ParkOK, Wake, Remaining
<1>10. ASSUME NEW t \in Threads, GiveUp(t) PROVE TypeOK'
  <2>1. CASE RemoveTimedOut(t, mu[t])
    <3>2. QueuesOK'
      BY <2>1, RemoveTimedOutEffect
    <3> QED
      BY <1>10, <2>1, <3>2 DEF GiveUp, RemoveTimedOut, TimedOutButClaimed, Goto, callVars
  <2>2. CASE TimedOutButClaimed(t, mu[t])
    BY <1>10, <2>2, SameQueues DEF GiveUp, TimedOutButClaimed, RemoveTimedOut, Goto,
       callVars, lotVars
  <2> QED
    BY <1>10, <2>1, <2>2 DEF GiveUp
<1>11. ASSUME NEW t \in Threads, LoadToUnlock(t) PROVE TypeOK'
  BY <1>11, SameQueues DEF LoadToUnlock, LoadWord, lotVars
<1>12. ASSUME NEW t \in Threads, Clear(t) PROVE TypeOK'
  BY <1>12, SameQueues DEF Clear, Goto, Swap, SwapFails, lotVars, callVars
<1>13. ASSUME NEW t \in Threads, UnparkFirst(t) PROVE TypeOK'
  <2>1. PICK i \in 1 .. Len(Queue(mu[t])) :
            LET w == Queue(mu[t])[i].thr IN
             /\ Dequeue(mu[t], i)
             /\ handedOff' = [handedOff EXCEPT ![w] = overdue[w]]
             /\ bits' = [bits EXCEPT ![mu[t]] =
                            (IF overdue[w] THEN {Locked} ELSE {}) \cup
                            (IF HasMore(Queue(mu[t]), i) THEN {HasParked} ELSE {})]
             /\ wakee' = [wakee EXCEPT ![t] = w]
    BY <1>13 DEF UnparkFirst
  <2>2. QueuesOK'
    BY <2>1, DequeueEffect
  <2>3. Queue(mu[t])[i].thr \in ParkedOn(mu[t])
    BY <2>1, DequeueEffect
  <2>4. Queue(mu[t])[i].thr \in Threads
    BY <2>3 DEF ParkedOn
  <2> QED
    BY <1>13, <2>1, <2>2, <2>4 DEF UnparkFirst, Dequeue, Goto
<1>14. ASSUME NEW t \in Threads, UnparkNone(t) PROVE TypeOK'
  BY <1>14, SameQueues DEF UnparkNone, DequeueNone, Goto, lotVars, callVars
<1>15. ASSUME NEW t \in Threads, SignalWaiter(t) PROVE TypeOK'
  BY <1>15, SameQueues DEF SignalWaiter, Signal, Goto
<1>16. ASSUME NEW t \in Threads, TimerFires(t) PROVE TypeOK'
  BY <1>16, SameQueues DEF TimerFires, Goto, lotVars, callVars
<1>17. ASSUME NEW t \in Threads, Tick(t) PROVE TypeOK'
  BY <1>17, SameQueues DEF Tick, lotVars
<1> QED
  BY <1>1, <1>2, <1>3, <1>4, <1>5, <1>6, <1>7, <1>8, <1>9, <1>10, <1>11, <1>12,
     <1>13, <1>14, <1>15, <1>16, <1>17 DEF Next, Run

(* The lists only hold goroutines that are inside Park. *)
LEMMA QueuedInductive ==
    TypeOK /\ QueuedInside /\ SeenOK /\ ClaimsOK /\ [Next]_vars => QueuedInside'
<1> SUFFICES ASSUME TypeOK, QueuedInside, SeenOK, ClaimsOK, [Next]_vars,
                    NEW m \in Addrs, NEW u \in ParkedOn(m)'
             PROVE  Inside(u, m)'
  BY DEF QueuedInside
<1> USE DEF TypeOK, LotTypeOK, Flags, PCs, Locking, Unlocking
<1>0. u \in Threads /\ (u \in ParkedOn(m) => Inside(u, m))
  BY DEF ParkedOn, QueuedInside
<1>1. ASSUME UNCHANGED vars PROVE Inside(u, m)'
  <2>1. u \in ParkedOn(m)
    BY <1>1, SameQueues DEF vars, lotVars, callVars
  <2> QED
    BY <1>0, <1>1, <2>1 DEF vars, lotVars, callVars, Inside
<1>2. ASSUME NEW t \in Threads, Call(t) PROVE Inside(u, m)'
  <2>1. u \in ParkedOn(m)
    BY <1>2, SameQueues DEF Call, CallLock, Goto, LoadWord, lotVars
  <2> QED
    BY <1>0, <1>2, <2>1 DEF Call, CallLock, Goto, LoadWord, lotVars, Inside
<1>3. ASSUME NEW t \in Threads, TryFast(t) PROVE Inside(u, m)'
  <2>1. u \in ParkedOn(m)
    BY <1>3, SameQueues DEF TryFast, Goto, Swap, SwapFails, lotVars, callVars
  <2> QED
    BY <1>0, <1>3, <2>1 DEF TryFast, Goto, Swap, SwapFails, lotVars, callVars, Inside
<1>4. ASSUME NEW t \in Threads, Load(t) PROVE Inside(u, m)'
  <2>1. u \in ParkedOn(m)
    BY <1>4, SameQueues DEF Load, Goto, LoadWord, lotVars
  <2> QED
    BY <1>0, <1>4, <2>1 DEF Load, Goto, LoadWord, lotVars, Inside
<1>5. ASSUME NEW t \in Threads, Take(t) PROVE Inside(u, m)'
  <2>1. u \in ParkedOn(m)
    BY <1>5, SameQueues DEF Take, Goto, Swap, SwapFails, lotVars, callVars
  <2> QED
    BY <1>0, <1>5, <2>1 DEF Take, Goto, Swap, SwapFails, lotVars, callVars, Inside
<1>6. ASSUME NEW t \in Threads, MarkParked(t) PROVE Inside(u, m)'
  <2>1. u \in ParkedOn(m)
    BY <1>6, SameQueues DEF MarkParked, Goto, Swap, SwapFails, lotVars
  <2> QED
    BY <1>0, <1>6, <2>1 DEF MarkParked, Goto, Swap, SwapFails, lotVars, Inside
<1>7. ASSUME NEW t \in Threads, CheckPark(t) PROVE Inside(u, m)'
  <2>1. u \in ParkedOn(m)
    BY <1>7, SameQueues DEF CheckPark, Goto, BeginPark, ParkAgain, Remaining, MuFree, lotVars
  <2> QED
    BY <1>0, <1>7, <2>1 DEF CheckPark, Goto, BeginPark, ParkAgain, Remaining, MuFree,
       lotVars, Inside
<1>8. ASSUME NEW t \in Threads, EnqueueSelf(t) PROVE Inside(u, m)'
  <2>1. \A c \in Addrs : t \notin ParkedOn(c)
    BY <1>8 DEF EnqueueSelf, Goto, QueuedInside, Inside
  <2>2. ParkedOn(m)' = ParkedOn(m) \cup (IF m = mu[t] THEN {t} ELSE {})
    BY <1>8, <2>1, EnqueueEffect DEF EnqueueSelf
  <2>3. CASE u = t
    BY <1>8, <2>1, <2>2, <2>3 DEF EnqueueSelf, Enqueue, Goto, callVars, Inside, SeenOK, Parking
  <2>4. CASE u # t
    BY <1>0, <1>8, <2>2, <2>4 DEF EnqueueSelf, Enqueue, Goto, callVars, Inside
  <2> QED
    BY <2>3, <2>4
<1>9. ASSUME NEW t \in Threads, ParkOK(t) PROVE Inside(u, m)'
  <2>1. u \in ParkedOn(m)
    BY <1>9, SameQueues DEF ParkOK, Wake, Remaining
  <2>2. u # t
    BY <1>0, <1>9, <2>1 DEF ParkOK, Wake, Inside, ClaimsOK
  <2> QED
    BY <1>0, <1>9, <2>1, <2>2 DEF ParkOK, Wake, Inside
<1>10. ASSUME NEW t \in Threads, GiveUp(t) PROVE Inside(u, m)'
  <2>1. CASE RemoveTimedOut(t, mu[t])
    <3>1. ParkedOn(m)' = ParkedOn(m) \ (IF m = mu[t] THEN {t} ELSE {})
      BY <2>1, RemoveTimedOutEffect
    <3>2. u # t
      BY <1>0, <3>1 DEF Inside
    <3> QED
      BY <1>0, <1>10, <2>1, <3>1, <3>2 DEF GiveUp, RemoveTimedOut, TimedOutButClaimed,
         Goto, callVars, lotVars, Inside
  <2>2. CASE TimedOutButClaimed(t, mu[t])
    <3>1. u \in ParkedOn(m)
      BY <2>2, SameQueues DEF TimedOutButClaimed, lotVars
    <3>2. u # t
      BY <1>0, <2>2, <3>1 DEF Inside, TimedOutButClaimed
    <3> QED
      BY <1>0, <1>10, <2>2, <3>1, <3>2 DEF GiveUp, RemoveTimedOut, TimedOutButClaimed,
         Goto, callVars, lotVars, Inside
  <2> QED
    BY <1>10, <2>1, <2>2 DEF GiveUp
<1>11. ASSUME NEW t \in Threads, LoadToUnlock(t) PROVE Inside(u, m)'
  <2>1. u \in ParkedOn(m)
    BY <1>11, SameQueues DEF LoadToUnlock, LoadWord, lotVars
  <2> QED
    BY <1>0, <1>11, <2>1 DEF LoadToUnlock, LoadWord, lotVars, Inside
<1>12. ASSUME NEW t \in Threads, Clear(t) PROVE Inside(u, m)'
  <2>1. u \in ParkedOn(m)
    BY <1>12, SameQueues DEF Clear, Goto, Swap, SwapFails, lotVars, callVars
  <2> QED
    BY <1>0, <1>12, <2>1 DEF Clear, Goto, Swap, SwapFails, lotVars, callVars, Inside
<1>13. ASSUME NEW t \in Threads, UnparkFirst(t) PROVE Inside(u, m)'
  <2>1. PICK i \in 1 .. Len(Queue(mu[t])) :
            /\ Dequeue(mu[t], i)
            /\ handedOff' = [handedOff EXCEPT ![Queue(mu[t])[i].thr] = overdue[Queue(mu[t])[i].thr]]
    BY <1>13 DEF UnparkFirst
  <2> DEFINE w == Queue(mu[t])[i].thr
  <2>2. w \in ParkedOn(mu[t]) /\ ParkedOn(m)' = ParkedOn(m) \ (IF m = mu[t] THEN {w} ELSE {})
    BY <2>1, DequeueEffect
  <2>3. u # w /\ w # t
    BY <1>0, <1>13, <2>2 DEF Inside, QueuedInside, UnparkFirst, Goto
  <2>4. unparking' = [unparking EXCEPT ![w] = TRUE]
    BY <2>1 DEF Dequeue
  <2> HIDE DEF w
  <2> QED
    BY <1>0, <1>13, <2>1, <2>2, <2>3, <2>4 DEF UnparkFirst, Goto, Inside, w
<1>14. ASSUME NEW t \in Threads, UnparkNone(t) PROVE Inside(u, m)'
  <2>1. u \in ParkedOn(m)
    BY <1>14, SameQueues DEF UnparkNone, DequeueNone, MuFree, Goto, lotVars, callVars
  <2> QED
    BY <1>0, <1>14, <2>1 DEF UnparkNone, DequeueNone, MuFree, Goto, lotVars, callVars, Inside
<1>15. ASSUME NEW t \in Threads, SignalWaiter(t) PROVE Inside(u, m)'
  <2>1. u \in ParkedOn(m)
    BY <1>15, SameQueues DEF SignalWaiter, Signal, Goto
  <2> QED
    BY <1>0, <1>15, <2>1 DEF SignalWaiter, Signal, Goto, Inside
<1>16. ASSUME NEW t \in Threads, TimerFires(t) PROVE Inside(u, m)'
  <2>1. u \in ParkedOn(m)
    BY <1>16, SameQueues DEF TimerFires, Goto, lotVars, callVars
  <2> QED
    BY <1>0, <1>16, <2>1 DEF TimerFires, Goto, lotVars, callVars, Inside
<1>17. ASSUME NEW t \in Threads, Tick(t) PROVE Inside(u, m)'
  <2>1. u \in ParkedOn(m)
    BY <1>17, SameQueues DEF Tick, lotVars
  <2> QED
    BY <1>0, <1>17, <2>1 DEF Tick, lotVars, Inside
<1> QED
  BY <1>1, <1>2, <1>3, <1>4, <1>5, <1>6, <1>7, <1>8, <1>9,
     <1>10, <1>11, <1>12, <1>13, <1>14, <1>15, <1>16, <1>17 DEF Next, Run

(* What a goroutine remembers of the word stays true. *)
LEMMA SeenInductive ==
    TypeOK /\ QueuedInside /\ SeenOK /\ [Next]_vars => SeenOK'
<1> SUFFICES ASSUME TypeOK, QueuedInside, SeenOK, [Next]_vars PROVE SeenOK'
  OBVIOUS
<1> USE DEF TypeOK, LotTypeOK, Flags, PCs, Locking, Unlocking, SeenOK, Parking
<1>1. ASSUME UNCHANGED vars PROVE SeenOK'
  BY <1>1, SameQueues DEF vars, lotVars, callVars
<1>2. ASSUME NEW t \in Threads, Call(t) PROVE SeenOK'
  BY <1>2, SameQueues DEF Call, CallLock, Goto, LoadWord, lotVars
<1>3. ASSUME NEW t \in Threads, TryFast(t) PROVE SeenOK'
  BY <1>3, SameQueues DEF TryFast, Goto, Swap, SwapFails, lotVars, callVars
<1>4. ASSUME NEW t \in Threads, Load(t) PROVE SeenOK'
  BY <1>4, SameQueues DEF Load, Goto, LoadWord, lotVars
<1>5. ASSUME NEW t \in Threads, Take(t) PROVE SeenOK'
  BY <1>5, SameQueues DEF Take, Goto, Swap, SwapFails, lotVars, callVars
<1>6. ASSUME NEW t \in Threads, MarkParked(t) PROVE SeenOK'
  BY <1>6, SameQueues DEF MarkParked, Goto, Swap, SwapFails, lotVars
<1>7. ASSUME NEW t \in Threads, CheckPark(t) PROVE SeenOK'
  BY <1>7, SameQueues DEF CheckPark, Goto, BeginPark, ParkAgain, Remaining, MuFree, lotVars
<1>8. ASSUME NEW t \in Threads, EnqueueSelf(t) PROVE SeenOK'
  BY <1>8, EnqueueEffect DEF EnqueueSelf, Enqueue, Goto, callVars
<1>9. ASSUME NEW t \in Threads, ParkOK(t) PROVE SeenOK'
  BY <1>9, SameQueues DEF ParkOK, Wake, Remaining
<1>10. ASSUME NEW t \in Threads, GiveUp(t) PROVE SeenOK'
  BY <1>10, RemoveTimedOutEffect, SameQueues
     DEF GiveUp, RemoveTimedOut, TimedOutButClaimed, Goto, callVars, lotVars
<1>11. ASSUME NEW t \in Threads, LoadToUnlock(t) PROVE SeenOK'
  BY <1>11, SameQueues DEF LoadToUnlock, LoadWord, lotVars
<1>12. ASSUME NEW t \in Threads, Clear(t) PROVE SeenOK'
  BY <1>12, SameQueues DEF Clear, Goto, Swap, SwapFails, lotVars, callVars
<1>13. ASSUME NEW t \in Threads, UnparkFirst(t) PROVE SeenOK'
  <2>1. PICK i \in 1 .. Len(Queue(mu[t])) :
            /\ Dequeue(mu[t], i)
            /\ handedOff' = [handedOff EXCEPT ![Queue(mu[t])[i].thr] = overdue[Queue(mu[t])[i].thr]]
            /\ \E b : bits' = [bits EXCEPT ![mu[t]] = b]
    BY <1>13, Zenon DEF UnparkFirst
  <2>2. pc[Queue(mu[t])[i].thr] \in {"blocked", "timedout"}
    BY <2>1, DequeueEffect DEF QueuedInside, Inside
  <2>3. bucketMu[BucketOf[mu[t]]] = Nobody /\ bucketMu' = bucketMu
    BY <2>1 DEF Dequeue, MuFree
  <2> QED
    BY <1>13, <2>1, <2>2, <2>3 DEF UnparkFirst, Goto
<1>14. ASSUME NEW t \in Threads, UnparkNone(t) PROVE SeenOK'
  BY <1>14, SameQueues DEF UnparkNone, DequeueNone, MuFree, Goto, lotVars, callVars
<1>15. ASSUME NEW t \in Threads, SignalWaiter(t) PROVE SeenOK'
  BY <1>15, SameQueues DEF SignalWaiter, Signal, Goto
<1>16. ASSUME NEW t \in Threads, TimerFires(t) PROVE SeenOK'
  BY <1>16, SameQueues DEF TimerFires, Goto, lotVars, callVars
<1>17. ASSUME NEW t \in Threads, Tick(t) PROVE SeenOK'
  BY <1>17, SameQueues DEF Tick, lotVars
<1> QED
  BY <1>1, <1>2, <1>3, <1>4, <1>5, <1>6, <1>7, <1>8, <1>9,
     <1>10, <1>11, <1>12, <1>13, <1>14, <1>15, <1>16, <1>17 DEF Next, Run

(* A claimed waiter keeps its one claimer. *)
LEMMA ClaimsInductive ==
    TypeOK /\ QueuedInside /\ ClaimsOK /\ [Next]_vars => ClaimsOK'
<1> SUFFICES ASSUME TypeOK, QueuedInside, ClaimsOK, [Next]_vars PROVE ClaimsOK'
  OBVIOUS
<1> USE DEF TypeOK, LotTypeOK, Flags, PCs, Locking, Unlocking, ClaimsOK, Parking
<1>1. ASSUME UNCHANGED vars PROVE ClaimsOK'
  BY <1>1, SameQueues DEF vars, lotVars, callVars
<1>2. ASSUME NEW t \in Threads, Call(t) PROVE ClaimsOK'
  BY <1>2, SameQueues DEF Call, CallLock, Goto, LoadWord, lotVars
<1>3. ASSUME NEW t \in Threads, TryFast(t) PROVE ClaimsOK'
  BY <1>3, SameQueues DEF TryFast, Goto, Swap, SwapFails, lotVars, callVars
<1>4. ASSUME NEW t \in Threads, Load(t) PROVE ClaimsOK'
  BY <1>4, SameQueues DEF Load, Goto, LoadWord, lotVars
<1>5. ASSUME NEW t \in Threads, Take(t) PROVE ClaimsOK'
  BY <1>5, SameQueues DEF Take, Goto, Swap, SwapFails, lotVars, callVars
<1>6. ASSUME NEW t \in Threads, MarkParked(t) PROVE ClaimsOK'
  BY <1>6, SameQueues DEF MarkParked, Goto, Swap, SwapFails, lotVars
<1>7. ASSUME NEW t \in Threads, CheckPark(t) PROVE ClaimsOK'
  BY <1>7, SameQueues DEF CheckPark, Goto, BeginPark, ParkAgain, Remaining, MuFree, lotVars
<1>8. ASSUME NEW t \in Threads, EnqueueSelf(t) PROVE ClaimsOK'
  BY <1>8, EnqueueEffect DEF EnqueueSelf, Enqueue, Goto, callVars
<1>9. ASSUME NEW t \in Threads, ParkOK(t) PROVE ClaimsOK'
  BY <1>9, SameQueues DEF ParkOK, Wake, Remaining
<1>10. ASSUME NEW t \in Threads, GiveUp(t) PROVE ClaimsOK'
  <2>1. CASE RemoveTimedOut(t, mu[t])
    <3>1. ~unparking[t]
      BY <2>1 DEF RemoveTimedOut
    <3>2. /\ pc' = [pc EXCEPT ![t] = "idle"] /\ pc[t] = "timedout"
          /\ UNCHANGED <<unparking, notify, wakee>>
      BY <1>10, <2>1, <3>1 DEF GiveUp, RemoveTimedOut, TimedOutButClaimed, Goto, callVars
    <3>3. ~notify[t] /\ \A u \in Threads : wakee[u] # t
      BY <3>1
    <3> QED
      BY <3>2, <3>3
  <2>2. CASE TimedOutButClaimed(t, mu[t])
    BY <1>10, <2>2 DEF GiveUp, RemoveTimedOut, TimedOutButClaimed, Goto, callVars, lotVars
  <2> QED
    BY <1>10, <2>1, <2>2 DEF GiveUp
<1>11. ASSUME NEW t \in Threads, LoadToUnlock(t) PROVE ClaimsOK'
  BY <1>11, SameQueues DEF LoadToUnlock, LoadWord, lotVars
<1>12. ASSUME NEW t \in Threads, Clear(t) PROVE ClaimsOK'
  BY <1>12, SameQueues DEF Clear, Goto, Swap, SwapFails, lotVars, callVars
<1>13. ASSUME NEW t \in Threads, UnparkFirst(t) PROVE ClaimsOK'
  <2>1. PICK i \in 1 .. Len(Queue(mu[t])) :
            /\ Dequeue(mu[t], i)
            /\ handedOff' = [handedOff EXCEPT ![Queue(mu[t])[i].thr] = overdue[Queue(mu[t])[i].thr]]
            /\ bits' = [bits EXCEPT ![mu[t]] =
                           (IF overdue[Queue(mu[t])[i].thr] THEN {Locked} ELSE {}) \cup
                           (IF HasMore(Queue(mu[t]), i) THEN {HasParked} ELSE {})]
            /\ wakee' = [wakee EXCEPT ![t] = Queue(mu[t])[i].thr]
    BY <1>13 DEF UnparkFirst
  <2> DEFINE w == Queue(mu[t])[i].thr
  <2>2. w \in Threads /\ w \in ParkedOn(mu[t]) /\ Inside(w, mu[t])
    BY <2>1, DequeueEffect DEF QueuedInside, ParkedOn

  <2>3. unparking' = [unparking EXCEPT ![w] = TRUE] /\ UNCHANGED notify
    BY <2>1 DEF Dequeue
  <2>4. w # t /\ ~notify[w] /\ \A u \in Threads : wakee[u] # w
    BY <1>13, <2>2 DEF UnparkFirst, Goto, Inside
  <2>5. wakee' = [wakee EXCEPT ![t] = w]
    BY <2>1
  <2> HIDE DEF w
  <2>6. pc' = [pc EXCEPT ![t] = "signal"] /\ pc[t] = "unpark"
    BY <1>13 DEF UnparkFirst, Goto
  <2>7. wakee[t] = Nobody /\ w # Nobody /\ pc[w] \in {"blocked", "timedout"}
    BY <2>2, <2>6 DEF Inside
  <2> QED
    BY <2>2, <2>3, <2>4, <2>5, <2>6, <2>7
<1>14. ASSUME NEW t \in Threads, UnparkNone(t) PROVE ClaimsOK'
  BY <1>14, SameQueues DEF UnparkNone, DequeueNone, MuFree, Goto, lotVars, callVars
<1>15. ASSUME NEW t \in Threads, SignalWaiter(t) PROVE ClaimsOK'
  BY <1>15, SameQueues DEF SignalWaiter, Signal, Goto
<1>16. ASSUME NEW t \in Threads, TimerFires(t) PROVE ClaimsOK'
  BY <1>16, SameQueues DEF TimerFires, Goto, lotVars, callVars
<1>17. ASSUME NEW t \in Threads, Tick(t) PROVE ClaimsOK'
  BY <1>17, SameQueues DEF Tick, lotVars
<1> QED
  BY <1>1, <1>2, <1>3, <1>4, <1>5, <1>6, <1>7, <1>8, <1>9,
     <1>10, <1>11, <1>12, <1>13, <1>14, <1>15, <1>16, <1>17 DEF Next, Run

(* A mutex keeps one owner, and an unlocker finds the word locked. *)
Exclusion == MutualExclusion /\ UnlockNeverPanics

LEMMA ExclusionInductive ==
    TypeOK /\ QueuedInside /\ SeenOK /\ Exclusion /\ [Next]_vars => Exclusion'
<1> SUFFICES ASSUME TypeOK, QueuedInside, SeenOK, Exclusion, [Next]_vars PROVE Exclusion'
  OBVIOUS
<1> USE DEF TypeOK, LotTypeOK, Flags, PCs, Locking, Unlocking, Exclusion, MutualExclusion,
Owns, UnlockNeverPanics
<1>1. ASSUME UNCHANGED vars PROVE Exclusion'
  BY <1>1, SameQueues DEF vars, lotVars, callVars
<1>2. ASSUME NEW t \in Threads, Call(t) PROVE Exclusion'
  BY <1>2, SameQueues DEF Call, CallLock, Goto, LoadWord, lotVars
<1>3. ASSUME NEW t \in Threads, TryFast(t) PROVE Exclusion'
  <2>1. CASE Swap(t, seen[t] \cup {Locked})
    <3>1. Locked \notin seen[t] /\ Locked \notin bits[mu[t]] /\ ~handedOff[t]
      BY <1>3, <2>1 DEF TryFast, Swap, SwapFails, Goto, SeenOK, Parking
    <3>2. \A u \in Threads : ~Owns(u, mu[t])
      BY <3>1
    <3>3. pc' = [pc EXCEPT ![t] = "held"] /\ bits' = [bits EXCEPT ![mu[t]] = seen[t] \cup {Locked}]
      BY <1>3, <2>1 DEF TryFast, Swap, SwapFails, Goto
    <3>4. UNCHANGED <<mu, handedOff>>
      BY <1>3 DEF TryFast, callVars
    <3> QED
      BY <3>1, <3>2, <3>3, <3>4
  <2>2. CASE SwapFails(t)
    BY <1>3, <2>2 DEF TryFast, Swap, SwapFails, Goto, callVars
  <2> QED
    BY <1>3, <2>1, <2>2 DEF TryFast
<1>4. ASSUME NEW t \in Threads, Load(t) PROVE Exclusion'
  BY <1>4, SameQueues DEF Load, Goto, LoadWord, lotVars
<1>5. ASSUME NEW t \in Threads, Take(t) PROVE Exclusion'
  <2>1. CASE Swap(t, seen[t] \cup {Locked})
    <3>1. Locked \notin seen[t] /\ Locked \notin bits[mu[t]] /\ ~handedOff[t]
      BY <1>5, <2>1 DEF Take, Swap, SwapFails, Goto, SeenOK, Parking
    <3>2. \A u \in Threads : ~Owns(u, mu[t])
      BY <3>1
    <3>3. pc' = [pc EXCEPT ![t] = "held"] /\ bits' = [bits EXCEPT ![mu[t]] = seen[t] \cup {Locked}]
      BY <1>5, <2>1 DEF Take, Swap, SwapFails, Goto
    <3>4. UNCHANGED <<mu, handedOff>>
      BY <1>5 DEF Take, callVars
    <3> QED
      BY <3>1, <3>2, <3>3, <3>4
  <2>2. CASE SwapFails(t)
    BY <1>5, <2>2 DEF Take, Swap, SwapFails, Goto, callVars
  <2> QED
    BY <1>5, <2>1, <2>2 DEF Take
<1>6. ASSUME NEW t \in Threads, MarkParked(t) PROVE Exclusion'
  <2>1. UNCHANGED lotVars
    BY <1>6 DEF MarkParked, Goto, Swap, SwapFails
  <2>2. \A a \in Addrs : ParkedOn(a)' = ParkedOn(a)
    BY <2>1, SameQueues DEF lotVars
  <2>3. /\ UNCHANGED <<mu, handedOff>> /\ pc[t] = "mark"
        /\ pc' = [pc EXCEPT ![t] = "park"] \/ pc' = [pc EXCEPT ![t] = "load"]
    BY <1>6 DEF MarkParked, Goto
  <2>4. bits' = bits \/ bits' = [bits EXCEPT ![mu[t]] = bits[mu[t]] \cup {HasParked}]
    BY <1>6 DEF MarkParked, Swap, SwapFails
  <2>5. \A u \in Threads, a \in Addrs : Owns(u, a)' <=> Owns(u, a)
    BY <2>3
  <2>6. \A a \in Addrs : Locked \in bits'[a] <=> Locked \in bits[a]
    <3>1. ASSUME NEW a \in Addrs
          PROVE  bits'[a] = bits[a] \/ bits'[a] = bits[a] \cup {HasParked}
      BY <2>4
    <3>2. Locked # HasParked
      BY DEF Locked, HasParked
    <3> QED BY <3>1, <3>2
  <2> QED
    BY <2>2, <2>3, <2>5, <2>6
<1>7. ASSUME NEW t \in Threads, CheckPark(t) PROVE Exclusion'
  BY <1>7, SameQueues DEF CheckPark, Goto, BeginPark, ParkAgain, Remaining, MuFree, lotVars
<1>8. ASSUME NEW t \in Threads, EnqueueSelf(t) PROVE Exclusion'
  BY <1>8 DEF EnqueueSelf, Enqueue, Goto, callVars, SeenOK, Parking
<1>9. ASSUME NEW t \in Threads, ParkOK(t) PROVE Exclusion'
  BY <1>9, SameQueues DEF ParkOK, Wake, Remaining
<1>10. ASSUME NEW t \in Threads, GiveUp(t) PROVE Exclusion'
  <2>1. CASE RemoveTimedOut(t, mu[t])
    <3>1. ~handedOff[t]
      BY <2>1, RemoveTimedOutEffect DEF QueuedInside, Inside
    <3> QED
      BY <1>10, <2>1, <3>1 DEF GiveUp, RemoveTimedOut, TimedOutButClaimed, Goto, callVars
  <2>2. CASE TimedOutButClaimed(t, mu[t])
    BY <1>10, <2>2 DEF GiveUp, RemoveTimedOut, TimedOutButClaimed, Goto, callVars
  <2> QED
    BY <1>10, <2>1, <2>2 DEF GiveUp
<1>11. ASSUME NEW t \in Threads, LoadToUnlock(t) PROVE Exclusion'
  BY <1>11, SameQueues DEF LoadToUnlock, LoadWord, lotVars
<1>12. ASSUME NEW t \in Threads, Clear(t) PROVE Exclusion'
  <2>1. Owns(t, mu[t])
    BY <1>12 DEF Clear, Goto
  <2>2. CASE Swap(t, {})
    <3>1. pc' = [pc EXCEPT ![t] = "idle"] /\ bits' = [bits EXCEPT ![mu[t]] = {}]
      BY <1>12, <2>2 DEF Clear, Swap, SwapFails, Goto
    <3>2. UNCHANGED <<mu, handedOff>>
      BY <1>12 DEF Clear, callVars
    <3> QED
      BY <2>1, <3>1, <3>2
  <2>3. CASE SwapFails(t)
    BY <1>12, <2>3 DEF Clear, Swap, SwapFails, Goto, callVars
  <2> QED
    BY <1>12, <2>2, <2>3 DEF Clear
<1>13. ASSUME NEW t \in Threads, UnparkFirst(t) PROVE Exclusion'
  <2>1. PICK i \in 1 .. Len(Queue(mu[t])) :
            /\ Dequeue(mu[t], i)
            /\ handedOff' = [handedOff EXCEPT ![Queue(mu[t])[i].thr] = overdue[Queue(mu[t])[i].thr]]
            /\ bits' = [bits EXCEPT ![mu[t]] =
                           (IF overdue[Queue(mu[t])[i].thr] THEN {Locked} ELSE {}) \cup
                           (IF HasMore(Queue(mu[t]), i) THEN {HasParked} ELSE {})]
            /\ wakee' = [wakee EXCEPT ![t] = Queue(mu[t])[i].thr]
    BY <1>13 DEF UnparkFirst
  <2> DEFINE w == Queue(mu[t])[i].thr
  <2>2. w \in Threads /\ w \in ParkedOn(mu[t]) /\ Inside(w, mu[t])
    BY <2>1, DequeueEffect DEF QueuedInside, ParkedOn

  <2>3. w # t
    BY <1>13, <2>2 DEF UnparkFirst, Goto, Inside
  <2>4. Owns(t, mu[t])
    BY <1>13 DEF UnparkFirst, Goto
  <2>5. handedOff' = [handedOff EXCEPT ![w] = overdue[w]]
    BY <2>1
  <2>6. overdue[w] => Locked \in bits'[mu[t]]
    BY <2>1
  <2>7. \A m \in Addrs \ {mu[t]} : bits'[m] = bits[m]
    BY <2>1
  <2> HIDE DEF w
  <2>8. pc' = [pc EXCEPT ![t] = "signal"] /\ UNCHANGED mu
    BY <1>13 DEF UnparkFirst, Goto
  <2> QED
    BY <2>2, <2>3, <2>4, <2>5, <2>6, <2>7, <2>8 DEF Inside
<1>14. ASSUME NEW t \in Threads, UnparkNone(t) PROVE Exclusion'
  BY <1>14, SameQueues DEF UnparkNone, DequeueNone, MuFree, Goto, lotVars, callVars
<1>15. ASSUME NEW t \in Threads, SignalWaiter(t) PROVE Exclusion'
  BY <1>15, SameQueues DEF SignalWaiter, Signal, Goto
<1>16. ASSUME NEW t \in Threads, TimerFires(t) PROVE Exclusion'
  BY <1>16, SameQueues DEF TimerFires, Goto, lotVars, callVars
<1>17. ASSUME NEW t \in Threads, Tick(t) PROVE Exclusion'
  BY <1>17, SameQueues DEF Tick, lotVars
<1> QED
  BY <1>1, <1>2, <1>3, <1>4, <1>5, <1>6, <1>7, <1>8, <1>9,
     <1>10, <1>11, <1>12, <1>13, <1>14, <1>15, <1>16, <1>17 DEF Next, Run

(* A wakeup is never lost.  Awake(m) is what NoLostWakeup asks of a mutex   *)
(* somebody is parked on.                                                  *)
Awake(m) ==
    /\ HasParked \in bits[m]
    /\ Locked \in bits[m] \/ \E t \in Threads : WillRetry(t, m)

LEMMA WakeupInductive ==
    IInv /\ [Next]_vars => NoLostWakeup'
<1> SUFFICES ASSUME IInv, [Next]_vars, NEW m \in Addrs, ParkedOn(m)' # {}
             PROVE  Awake(m)'
  BY DEF NoLostWakeup, Awake
<1> USE DEF TypeOK, LotTypeOK, Flags, PCs, Locking, Unlocking
<1>a. TypeOK /\ QueuedInside /\ SeenOK /\ MutualExclusion
      /\ (ParkedOn(m) # {} => Awake(m))
  BY DEF IInv, NoLostWakeup, Awake
<1>1. ASSUME UNCHANGED vars PROVE Awake(m)'
  <2>1. Awake(m)
    BY <1>a, <1>1, SameQueues DEF vars, lotVars, callVars
  <2> QED
    BY <1>a, <1>1, <2>1 DEF vars, lotVars, callVars, Awake, WillRetry
<1>2. ASSUME NEW t \in Threads, Call(t) PROVE Awake(m)'
  <2>1. Awake(m)
    BY <1>a, <1>2, SameQueues DEF Call, CallLock, Goto, LoadWord, lotVars
  <2> QED
    BY <1>a, <1>2, <2>1 DEF Call, CallLock, Goto, LoadWord, lotVars, Awake, WillRetry
<1>3. ASSUME NEW t \in Threads, TryFast(t) PROVE Awake(m)'
  <2>1. Awake(m)
    BY <1>a, <1>3, SameQueues DEF TryFast, Goto, Swap, SwapFails, lotVars, callVars
  <2> QED
    BY <1>a, <1>3, <2>1 DEF TryFast, Goto, Swap, SwapFails, lotVars, callVars, Awake,
       WillRetry, SeenOK
<1>4. ASSUME NEW t \in Threads, Load(t) PROVE Awake(m)'
  <2>1. Awake(m)
    BY <1>a, <1>4, SameQueues DEF Load, Goto, LoadWord, lotVars
  <2> QED
    BY <1>a, <1>4, <2>1 DEF Load, Goto, LoadWord, lotVars, Awake, WillRetry
<1>5. ASSUME NEW t \in Threads, Take(t) PROVE Awake(m)'
  <2>1. Awake(m)
    BY <1>a, <1>5, SameQueues DEF Take, Goto, Swap, SwapFails, lotVars, callVars
  <2> QED
    BY <1>a, <1>5, <2>1 DEF Take, Goto, Swap, SwapFails, lotVars, callVars, Awake,
       WillRetry, SeenOK
<1>6. ASSUME NEW t \in Threads, MarkParked(t) PROVE Awake(m)'
  <2>1. Awake(m)
    BY <1>a, <1>6, SameQueues DEF MarkParked, Goto, Swap, SwapFails, lotVars
  <2> QED
    BY <1>a, <1>6, <2>1 DEF MarkParked, Goto, Swap, SwapFails, lotVars, Awake, WillRetry,
       SeenOK
<1>7. ASSUME NEW t \in Threads, CheckPark(t) PROVE Awake(m)'
  <2>1. Awake(m)
    BY <1>a, <1>7, SameQueues DEF CheckPark, Goto, BeginPark, ParkAgain, Remaining, MuFree,
       lotVars
  <2> QED
    BY <1>a, <1>7, <2>1 DEF CheckPark, Goto, BeginPark, ParkAgain, Remaining, MuFree,
       lotVars, Awake, WillRetry
<1>8. ASSUME NEW t \in Threads, EnqueueSelf(t) PROVE Awake(m)'
  <2>1. \A c \in Addrs : t \notin ParkedOn(c)
    BY <1>a, <1>8 DEF EnqueueSelf, Goto, QueuedInside, Inside
  <2>2. ParkedOn(m)' = ParkedOn(m) \cup (IF m = mu[t] THEN {t} ELSE {})
    BY <1>a, <1>8, <2>1, EnqueueEffect DEF EnqueueSelf
  <2>3. UNCHANGED <<bits, mu>> /\ pc[t] = "enqueue"
    BY <1>8 DEF EnqueueSelf, Goto, callVars
  <2>4. CASE m = mu[t]
    BY <1>a, <2>3, <2>4 DEF SeenOK, Awake
  <2>5. CASE m # mu[t]
    <3>1. Awake(m)
      BY <1>a, <2>2, <2>5
    <3>2. \A u \in Threads : WillRetry(u, m) => WillRetry(u, m)'
      BY <1>a, <1>8, <2>3 DEF EnqueueSelf, Enqueue, Goto, callVars, WillRetry
    <3> QED
      BY <2>3, <3>1, <3>2 DEF Awake
  <2> QED
    BY <2>4, <2>5
<1>9. ASSUME NEW t \in Threads, ParkOK(t) PROVE Awake(m)'
  <2>1. Awake(m)
    BY <1>a, <1>9, SameQueues DEF ParkOK, Wake, Remaining
  <2> QED
    BY <1>a, <1>9, <2>1 DEF ParkOK, Wake, Remaining, Awake, WillRetry, MutualExclusion, Owns
<1>10. ASSUME NEW t \in Threads, GiveUp(t) PROVE Awake(m)'
  <2>1. ParkedOn(m)' \subseteq ParkedOn(m)
    <3>1. CASE RemoveTimedOut(t, mu[t])
      BY <1>a, <3>1, RemoveTimedOutEffect
    <3>2. CASE TimedOutButClaimed(t, mu[t])
      BY <3>2, SameQueues DEF TimedOutButClaimed, lotVars
    <3> QED
      BY <1>10, <3>1, <3>2 DEF GiveUp
  <2>2. Awake(m) /\ UNCHANGED bits
    BY <1>a, <1>10, <2>1 DEF GiveUp
  <2>3. \A u \in Threads : WillRetry(u, m) => WillRetry(u, m)'
    BY <1>a, <1>10 DEF GiveUp, RemoveTimedOut, TimedOutButClaimed, Goto, callVars, lotVars,
       WillRetry
  <2> QED
    BY <2>2, <2>3 DEF Awake
<1>11. ASSUME NEW t \in Threads, LoadToUnlock(t) PROVE Awake(m)'
  <2>1. Awake(m)
    BY <1>a, <1>11, SameQueues DEF LoadToUnlock, LoadWord, lotVars
  <2> QED
    BY <1>a, <1>11, <2>1 DEF LoadToUnlock, LoadWord, lotVars, Awake, WillRetry
<1>12. ASSUME NEW t \in Threads, Clear(t) PROVE Awake(m)'
  <2>1. Awake(m)
    BY <1>a, <1>12, SameQueues DEF Clear, Goto, Swap, SwapFails, lotVars, callVars
  <2> QED
    BY <1>a, <1>12, <2>1 DEF Clear, Goto, Swap, SwapFails, lotVars, callVars, Awake,
       WillRetry, SeenOK
<1>13. ASSUME NEW t \in Threads, UnparkFirst(t) PROVE Awake(m)'
  <2>1. PICK i \in 1 .. Len(Queue(mu[t])) :
            /\ Dequeue(mu[t], i)
            /\ handedOff' = [handedOff EXCEPT ![Queue(mu[t])[i].thr] = overdue[Queue(mu[t])[i].thr]]
            /\ bits' = [bits EXCEPT ![mu[t]] =
                           (IF overdue[Queue(mu[t])[i].thr] THEN {Locked} ELSE {}) \cup
                           (IF HasMore(Queue(mu[t]), i) THEN {HasParked} ELSE {})]
            /\ wakee' = [wakee EXCEPT ![t] = Queue(mu[t])[i].thr]
    BY <1>13 DEF UnparkFirst
  <2>2. PICK w \in Threads : /\ w = Queue(mu[t])[i].thr
                             /\ w \in ParkedOn(mu[t])
                             /\ Inside(w, mu[t])
    BY <1>a, <2>1, DequeueEffect DEF QueuedInside, ParkedOn

  <2>0. mu[t] \in Addrs /\ QueuesOK /\ Dequeue(mu[t], i)
    BY <1>a, <2>1
  <2>3. ParkedOn(m)' = ParkedOn(m) \ (IF m = mu[t] THEN {w} ELSE {})
    BY <2>0, <2>2, DequeueEffect
  <2>3a. ParkedOn(m)' # {} /\ m = mu[t] => HasMore(Queue(mu[t]), i)
    BY <2>0, DequeueEffect
  <2>4. unparking' = [unparking EXCEPT ![w] = TRUE]
    BY <2>1, <2>2 DEF Dequeue
  <2>5. pc' = [pc EXCEPT ![t] = "signal"] /\ pc[t] = "unpark" /\ UNCHANGED mu
    BY <1>13 DEF UnparkFirst, Goto
  <2>6. m = mu[t] => HasParked \in bits'[m]
    BY <1>a, <2>1, <2>3a
  <2>7. m # mu[t] => bits'[m] = bits[m]
    BY <1>a, <2>1
  <2>8. m = mu[t] => WillRetry(w, m)'
    <3>1. w # t /\ mu[w] = mu[t] /\ pc[w] \in {"blocked", "timedout"}
      BY <2>2, <2>5 DEF Inside
    <3>2. mu'[w] = mu[t] /\ pc'[w] = pc[w] /\ unparking'[w]
      BY <1>a, <2>2, <2>4, <2>5, <3>1
    <3> QED
      BY <3>1, <3>2 DEF WillRetry
  <2>9. \A u \in Threads : WillRetry(u, m) => WillRetry(u, m)'
    BY <1>a, <2>4, <2>5 DEF WillRetry
  <2>10. CASE m = mu[t]
    BY <2>2, <2>6, <2>8, <2>10 DEF Awake
  <2>11. CASE m # mu[t]
    BY <1>a, <2>3, <2>7, <2>9, <2>11 DEF Awake
  <2> QED
    BY <2>10, <2>11
<1>14. ASSUME NEW t \in Threads, UnparkNone(t) PROVE Awake(m)'
  <2>1. ParkedOn(m) # {}
    BY <1>14, SameQueues DEF UnparkNone, DequeueNone, lotVars
  <2>2. m # mu[t]
    BY <1>a, <1>14, <2>1, NoWaiterParked DEF UnparkNone, DequeueNone
  <2>3. \A u \in Threads : WillRetry(u, m) => WillRetry(u, m)'
    BY <1>a, <1>14 DEF UnparkNone, DequeueNone, Goto, lotVars, callVars, WillRetry
  <2>4. bits'[m] = bits[m]
    BY <1>a, <1>14, <2>2 DEF UnparkNone
  <2> QED
    BY <1>a, <2>1, <2>3, <2>4 DEF Awake
<1>15. ASSUME NEW t \in Threads, SignalWaiter(t) PROVE Awake(m)'
  <2>1. Awake(m)
    BY <1>a, <1>15, SameQueues DEF SignalWaiter, Signal, Goto
  <2> QED
    BY <1>a, <1>15, <2>1 DEF SignalWaiter, Signal, Goto, Awake, WillRetry
<1>16. ASSUME NEW t \in Threads, TimerFires(t) PROVE Awake(m)'
  <2>1. Awake(m)
    BY <1>a, <1>16, SameQueues DEF TimerFires, Goto, lotVars, callVars
  <2> QED
    BY <1>a, <1>16, <2>1 DEF TimerFires, Goto, lotVars, callVars, Awake, WillRetry
<1>17. ASSUME NEW t \in Threads, Tick(t) PROVE Awake(m)'
  <2>1. Awake(m)
    BY <1>a, <1>17, SameQueues DEF Tick, lotVars
  <2> QED
    BY <1>a, <1>17, <2>1 DEF Tick, lotVars, Awake, WillRetry
<1> QED
  BY <1>1, <1>2, <1>3, <1>4, <1>5, <1>6, <1>7, <1>8, <1>9,
     <1>10, <1>11, <1>12, <1>13, <1>14, <1>15, <1>16, <1>17 DEF Next, Run

-----------------------------------------------------------------------------

LEMMA InitIInv == Init => IInv
<1> SUFFICES ASSUME Init PROVE IInv
  OBVIOUS
<1> USE DEF Init, LotInit
<1>1. QueuesOK
  <2>1. \A b \in Buckets : waitq[b] = << >>
    OBVIOUS
  <2>2. waitq \in [Buckets -> Seq(Waiter)]
    OBVIOUS
  <2> QED
    BY <2>1, <2>2 DEF QueuesOK
<1>2. TypeOK
  BY <1>1 DEF TypeOK, LotTypeOK, PCs
<1>3. \A m \in Addrs : ParkedOn(m) = {}
  BY DEF ParkedOn, IsQueuedAt, Queue
<1>4. QueuedInside /\ NoLostWakeup
  BY <1>3 DEF QueuedInside, NoLostWakeup
<1>5. SeenOK /\ ClaimsOK /\ MutualExclusion /\ UnlockNeverPanics
  BY DEF SeenOK, ClaimsOK, MutualExclusion, UnlockNeverPanics, Owns, Parking, Locking,
     Unlocking
<1> QED
  BY <1>2, <1>4, <1>5 DEF IInv

LEMMA NextIInv == IInv /\ [Next]_vars => IInv'
BY TypeInductive, QueuedInductive, SeenInductive, ClaimsInductive,
   ExclusionInductive, WakeupInductive DEF IInv, Exclusion

(* Every reachable state satisfies the inductive invariant. *)
THEOREM Invariance == Spec => []IInv
BY InitIInv, NextIInv, PTL DEF Spec

(* Variables keep their types, and no goroutine is ever on two lists or    *)
(* twice on one.                                                           *)
THEOREM TypeCorrect == Spec => []TypeOK
<1>1. IInv => TypeOK
  BY DEF IInv
<1> QED
  BY <1>1, Invariance, PTL

(* Locking excludes: at most one goroutine owns a mutex, and its word reads *)
(* locked, during a handoff too.                                           *)
THEOREM Exclusive == Spec => []MutualExclusion
<1>1. IInv => MutualExclusion
  BY DEF IInv
<1> QED
  BY <1>1, Invariance, PTL

(* Unlock by the owner never panics. *)
THEOREM UnlockSafe == Spec => []UnlockNeverPanics
<1>1. IInv => UnlockNeverPanics
  BY DEF IInv
<1> QED
  BY <1>1, Invariance, PTL

(* No wakeup is lost, whatever timeouts race with the unlocks. *)
THEOREM WakeupsKept == Spec => []NoLostWakeup
<1>1. IInv => NoLostWakeup
  BY DEF IInv
<1> QED
  BY <1>1, Invariance, PTL

(* The waiter's channel is empty whenever its claimer sends on it. *)
THEOREM SignalsSafe == Spec => []SignalNeverBlocks
<1>1. IInv => SignalNeverBlocks
  <2> SUFFICES ASSUME IInv, NEW t \in Threads, pc[t] = "signal"
               PROVE  /\ ~notify[wakee[t]]
                      /\ \A u \in Threads \ {t} : wakee[u] # wakee[t]
    BY DEF SignalNeverBlocks
  <2> QED
    BY DEF IInv, ClaimsOK
<1> QED
  BY <1>1, Invariance, PTL

-----------------------------------------------------------------------------
(* PyMutex implements FairLock.  The abstract state is who owns what and   *)
(* who waits; a step that changes neither is a stutter.                    *)

(* What t waits for. *)
Wants(t) == IF pc[t] \in Locking /\ ~Owns(t, mu[t]) THEN {mu[t]} ELSE {}

OwnerNow == [m \in Addrs |-> OwnerOf(m)]
WantsNow == [t \in Threads |-> IF pc[t] \in Locking /\ ~Owns(t, mu[t]) THEN {mu[t]} ELSE {}]

(* A mutex has the owner that owns it, or none. *)
LEMMA TheOwner ==
    ASSUME MutualExclusion, NEW m \in Addrs
    PROVE  /\ \A t \in Threads : OwnerOf(m) = t <=> Owns(t, m)
           /\ OwnerOf(m) = Nobody <=> \A t \in Threads : ~Owns(t, m)
  <1>1. CASE \E t \in Threads : Owns(t, m)
    <2>1. OwnerOf(m) = CHOOSE t \in Threads : Owns(t, m)
      BY <1>1 DEF OwnerOf
    <2>2. OwnerOf(m) \in Threads /\ Owns(OwnerOf(m), m)
      BY <1>1, <2>1
    <2> QED BY <2>2, LotAssumption DEF MutualExclusion
  <1>2. CASE \A t \in Threads : ~Owns(t, m)
    BY <1>2, LotAssumption DEF OwnerOf
  <1> QED BY <1>1, <1>2

LEMMA TheNextOwner ==
    ASSUME MutualExclusion', NEW m \in Addrs
    PROVE  /\ \A t \in Threads : OwnerOf(m)' = t <=> Owns(t, m)'
           /\ OwnerOf(m)' = Nobody <=> \A t \in Threads : ~Owns(t, m)'
  <1>1. CASE \E t \in Threads : Owns(t, m)'
    <2>1. OwnerOf(m)' = CHOOSE t \in Threads : Owns(t, m)'
      BY <1>1 DEF OwnerOf
    <2>2. \E t \in Threads : OwnerOf(m)' = t /\ Owns(t, m)'
      BY <1>1, <2>1
    <2> QED BY <2>2, LotAssumption DEF MutualExclusion
  <1>2. CASE \A t \in Threads : ~Owns(t, m)'
    BY <1>2, LotAssumption DEF OwnerOf
  <1> QED BY <1>1, <1>2

(* Nobody's ownership changes but that of l, which o has now. *)
LEMMA OwnerChanges ==
    ASSUME MutualExclusion, MutualExclusion', NEW l \in Addrs, NEW o \in Threads \cup {Nobody},
           \A u \in Threads : Owns(u, l)' <=> u = o,
           \A u \in Threads, m \in Addrs : m # l => (Owns(u, m)' <=> Owns(u, m))
    PROVE  OwnerNow' = [OwnerNow EXCEPT ![l] = o]
  <1>1. OwnerOf(l)' = o
    BY TheNextOwner, LotAssumption
  <1>2. ASSUME NEW m \in Addrs, m # l PROVE OwnerOf(m)' = OwnerOf(m)
    <2>1. CASE \E u \in Threads : Owns(u, m)
      BY <1>2, <2>1, TheOwner, TheNextOwner
    <2>2. CASE \A u \in Threads : ~Owns(u, m)
      BY <1>2, <2>2, TheOwner, TheNextOwner
    <2> QED BY <2>1, <2>2
  <1>3. \A m \in Addrs : OwnerOf(m)' = IF m = l THEN o ELSE OwnerOf(m)
    BY <1>1, <1>2
  <1>4. OwnerNow' = [m \in Addrs |-> OwnerOf(m)']
    BY DEF OwnerNow
  <1> QED BY <1>3, <1>4 DEF OwnerNow

LEMMA OwnerStays ==
    ASSUME MutualExclusion, MutualExclusion',
           \A u \in Threads, m \in Addrs : Owns(u, m)' <=> Owns(u, m)
    PROVE  OwnerNow' = OwnerNow
  <1>1. ASSUME NEW m \in Addrs PROVE OwnerOf(m)' = OwnerOf(m)
    <2>1. CASE \E u \in Threads : Owns(u, m)
      BY <2>1, TheOwner, TheNextOwner
    <2>2. CASE \A u \in Threads : ~Owns(u, m)
      BY <2>2, TheOwner, TheNextOwner
    <2> QED BY <2>1, <2>2
  <1>2. OwnerNow' = [m \in Addrs |-> OwnerOf(m)']
    BY DEF OwnerNow
  <1> QED BY <1>1, <1>2 DEF OwnerNow

(* t's wishes change to W, and nobody else's. *)
LEMMA WantsChange ==
    ASSUME NEW t \in Threads, NEW W,
           Wants(t)' = W, \A u \in Threads : u # t => Wants(u)' = Wants(u)
    PROVE  WantsNow' = [WantsNow EXCEPT ![t] = W]
  <1>1. WantsNow = [u \in Threads |-> Wants(u)] /\ WantsNow' = [u \in Threads |-> Wants(u)']
    BY DEF WantsNow, Wants
  <1> QED BY <1>1

LEMMA WantsStay ==
    ASSUME \A u \in Threads : Wants(u)' = Wants(u)
    PROVE  WantsNow' = WantsNow
  <1>1. WantsNow = [u \in Threads |-> Wants(u)] /\ WantsNow' = [u \in Threads |-> Wants(u)']
    BY DEF WantsNow, Wants
  <1> QED BY <1>1

(* The abstract actions, in terms of the two. *)
LEMMA AbstractStutter == OwnerNow' = OwnerNow /\ WantsNow' = WantsNow => UNCHANGED Abstract!vars
  BY DEF Abstract!vars, OwnerNow, WantsNow

LEMMA AbstractAcquire ==
    ASSUME NEW t \in Threads, NEW l \in Addrs, l \in WantsNow[t], OwnerNow[l] = Nobody,
           OwnerNow' = [OwnerNow EXCEPT ![l] = t], WantsNow' = [WantsNow EXCEPT ![t] = {}]
    PROVE  Abstract!Next
  BY DEF OwnerNow, WantsNow, Abstract!Next, Abstract!Acquire

LEMMA AbstractRelease ==
    ASSUME NEW t \in Threads, NEW l \in Addrs, OwnerNow[l] = t,
           OwnerNow' = [OwnerNow EXCEPT ![l] = Nobody], WantsNow' = WantsNow
    PROVE  Abstract!Next
  BY DEF OwnerNow, WantsNow, Abstract!Next, Abstract!Release

LEMMA AbstractHandOver ==
    ASSUME NEW t \in Threads, NEW u \in Threads, NEW l \in Addrs,
           OwnerNow[l] = t, l \in WantsNow[u],
           OwnerNow' = [OwnerNow EXCEPT ![l] = u], WantsNow' = [WantsNow EXCEPT ![u] = {}]
    PROVE  Abstract!Next
  BY DEF OwnerNow, WantsNow, Abstract!Next, Abstract!HandOver

LEMMA AbstractAsk ==
    ASSUME NEW t \in Threads, NEW l \in Addrs,
           WantsNow[t] = {}, \A k \in Addrs : OwnerNow[k] # t,
           WantsNow' = [WantsNow EXCEPT ![t] = {l}], OwnerNow' = OwnerNow
    PROVE  Abstract!Next
  BY DEF OwnerNow, WantsNow, Abstract!Next, Abstract!Ask

LEMMA AbstractGiveUp ==
    ASSUME NEW t \in Threads, WantsNow' = [WantsNow EXCEPT ![t] = {}], OwnerNow' = OwnerNow
    PROVE  Abstract!Next
  BY DEF OwnerNow, WantsNow, Abstract!Next, Abstract!GiveUp

(* A step that says nothing of who owns and who waits. *)
LEMMA Stutters ==
    ASSUME MutualExclusion, MutualExclusion',
           \A u \in Threads, m \in Addrs : Owns(u, m)' <=> Owns(u, m),
           \A u \in Threads : Wants(u)' = Wants(u)
    PROVE  UNCHANGED Abstract!vars
  <1>1. OwnerNow' = OwnerNow
    BY OwnerStays
  <1>2. WantsNow' = WantsNow
    BY WantsStay
  <1> QED BY <1>1, <1>2, AbstractStutter

(* Who is not concerned by a step owns and waits as before. *)
LEMMA Bystanders ==
    ASSUME NEW t, \A u \in Threads : u # t => /\ pc'[u] = pc[u] /\ mu'[u] = mu[u]
                                              /\ handedOff'[u] = handedOff[u]
    PROVE  /\ \A u \in Threads, m \in Addrs : u # t => (Owns(u, m)' <=> Owns(u, m))
           /\ \A u \in Threads : u # t => Wants(u)' = Wants(u)
  BY DEF Owns, Wants

(* LockTimed asks, unless it gives up at once. *)
LEMMA CallRefines ==
    ASSUME IInv, MutualExclusion', NEW t \in Threads, Call(t)
    PROVE  [Abstract!Next]_(Abstract!vars)
  <1>1. PICK m \in Addrs, limit \in Limits : CallLock(t, m, limit)
    BY DEF Call
  <1>2. TypeOK /\ MutualExclusion
    BY DEF IInv
  <1>3. /\ pc[t] = "idle" /\ pc' = [pc EXCEPT ![t] = pc'[t]] /\ pc'[t] \in {"try", "idle", "load"}
        /\ mu' = [mu EXCEPT ![t] = m] /\ handedOff' = [handedOff EXCEPT ![t] = FALSE]
    BY <1>1, <1>2 DEF CallLock, Goto, TypeOK
  <1>4. \A u \in Threads : u # t => pc'[u] = pc[u] /\ mu'[u] = mu[u] /\ handedOff'[u] = handedOff[u]
    BY <1>2, <1>3 DEF TypeOK
  <1>5. \A k \in Addrs : ~Owns(t, k) /\ ~Owns(t, k)'
    BY <1>3 DEF Owns, Unlocking
  <1>6. \A u \in Threads, k \in Addrs : Owns(u, k)' <=> Owns(u, k)
    BY <1>4, <1>5, Bystanders
  <1>7. mu'[t] = m /\ Wants(t) = {}
    BY <1>2, <1>3 DEF TypeOK, Wants, Locking
  <1>8. CASE pc'[t] = "idle"
    <2>1. Wants(t)' = {}
      BY <1>8 DEF Wants, Locking
    <2>2. \A u \in Threads : Wants(u)' = Wants(u)
      BY <1>4, <1>7, <2>1, Bystanders
    <2> QED BY <1>2, <1>6, <2>2, Stutters
  <1>9. CASE pc'[t] # "idle"
    <2>1. Wants(t)' = {m}
      BY <1>3, <1>5, <1>7, <1>9 DEF Wants, Locking
    <2>2. WantsNow' = [WantsNow EXCEPT ![t] = {m}]
      BY <1>4, <2>1, Bystanders, WantsChange
    <2>3. OwnerNow' = OwnerNow
      BY <1>2, <1>6, OwnerStays
    <2>4. WantsNow[t] = {} /\ \A k \in Addrs : OwnerNow[k] # t
      BY <1>2, <1>5, <1>7, TheOwner DEF WantsNow, OwnerNow, Wants
    <2> QED BY <2>2, <2>3, <2>4, AbstractAsk
  <1> QED BY <1>8, <1>9

(* A compare-and-swap takes the mutex, and nobody owned it. *)
LEMMA TakeRefines ==
    ASSUME IInv, MutualExclusion', NEW t \in Threads, TryFast(t) \/ Take(t)
    PROVE  [Abstract!Next]_(Abstract!vars)
  <1>1. TypeOK /\ MutualExclusion /\ SeenOK
    BY DEF IInv
  <1>2. /\ pc[t] \in {"try", "take"} /\ UNCHANGED <<mu, handedOff>>
        /\ \/ pc' = [pc EXCEPT ![t] = "held"] /\ Swap(t, seen[t] \cup {Locked})
           \/ pc' = [pc EXCEPT ![t] = "load"]
           \/ pc' = [pc EXCEPT ![t] = "idle"]
    BY Zenon DEF TryFast, Take, Goto, callVars
  <1>3. \A u \in Threads : u # t => pc'[u] = pc[u] /\ mu'[u] = mu[u] /\ handedOff'[u] = handedOff[u]
    BY <1>1, <1>2 DEF TypeOK
  <1>4. \A k \in Addrs : ~Owns(t, k)
    BY <1>2 DEF Owns, Unlocking
  <1>5. mu[t] \in Addrs /\ mu'[t] = mu[t] /\ Wants(t) = {mu[t]}
    BY <1>1, <1>2, <1>4 DEF TypeOK, Wants, Locking
  <1>6. CASE pc' = [pc EXCEPT ![t] = "held"] /\ Swap(t, seen[t] \cup {Locked})
    <2>1. Locked \notin bits[mu[t]]
      BY <1>1, <1>2, <1>6 DEF Swap, SeenOK
    <2>2. \A u \in Threads : ~Owns(u, mu[t])
      BY <1>1, <1>5, <2>1 DEF MutualExclusion
    <2>3. pc'[t] = "held" /\ Wants(t)' = {}
      BY <1>1, <1>6 DEF TypeOK, Wants, Locking
    <2>4. \A k \in Addrs : Owns(t, k)' <=> k = mu[t]
      BY <1>5, <2>3 DEF Owns
    <2>5. OwnerNow' = [OwnerNow EXCEPT ![mu[t]] = t]
      <3>1. \A u \in Threads : Owns(u, mu[t])' <=> u = t
        BY <1>3, <1>5, <2>2, <2>4, Bystanders
      <3>2. \A u \in Threads, m \in Addrs : m # mu[t] => (Owns(u, m)' <=> Owns(u, m))
        BY <1>3, <1>4, <2>4, Bystanders
      <3> QED BY <1>1, <1>5, <3>1, <3>2, OwnerChanges
    <2>6. WantsNow' = [WantsNow EXCEPT ![t] = {}]
      BY <1>3, <2>3, Bystanders, WantsChange
    <2>7. mu[t] \in WantsNow[t] /\ OwnerNow[mu[t]] = Nobody
      BY <1>1, <1>5, <2>2, TheOwner DEF WantsNow, OwnerNow, Wants
    <2> QED BY <1>5, <2>5, <2>6, <2>7, AbstractAcquire
  <1>7. CASE pc' = [pc EXCEPT ![t] = "load"] \/ pc' = [pc EXCEPT ![t] = "idle"]
    <2>1. pc'[t] \in {"load", "idle"}
      BY <1>1, <1>7 DEF TypeOK
    <2>2. \A k \in Addrs : ~Owns(t, k)'
      BY <2>1 DEF Owns, Unlocking
    <2>3. \A u \in Threads, k \in Addrs : Owns(u, k)' <=> Owns(u, k)
      BY <1>3, <1>4, <2>2, Bystanders
    <2>4. OwnerNow' = OwnerNow
      BY <1>1, <2>3, OwnerStays
    <2>5. CASE pc'[t] = "load"
      <3>1. Wants(t)' = Wants(t)
        BY <1>5, <2>2, <2>5 DEF Wants, Locking
      <3> QED BY <1>1, <1>3, <2>3, <3>1, Bystanders, Stutters
    <2>6. CASE pc'[t] = "idle"
      <3>1. Wants(t)' = {}
        BY <2>6 DEF Wants, Locking
      <3>2. WantsNow' = [WantsNow EXCEPT ![t] = {}]
        BY <1>3, <3>1, Bystanders, WantsChange
      <3> QED BY <2>4, <3>2, AbstractGiveUp
    <2> QED BY <2>1, <2>5, <2>6
  <1> QED BY <1>2, <1>6, <1>7

(* A step of t that neither takes nor gives, and after which t waits on or *)
(* no more.                                                                *)
LEMMA QuietRefines ==
    ASSUME MutualExclusion, MutualExclusion', NEW t \in Threads,
           \A u \in Threads : u # t => /\ pc'[u] = pc[u] /\ mu'[u] = mu[u]
                                       /\ handedOff'[u] = handedOff[u],
           \A k \in Addrs : Owns(t, k)' <=> Owns(t, k),
           Wants(t)' = Wants(t) \/ Wants(t)' = {}
    PROVE  [Abstract!Next]_(Abstract!vars)
  <1>1. \A u \in Threads, k \in Addrs : Owns(u, k)' <=> Owns(u, k)
    BY Bystanders
  <1>2. OwnerNow' = OwnerNow
    BY <1>1, OwnerStays
  <1>3. CASE Wants(t)' = Wants(t)
    <2>1. \A u \in Threads : Wants(u)' = Wants(u)
      BY <1>3, Bystanders
    <2> QED BY <1>1, <2>1, Stutters
  <1>4. CASE Wants(t)' = {}
    <2>1. WantsNow' = [WantsNow EXCEPT ![t] = {}]
      BY <1>4, Bystanders, WantsChange
    <2> QED BY <1>2, <2>1, AbstractGiveUp
  <1> QED BY <1>3, <1>4

(* The steps of LockTimed before and after it parks. *)
LEMMA WaitRefines ==
    ASSUME IInv, IInv', NEW t \in Threads,
           \/ Load(t) \/ MarkParked(t) \/ CheckPark(t) \/ EnqueueSelf(t)
           \/ ParkOK(t) \/ TimerFires(t) \/ GiveUp(t) \/ Tick(t)
    PROVE  [Abstract!Next]_(Abstract!vars)
  <1>1. TypeOK /\ MutualExclusion /\ MutualExclusion' /\ SeenOK /\ SeenOK' /\ QueuedInside
    BY DEF IInv
  <1> DEFINE waits == Locking \ {"try"}
  <1>2. /\ UNCHANGED <<mu, handedOff>> /\ pc[t] \in waits
        /\ pc' = [pc EXCEPT ![t] = pc'[t]]
    <2>1. ASSUME Load(t) PROVE /\ UNCHANGED <<mu, handedOff>> /\ pc[t] = "load"
                               /\ \E x : pc' = [pc EXCEPT ![t] = x]
      BY <2>1, Zenon DEF Load, Goto
    <2>2. ASSUME MarkParked(t) PROVE /\ UNCHANGED <<mu, handedOff>> /\ pc[t] = "mark"
                                     /\ \E x : pc' = [pc EXCEPT ![t] = x]
      BY <2>2, Zenon DEF MarkParked, Goto
    <2>3. ASSUME CheckPark(t) PROVE /\ UNCHANGED <<mu, handedOff>> /\ pc[t] = "park"
                                    /\ \E x : pc' = [pc EXCEPT ![t] = x]
      BY <2>3, Zenon DEF CheckPark, Goto
    <2>4. ASSUME EnqueueSelf(t) PROVE /\ UNCHANGED <<mu, handedOff>> /\ pc[t] = "enqueue"
                                      /\ \E x : pc' = [pc EXCEPT ![t] = x]
      BY <2>4, Zenon DEF EnqueueSelf, Goto, callVars
    <2>5. ASSUME ParkOK(t) PROVE /\ UNCHANGED <<mu, handedOff>> /\ pc[t] \in {"blocked", "claimed"}
                                 /\ \E x : pc' = [pc EXCEPT ![t] = x]
      BY <2>5, Zenon DEF ParkOK
    <2>6. ASSUME TimerFires(t) PROVE /\ UNCHANGED <<mu, handedOff>> /\ pc[t] = "blocked"
                                     /\ \E x : pc' = [pc EXCEPT ![t] = x]
      BY <2>6, Zenon DEF TimerFires, Goto, callVars
    <2>7. ASSUME GiveUp(t) PROVE /\ UNCHANGED <<mu, handedOff>> /\ pc[t] = "timedout"
                                 /\ \E x : pc' = [pc EXCEPT ![t] = x]
      BY <2>7, Zenon DEF GiveUp, Goto, callVars
    <2>8. ASSUME Tick(t) PROVE UNCHANGED <<mu, handedOff, pc>> /\ pc[t] \in waits
      BY <2>8 DEF Tick
    <2>9. \A x : pc' = [pc EXCEPT ![t] = x] => pc' = [pc EXCEPT ![t] = pc'[t]]
      BY <1>1 DEF TypeOK
    <2>10. pc' = pc => pc' = [pc EXCEPT ![t] = pc'[t]]
      BY <1>1 DEF TypeOK
    <2> QED BY <2>1, <2>2, <2>3, <2>4, <2>5, <2>6, <2>7, <2>8, <2>9, <2>10 DEF Locking
  <1>3. \A u \in Threads : u # t => pc'[u] = pc[u] /\ mu'[u] = mu[u] /\ handedOff'[u] = handedOff[u]
    BY <1>1, <1>2 DEF TypeOK
  <1>4. mu'[t] = mu[t] /\ handedOff'[t] = handedOff[t]
    BY <1>2
  <1>5. \/ /\ pc[t] \in waits \ Parking /\ pc'[t] \in waits \cup {"idle"} /\ ~handedOff[t]
        \/ /\ pc[t] \in Parking /\ pc'[t] \in Parking
        \/ /\ pc[t] \in Parking /\ handedOff[t] /\ pc'[t] = "held"
        \/ /\ pc[t] \in Parking /\ ~handedOff[t] /\ pc'[t] \in {"load", "idle"}
    <2>1. CASE Load(t) \/ MarkParked(t) \/ CheckPark(t) \/ EnqueueSelf(t)
      <3>1. pc[t] \in waits \ Parking /\ pc'[t] \in waits \cup {"idle"}
        BY <1>1, <2>1 DEF Load, MarkParked, CheckPark, EnqueueSelf, Goto, TypeOK, Parking, Locking
      <3> QED BY <1>1, <3>1 DEF SeenOK
    <2>2. CASE ParkOK(t)
      BY <1>1, <2>2 DEF ParkOK, TypeOK, Parking
    <2>3. CASE TimerFires(t)
      BY <1>1, <2>3 DEF TimerFires, Goto, TypeOK, Parking
    <2>4. CASE GiveUp(t)
      <3>1. CASE Goto(t, "timedout", "claimed")
        BY <1>1, <3>1 DEF Goto, TypeOK, Parking
      <3>2. CASE Goto(t, "timedout", "idle") /\ RemoveTimedOut(t, mu[t])
        <4>1. mu[t] \in Addrs /\ QueuesOK
          BY <1>1 DEF TypeOK, LotTypeOK
        <4>2. t \in ParkedOn(mu[t])
          BY <3>2, <4>1, RemoveTimedOutEffect
        <4>3. ~handedOff[t]
          BY <1>1, <4>1, <4>2 DEF QueuedInside, Inside
        <4> QED BY <1>1, <3>2, <4>3 DEF Goto, TypeOK, Parking
      <3> QED BY <2>4, <3>1, <3>2 DEF GiveUp
    <2>5. CASE Tick(t)
      <3>1. pc'[t] = pc[t] /\ pc[t] \in waits
        BY <2>5 DEF Tick
      <3> QED BY <1>1, <3>1 DEF SeenOK
    <2> QED BY <2>1, <2>2, <2>3, <2>4, <2>5
  <1>6. \A k \in Addrs : Owns(t, k)' <=> Owns(t, k)
    BY <1>4, <1>5 DEF Owns, Parking, Locking, Unlocking
  <1>7. Wants(t)' = Wants(t) \/ Wants(t)' = {}
    <2>1. CASE pc'[t] \notin Locking
      BY <2>1 DEF Wants
    <2>2. CASE pc'[t] \in Locking /\ pc[t] \in Locking
      <3>1. Owns(t, mu[t])' <=> Owns(t, mu[t])
        BY <1>4, <1>5, <2>2 DEF Owns, Parking, Locking, Unlocking
      <3> QED BY <1>4, <2>2, <3>1 DEF Wants
    <2> QED BY <1>2, <2>1, <2>2
  <1> QED BY <1>1, <1>3, <1>6, <1>7, QuietRefines

(* tryUnlock before it lets go, and Unpark after it has. *)
LEMMA UnlockingRefines ==
    ASSUME IInv, IInv', NEW t \in Threads,
           LoadToUnlock(t) \/ SignalWaiter(t) \/ (Clear(t) /\ SwapFails(t))
    PROVE  [Abstract!Next]_(Abstract!vars)
  <1>1. TypeOK /\ MutualExclusion /\ MutualExclusion' /\ UnlockNeverPanics'
    BY DEF IInv
  <1>2. /\ UNCHANGED <<mu, handedOff>>
        /\ \A u \in Threads : u # t => pc'[u] = pc[u]
        /\ \/ pc[t] \in {"held", "unlock"} /\ pc'[t] \in {"panic", "unpark", "clear"}
           \/ pc[t] = "signal" /\ pc'[t] = "idle"
           \/ pc[t] = "clear" /\ pc'[t] = "unlock"
    <2>1. CASE LoadToUnlock(t)
      BY <1>1, <2>1 DEF LoadToUnlock, TypeOK
    <2>2. CASE SignalWaiter(t)
      BY <1>1, <2>2 DEF SignalWaiter, Goto, TypeOK
    <2>3. CASE Clear(t) /\ SwapFails(t)
      BY <1>1, <2>3 DEF Clear, Goto, Swap, SwapFails, callVars, TypeOK
    <2> QED BY <2>1, <2>2, <2>3
  <1>3. \A u \in Threads : u # t => pc'[u] = pc[u] /\ mu'[u] = mu[u] /\ handedOff'[u] = handedOff[u]
    BY <1>2
  <1>4. pc'[t] # "panic"
    BY <1>1 DEF UnlockNeverPanics
  <1>5. \A k \in Addrs : Owns(t, k)' <=> Owns(t, k)
    BY <1>2, <1>4 DEF Owns, Unlocking
  <1>6. Wants(t)' = {}
    BY <1>2, <1>4 DEF Wants, Locking
  <1> QED BY <1>1, <1>3, <1>5, <1>6, QuietRefines

(* The owner lets go, and nobody gets the mutex. *)
LEMMA ReleaseRefines ==
    ASSUME MutualExclusion, MutualExclusion', NEW t \in Threads, NEW m \in Addrs, Owns(t, m),
           \A u \in Threads, k \in Addrs : u # t => (Owns(u, k)' <=> Owns(u, k)),
           \A u \in Threads : u # t => Wants(u)' = Wants(u),
           \A k \in Addrs : ~Owns(t, k)', \A k \in Addrs : k # m => ~Owns(t, k),
           Wants(t) = {}, Wants(t)' = {}
    PROVE  [Abstract!Next]_(Abstract!vars)
  <1>1. \A u \in Threads : Owns(u, m)' <=> u = Nobody
    BY LotAssumption DEF MutualExclusion
  <1>2. OwnerNow' = [OwnerNow EXCEPT ![m] = Nobody]
    BY <1>1, OwnerChanges
  <1>3. WantsNow' = WantsNow
    BY WantsStay
  <1>4. OwnerNow[m] = t
    BY TheOwner DEF OwnerNow
  <1> QED BY <1>2, <1>3, <1>4, AbstractRelease

(* The word is cleared with nobody parked. *)
LEMMA ClearRefines ==
    ASSUME IInv, IInv', NEW t \in Threads,
           UnparkNone(t) \/ (Clear(t) /\ Swap(t, {}))
    PROVE  [Abstract!Next]_(Abstract!vars)
  <1>1. TypeOK /\ MutualExclusion /\ MutualExclusion'
    BY DEF IInv
  <1>2. /\ UNCHANGED <<mu, handedOff>> /\ pc[t] \in {"clear", "unpark"} /\ mu[t] \in Addrs
        /\ pc'[t] \in {"idle", "unlock"} /\ \A u \in Threads : u # t => pc'[u] = pc[u]
    <2>1. CASE UnparkNone(t)
      BY <1>1, <2>1 DEF UnparkNone, Goto, callVars, TypeOK
    <2>2. CASE Clear(t) /\ Swap(t, {})
      BY <1>1, <2>2 DEF Clear, Goto, callVars, TypeOK
    <2> QED BY <2>1, <2>2
  <1>3. pc'[t] = "idle"
    <2>1. CASE UnparkNone(t)
      BY <1>1, <2>1 DEF UnparkNone, Goto, TypeOK
    <2>2. CASE Clear(t) /\ Swap(t, {})
      BY <1>1, <2>2 DEF Clear, Goto, Swap, SwapFails, TypeOK
    <2> QED BY <2>1, <2>2
  <1>4. \A u \in Threads : u # t => pc'[u] = pc[u] /\ mu'[u] = mu[u] /\ handedOff'[u] = handedOff[u]
    BY <1>2
  <1>5. /\ Owns(t, mu[t]) /\ \A k \in Addrs : k # mu[t] => ~Owns(t, k)
        /\ \A k \in Addrs : ~Owns(t, k)'
    BY <1>2, <1>3 DEF Owns, Unlocking
  <1>6. Wants(t) = {} /\ Wants(t)' = {}
    BY <1>2, <1>3 DEF Wants, Locking
  <1> QED BY <1>1, <1>2, <1>4, <1>5, <1>6, Bystanders, ReleaseRefines

(* The first waiter is dequeued: it gets the mutex, if it has waited for   *)
(* long, and otherwise nobody does.                                        *)
LEMMA UnparkRefines ==
    ASSUME IInv, IInv', NEW t \in Threads, UnparkFirst(t)
    PROVE  [Abstract!Next]_(Abstract!vars)
  <1>1. TypeOK /\ MutualExclusion /\ MutualExclusion' /\ QueuedInside
    BY DEF IInv
  <1>2. PICK m \in Addrs : m = mu[t]
    BY <1>1 DEF TypeOK
  <1>3. PICK i \in 1 .. Len(Queue(m)) :
            /\ Dequeue(m, i)
            /\ handedOff' = [handedOff EXCEPT ![Queue(m)[i].thr] = overdue[Queue(m)[i].thr]]
    BY <1>2 DEF UnparkFirst
  <1>4. PICK w \in Threads : w = Queue(m)[i].thr /\ Inside(w, m)
    <2>1. QueuesOK
      BY <1>1 DEF TypeOK, LotTypeOK
    <2>2. Queue(m)[i].thr \in ParkedOn(m)
      BY <1>3, <2>1, DequeueEffect
    <2> QED BY <1>1, <2>2 DEF QueuedInside, ParkedOn
  <1>5. /\ pc[t] = "unpark" /\ pc' = [pc EXCEPT ![t] = "signal"] /\ UNCHANGED mu
        /\ handedOff' = [handedOff EXCEPT ![w] = overdue[w]]
    BY <1>3, <1>4 DEF UnparkFirst, Goto
  <1>6. /\ pc'[t] = "signal" /\ handedOff'[w] = overdue[w]
        /\ \A u \in Threads : u # t => pc'[u] = pc[u]
        /\ \A u \in Threads : u # w => handedOff'[u] = handedOff[u]
    BY <1>1, <1>4, <1>5 DEF TypeOK
  <1>7. pc[w] \in {"blocked", "timedout"} /\ mu[w] = m /\ ~handedOff[w] /\ w # t
    BY <1>2, <1>4, <1>5 DEF Inside
  <1>8. \A u \in Threads : u # t /\ u # w =>
           /\ \A k \in Addrs : Owns(u, k)' <=> Owns(u, k)
           /\ Wants(u)' = Wants(u)
    BY <1>5, <1>6 DEF Owns, Wants
  <1>9. /\ Owns(t, m) /\ \A k \in Addrs : k # m => ~Owns(t, k)
        /\ \A k \in Addrs : ~Owns(t, k)'
        /\ Wants(t) = {} /\ Wants(t)' = {}
    BY <1>2, <1>5, <1>6 DEF Owns, Unlocking, Wants, Locking
  <1>10. /\ \A k \in Addrs : ~Owns(w, k)
         /\ \A k \in Addrs : Owns(w, k)' <=> k = m /\ overdue[w]
         /\ Wants(w) = {m} /\ Wants(w)' = IF overdue[w] THEN {} ELSE {m}
    <2>1. pc'[w] = pc[w] /\ mu'[w] = m
      BY <1>4, <1>5, <1>6, <1>7
    <2>2. \A k \in Addrs : ~Owns(w, k)
      BY <1>7 DEF Owns, Unlocking
    <2>3. \A k \in Addrs : Owns(w, k)' <=> k = m /\ overdue[w]
      BY <1>6, <1>7, <2>1 DEF Owns, Unlocking
    <2>4. Wants(w) = {m}
      BY <1>7, <2>2 DEF Wants, Locking
    <2>5. Wants(w)' = IF overdue[w] THEN {} ELSE {m}
      <3>1. Owns(w, mu[w])' <=> overdue[w]
        BY <1>6, <1>7, <2>1 DEF Owns, Unlocking
      <3> QED BY <1>7, <2>1, <3>1 DEF Wants, Locking
    <2> QED BY <2>2, <2>3, <2>4, <2>5
  <1>11. CASE overdue[w]
    <2>1. \A u \in Threads : Owns(u, m)' <=> u = w
      BY <1>1, <1>8, <1>9, <1>10, <1>11 DEF MutualExclusion
    <2>2. OwnerNow' = [OwnerNow EXCEPT ![m] = w]
      <3>1. \A u \in Threads, k \in Addrs : k # m => (Owns(u, k)' <=> Owns(u, k))
        BY <1>8, <1>9, <1>10
      <3> QED BY <1>1, <2>1, <3>1, OwnerChanges
    <2>3. WantsNow' = [WantsNow EXCEPT ![w] = {}]
      <3>1. Wants(w)' = {} /\ \A u \in Threads : u # w => Wants(u)' = Wants(u)
        BY <1>8, <1>9, <1>10, <1>11
      <3> QED BY <3>1, WantsChange
    <2>4. OwnerNow[m] = t /\ m \in WantsNow[w]
      BY <1>1, <1>9, <1>10, TheOwner DEF OwnerNow, WantsNow, Wants
    <2> QED BY <2>2, <2>3, <2>4, AbstractHandOver
  <1>12. CASE ~overdue[w]
    <2>1. \A u \in Threads : u # t => Wants(u)' = Wants(u)
      BY <1>8, <1>10, <1>12
    <2>2. \A u \in Threads, k \in Addrs : u # t => (Owns(u, k)' <=> Owns(u, k))
      BY <1>8, <1>10, <1>12
    <2> QED BY <1>1, <1>9, <2>1, <2>2, ReleaseRefines
  <1> QED BY <1>11, <1>12

LEMMA StepRefines == IInv /\ IInv' /\ [Next]_vars => [Abstract!Next]_(Abstract!vars)
  <1> SUFFICES ASSUME IInv, IInv', [Next]_vars PROVE [Abstract!Next]_(Abstract!vars)
    OBVIOUS
  <1>1. MutualExclusion /\ MutualExclusion'
    BY DEF IInv
  <1>2. CASE UNCHANGED vars
    <2>1. UNCHANGED <<pc, mu, handedOff>>
      BY <1>2 DEF vars, callVars
    <2>2. \A u \in Threads : Wants(u)' = Wants(u) /\ \A k \in Addrs : Owns(u, k)' <=> Owns(u, k)
      BY <2>1 DEF Owns, Wants
    <2> QED BY <1>1, <2>2, Stutters
  <1>3. ASSUME NEW t \in Threads, Call(t) \/ Run(t) \/ TimerFires(t) \/ Tick(t)
        PROVE  [Abstract!Next]_(Abstract!vars)
    <2>1. Clear(t) => (Clear(t) /\ SwapFails(t)) \/ (Clear(t) /\ Swap(t, {}))
      BY DEF Clear
    <2> QED BY <1>1, <1>3, <2>1, CallRefines, TakeRefines, WaitRefines, UnlockingRefines,
               ClearRefines, UnparkRefines DEF Run
  <1> QED BY <1>2, <1>3 DEF Next

LEMMA InitRefines == Init => Abstract!Init
  <1> SUFFICES ASSUME Init PROVE Abstract!Init
    OBVIOUS
  <1>1. \A t \in Threads : pc[t] = "idle"
    BY DEF Init
  <1>2. \A t \in Threads, m \in Addrs : ~Owns(t, m)
    BY <1>1 DEF Owns, Unlocking
  <1>3. \A m \in Addrs : OwnerOf(m) = Nobody
    BY <1>2 DEF OwnerOf
  <1> QED BY <1>1, <1>3 DEF Abstract!Init, Locking

(* mutex.go:1-20: the mutex is a lock with handoff.  Every step of any     *)
(* number of goroutines on the word, the queue and the channels is a step  *)
(* of FairLock or changes nothing there: a mutex is taken when nobody owns *)
(* it, is let go by its owner alone, and passes to nobody but a waiter.    *)
THEOREM MutexImplementsLock == Spec => ImplementsLock
  <1>1. Init => Abstract!Init
    BY InitRefines
  <1>2. IInv /\ IInv' /\ [Next]_vars => [Abstract!Next]_(Abstract!vars)
    BY StepRefines
  <1> QED BY <1>1, <1>2, Invariance, PTL DEF Spec, ImplementsLock, Abstract!Spec

-----------------------------------------------------------------------------
(* RecursiveMutex, on one mutex. *)

(* Where a goroutine of the recursive mutex is in the mutex below it. *)
WhereInMutex ==
    \A t \in Threads :
        /\ at[t] = "out" => pc[t] = "idle"
        /\ at[t] = "lock" => pc[t] \in Locking \cup {"held"}
        /\ at[t] = "unlock" => pc[t] \in Unlocking \cup {"held", "signal"}

RecIInv == IInv /\ RecInv /\ WhereInMutex

(* A step of t in the mutex, from Lock or from Unlock. *)
LEMMA RunStep ==
    ASSUME IInv, NEW t \in Threads, Run(t)
    PROVE  /\ pc' \in [Threads -> PCs]
           /\ \A u \in Threads : u # t => pc'[u] = pc[u]
           /\ pc[t] \in Locking => pc'[t] \in Locking \cup {"held", "idle"}
           /\ pc[t] \in Unlocking \cup {"held", "signal"} =>
                 pc'[t] \in Unlocking \cup {"signal", "idle", "panic"}
  <1>1. pc \in [Threads -> PCs]
    BY DEF IInv, TypeOK
  <1>2. PICK from \in PCs, to \in PCs :
            /\ pc[t] = from /\ pc' = [pc EXCEPT ![t] = to]
            /\ from \in Locking => to \in Locking \cup {"held", "idle"}
            /\ from \in Unlocking \cup {"held", "signal"} =>
                  to \in Unlocking \cup {"signal", "idle", "panic"}
    <2> USE DEF Goto, PCs, Locking, Unlocking
    <2>1. CASE TryFast(t) \/ Load(t) \/ Take(t)
      BY <1>1, <2>1 DEF TryFast, Load, Take
    <2>2. CASE MarkParked(t) \/ CheckPark(t) \/ EnqueueSelf(t)
      BY <1>1, <2>2 DEF MarkParked, CheckPark, EnqueueSelf
    <2>3. CASE ParkOK(t) \/ GiveUp(t)
      BY <1>1, <2>3 DEF ParkOK, GiveUp
    <2>4. CASE LoadToUnlock(t) \/ Clear(t)
      BY <1>1, <2>4 DEF LoadToUnlock, Clear
    <2>5. CASE UnparkFirst(t) \/ UnparkNone(t) \/ SignalWaiter(t)
      BY <1>1, <2>5 DEF UnparkFirst, UnparkNone, SignalWaiter
    <2> QED BY <2>1, <2>2, <2>3, <2>4, <2>5 DEF Run
  <1> QED BY <1>1, <1>2 DEF PCs, Locking, Unlocking

(* The goroutine inside is the only one that has the mutex. *)
LEMMA AloneInside ==
    ASSUME RecAssumption, RecIInv, NEW t \in Threads, pc[t] = "held",
           NEW u \in Threads, at[u] = "in"
    PROVE  u = t
  <1>1. pc[u] = "held" /\ mu[t] \in Addrs /\ mu[u] = mu[t]
    BY DEF RecIInv, RecInv, OwnerIsInside, IInv, TypeOK, RecAssumption
  <1>2. Owns(t, mu[t]) /\ Owns(u, mu[t])
    BY <1>1 DEF Owns
  <1> QED BY <1>1, <1>2 DEF RecIInv, IInv, MutualExclusion

LEMMA RecInitInv ==
    ASSUME RecAssumption
    PROVE  RecInit => RecIInv
  <1> SUFFICES ASSUME RecInit PROVE RecIInv
    OBVIOUS
  <1>1. IInv /\ \A t \in Threads : pc[t] = "idle" /\ at[t] = "out"
    BY InitIInv DEF RecInit, Init
  <1>2. RecInv
    BY <1>1 DEF RecInit, RecInv, RecTypeOK, OwnerIsInside, LevelIsDepth, OwnerUnlocks,
       RecAssumption
  <1> QED BY <1>1, <1>2 DEF RecIInv, WhereInMutex

(* Every step keeps it.  The mutex keeps its own invariant. *)
LEMMA RecNextInv ==
    ASSUME RecAssumption
    PROVE  RecIInv /\ [RecNext]_recVars => RecIInv'
  <1> SUFFICES ASSUME RecIInv, [RecNext]_recVars PROVE RecIInv'
    OBVIOUS
  <1> USE RecAssumption DEF RecAssumption, RecInv, RecTypeOK, OwnerIsInside, LevelIsDepth,
          OwnerUnlocks, WhereInMutex
  <1>0. IInv /\ RecInv /\ WhereInMutex
    BY DEF RecIInv
  <1>1. IInv'
    <2>1. [Next]_vars
      <3>1. ASSUME NEW t \in Threads, NEW m \in Addrs, LockFirst(t, m) PROVE Next
        BY <3>1 DEF LockFirst, Next, Call
      <3>2. ASSUME NEW t \in Threads, InMutex(t) \/ RecTick(t) PROVE Next
        BY <3>2 DEF InMutex, RecTick, Next
      <3>3. ASSUME NEW t \in Threads, LockAgain(t) \/ SetOwner(t) \/ Unlock(t)
            PROVE  UNCHANGED vars
        BY <3>3 DEF LockAgain, SetOwner, Unlock
      <3> QED BY <3>1, <3>2, <3>3 DEF RecNext, recVars
    <2> QED BY <1>0, <2>1, NextIInv
  <1>2. \A t \in Threads : pc'[t] # "panic"
    BY <1>1 DEF IInv, UnlockNeverPanics
  <1>a. pc \in [Threads -> PCs]
    BY <1>0 DEF IInv, TypeOK
  <1>3. ASSUME UNCHANGED recVars PROVE RecIInv'
    BY <1>0, <1>1, <1>2, <1>3 DEF RecIInv, recVars, vars
  <1>4. ASSUME NEW t \in Threads, LockAgain(t) PROVE RecIInv'
    <2>1. pc' = pc
      BY <1>4 DEF LockAgain, vars
    <2> QED BY <1>0, <1>1, <1>2, <1>4, <2>1 DEF RecIInv, LockAgain
  <1>5. ASSUME NEW t \in Threads, NEW m \in Addrs, LockFirst(t, m) PROVE RecIInv'
    <2>1. PICK to \in Locking : pc' = [pc EXCEPT ![t] = to] 
      BY <1>5 DEF LockFirst, CallLock, Goto, Locking
    <2> QED BY <1>0, <1>1, <1>2, <1>5, <1>a, <2>1 DEF RecIInv, LockFirst
  <1>6. ASSUME NEW t \in Threads, SetOwner(t) PROVE RecIInv'
    <2>1. pc' = pc /\ pc[t] = "held" /\ at[t] = "lock"
      BY <1>6 DEF SetOwner, vars
    <2>2. \A u \in Threads : at[u] # "in"
      BY <2>1, AloneInside
    <2>3. owner = Nobody /\ level = 0
      BY <1>0, <2>2
    <2> QED BY <1>0, <1>1, <1>2, <1>6, <2>1, <2>2, <2>3 DEF RecIInv, SetOwner
  <1>7. ASSUME NEW t \in Threads, Unlock(t) PROVE RecIInv'
    <2>1. pc' = pc /\ owner = t
      BY <1>0, <1>7 DEF Unlock, vars
    <2> QED BY <1>0, <1>1, <1>2, <1>7, <2>1 DEF RecIInv, Unlock
  <1>8. ASSUME NEW t \in Threads, InMutex(t) PROVE RecIInv'
    <2>1. /\ pc' \in [Threads -> PCs]
          /\ \A u \in Threads : u # t => pc'[u] = pc[u]
          /\ pc[t] \in Locking => pc'[t] \in Locking \cup {"held", "idle"}
          /\ pc[t] \in Unlocking \cup {"held", "signal"} =>
                pc'[t] \in Unlocking \cup {"signal", "idle", "panic"}
      BY <1>0, <1>8, RunStep DEF InMutex
    <2> QED BY <1>0, <1>1, <1>2, <1>8, <2>1 DEF RecIInv, InMutex
  <1>9. ASSUME NEW t \in Threads, RecTick(t) PROVE RecIInv'
    BY <1>0, <1>1, <1>2, <1>9 DEF RecIInv, RecTick, Tick
  <1> QED BY <1>3, <1>4, <1>5, <1>6, <1>7, <1>8, <1>9 DEF RecNext

(* The inductive invariant. *)
THEOREM RecInvariance ==
    ASSUME RecAssumption
    PROVE  RecSpec => []RecIInv
  <1>1. RecInit => RecIInv
    BY RecInitInv
  <1>2. RecIInv /\ [RecNext]_recVars => RecIInv'
    BY RecNextInv
  <1> QED BY <1>1, <1>2, PTL DEF RecSpec

(* recursive.go:22-60: the ident is the goroutine's that is inside, and    *)
(* nobody's while the mutex is on its way, the level is how often the owner*)
(* has locked again, and neither unlock panics for who has locked; for any *)
(* number of goroutines and levels.                                        *)
THEOREM RecursiveCorrect ==
    ASSUME RecAssumption
    PROVE  RecSpec => []RecInv
  <1>1. RecIInv => RecInv
    BY DEF RecIInv
  <1> QED BY <1>1, RecInvariance, PTL

-----------------------------------------------------------------------------
(* OnceFlag, which needs no lot.                                           *)

VARIABLES word, succeeded

Flag == INSTANCE OnceFlag

(* The three are inductive together: a goroutine that claims the flag      *)
(* finds it unlocked, so that nobody runs (RunsOnce) and nobody has        *)
(* succeeded (LockedForAReason).                                           *)
FlagInv == Flag!TypeOK /\ Flag!RunsOnce /\ Flag!NeverParks /\ Flag!LockedForAReason

(* The flag starts unlocked, with nobody in Do. *)
LEMMA FlagInitInv == Flag!Init => FlagInv
BY DEF Flag!Init, FlagInv, Flag!TypeOK, Flag!PCs, Flag!RunsOnce, Flag!NeverParks,
   Flag!LockedForAReason, Flag!Running

(* A step that leaves the word alone and makes nobody run.                 *)
LEMMA FlagBystander ==
    ASSUME FlagInv, NEW t \in Threads, NEW to \in Flag!PCs \ {"run", "park"},
           pc[t] # "run", pc' = [pc EXCEPT ![t] = to], UNCHANGED <<word, succeeded>>
    PROVE  FlagInv'
<1>1. Flag!Running' = Flag!Running
  BY DEF FlagInv, Flag!TypeOK, Flag!Running
<1>2. Flag!TypeOK' /\ Flag!NeverParks'
  BY DEF FlagInv, Flag!TypeOK, Flag!NeverParks
<1>3. Flag!RunsOnce' /\ Flag!LockedForAReason'
  BY <1>1 DEF FlagInv, Flag!RunsOnce, Flag!LockedForAReason
<1>4. QED
  BY <1>2, <1>3 DEF FlagInv

(* Every step of Do keeps the invariant. *)
LEMMA FlagStepInv == FlagInv /\ [Flag!Next]_(Flag!vars) => FlagInv'
<1> SUFFICES ASSUME FlagInv, [Flag!Next]_(Flag!vars) PROVE FlagInv'
  OBVIOUS
<1> USE DEF Flag!PCs
<1>1. ASSUME NEW t \in Threads, Flag!Call(t) PROVE FlagInv'
  BY <1>1, FlagBystander DEF Flag!Call
<1>2. ASSUME NEW t \in Threads, Flag!Load(t) PROVE FlagInv'
  <2>1. word \in {"unlocked", "locked"}
    BY DEF FlagInv, Flag!TypeOK, Flag!NeverParks
  <2>2. QED
    BY <1>2, <2>1, FlagBystander DEF Flag!Load, Flag!Goto
<1>3. ASSUME NEW t \in Threads, Flag!Claim(t) PROVE FlagInv'
  <2>1. CASE word = "unlocked"
    <3>1. Flag!Running = {} /\ ~succeeded
      BY <2>1 DEF FlagInv, Flag!LockedForAReason
    <3>2. word' = "locked" /\ pc' = [pc EXCEPT ![t] = "run"] /\ succeeded' = succeeded
      BY <1>3, <2>1 DEF Flag!Claim, Flag!Goto
    <3>3. Flag!Running' = {t}
      BY <3>1, <3>2 DEF FlagInv, Flag!TypeOK, Flag!Running
    <3>4. QED
      BY <3>1, <3>2, <3>3 DEF FlagInv, Flag!TypeOK, Flag!RunsOnce, Flag!NeverParks,
         Flag!LockedForAReason
  <2>2. CASE word # "unlocked"
    BY <1>3, <2>2, FlagBystander DEF Flag!Claim, Flag!Goto
  <2>3. QED
    BY <2>1, <2>2
<1>4. ASSUME NEW t \in Threads, Flag!Finish(t) PROVE FlagInv'
  <2>1. pc[t] = "run" /\ t \in Flag!Running
    BY <1>4 DEF Flag!Finish, Flag!Goto, Flag!Running
  <2>2. ~succeeded /\ Flag!Running = {t}
    BY <2>1 DEF FlagInv, Flag!RunsOnce
  <2>3. \E to \in {"nil", "error"} : pc' = [pc EXCEPT ![t] = to]
    BY <1>4 DEF Flag!Finish, Flag!Goto
  <2>4. Flag!Running' = {}
    BY <2>2, <2>3 DEF FlagInv, Flag!TypeOK, Flag!Running
  <2>5. Flag!TypeOK' /\ Flag!NeverParks'
    BY <1>4, <2>3 DEF Flag!Finish, Flag!Goto, FlagInv, Flag!TypeOK, Flag!NeverParks
  <2>6. Flag!RunsOnce' /\ Flag!LockedForAReason'
    BY <1>4, <2>2, <2>4 DEF Flag!Finish, Flag!Goto, Flag!RunsOnce, Flag!LockedForAReason
  <2>7. QED
    BY <2>5, <2>6 DEF FlagInv
<1>5. CASE UNCHANGED Flag!vars
  BY <1>5 DEF Flag!vars, FlagInv, Flag!TypeOK, Flag!RunsOnce, Flag!NeverParks,
     Flag!LockedForAReason, Flag!Running
<1>6. QED
  BY <1>1, <1>2, <1>3, <1>4, <1>5 DEF Flag!Next, Flag!Run

(* The inductive invariant. *)
THEOREM FlagInvariance == Flag!Spec => []FlagInv
BY FlagInitInv, FlagStepInv, PTL DEF Flag!Spec

(* fn runs in one goroutine at a time and not again after a success        *)
(* (once.go:49), the flag is locked only for a reason (once.go:85), and Do *)
(* never parks (once.go:68).                                               *)
THEOREM Once == Flag!Spec => [](Flag!RunsOnce /\ Flag!LockedForAReason /\ Flag!NeverParks)
<1>1. FlagInv => Flag!RunsOnce /\ Flag!LockedForAReason /\ Flag!NeverParks
  BY DEF FlagInv
<1>2. QED
  BY <1>1, FlagInvariance, PTL

-----------------------------------------------------------------------------
(* SeqLock, which needs no lot either. *)

CONSTANTS Writers, Readers, SeqModulus

VARIABLES sequence, cells, token, got

Sq == INSTANCE SeqLock

(* The number comes round: the arithmetic of one step up and one down, for *)
(* a number of two halves.                                                 *)
LEMMA ComesRound ==
    ASSUME Sq!SeqAssumption, NEW s \in Sq!Numbers
    PROVE  /\ (s + 1) % SeqModulus = IF s + 1 = SeqModulus THEN 0 ELSE s + 1
           /\ s > 0 => (s - 1) % SeqModulus = s - 1
           /\ s % 2 = 0 => s + 1 < SeqModulus
  <1>1. SeqModulus \in Nat /\ SeqModulus > 0 /\ s \in 0 .. SeqModulus - 1 /\ SeqModulus % 2 = 0
    BY DEF Sq!SeqAssumption, Sq!Numbers
  <1>2. ASSUME NEW k \in 0 .. SeqModulus - 1 PROVE k % SeqModulus = k
    BY <1>1, <1>2, SMT
  <1>3. SeqModulus % SeqModulus = 0
    BY <1>1, SMT
  <1>4. CASE s + 1 = SeqModulus
    BY <1>1, <1>2, <1>3, <1>4
  <1>5. CASE s + 1 # SeqModulus
    BY <1>1, <1>2, <1>5
  <1> QED BY <1>4, <1>5

(* The version a number stands for: the same for an even number and the    *)
(* odd one after it, the next one after that.                              *)
LEMMA VersionOf ==
    ASSUME Sq!SeqAssumption, NEW s \in Sq!Numbers
    PROVE  /\ s \div 2 \in Sq!Versions
           /\ s % 2 \in {0, 1}
           /\ s % 2 = 0 => /\ (s + 1) % SeqModulus = s + 1 /\ s + 1 \in Sq!Numbers
                           /\ (s + 1) % 2 = 1 /\ (s + 1) \div 2 = s \div 2
           /\ s % 2 = 1 => /\ (s - 1) % SeqModulus = s - 1 /\ s - 1 \in Sq!Numbers
                           /\ (s - 1) % 2 = 0 /\ (s - 1) \div 2 = s \div 2
                           /\ (s + 1) % SeqModulus \in Sq!Numbers
                           /\ ((s + 1) % SeqModulus) % 2 = 0
                           /\ ((s + 1) % SeqModulus) \div 2 =
                                 (s \div 2 + 1) % (SeqModulus \div 2)
  <1>1. SeqModulus \in Nat /\ SeqModulus > 0 /\ s \in 0 .. SeqModulus - 1 /\ SeqModulus % 2 = 0
    BY DEF Sq!SeqAssumption, Sq!Numbers
  <1>2. s \div 2 \in Sq!Versions /\ s % 2 \in {0, 1}
    BY <1>1 DEF Sq!Versions
  <1>3. CASE s % 2 = 0
    BY <1>1, <1>2, <1>3, ComesRound DEF Sq!Numbers
  <1>4. CASE s % 2 = 1
    <2>1. (s - 1) % SeqModulus = s - 1 /\ s - 1 \in Sq!Numbers
          /\ (s - 1) % 2 = 0 /\ (s - 1) \div 2 = s \div 2
      <3>1. s > 0 /\ s - 1 \in 0 .. SeqModulus - 1
            /\ (s - 1) % 2 = 0 /\ (s - 1) \div 2 = s \div 2
        BY <1>1, <1>4
      <3> QED BY <3>1, ComesRound DEF Sq!Numbers
    <2>2. CASE s + 1 = SeqModulus
      <3>1. (s + 1) % SeqModulus = 0
        BY <2>2, ComesRound
      <3>2. s \div 2 + 1 = SeqModulus \div 2
        BY <1>1, <1>4, <2>2
      <3>3. SeqModulus \div 2 \in Nat /\ SeqModulus \div 2 > 0
        BY <1>1
      <3>4. (SeqModulus \div 2) % (SeqModulus \div 2) = 0
        BY <3>3, SMT
      <3> QED BY <1>1, <1>2, <1>4, <2>1, <3>1, <3>2, <3>4 DEF Sq!Numbers
    <2>3. CASE s + 1 # SeqModulus
      <3>1. (s + 1) % SeqModulus = s + 1
        BY <2>3, ComesRound
      <3>2. (s + 1) \div 2 = s \div 2 + 1 /\ (s + 1) % 2 = 0
        BY <1>1, <1>4
      <3>3. s \div 2 + 1 \in 0 .. SeqModulus \div 2 - 1
        BY <1>1, <1>4, <2>3
      <3>4. ASSUME NEW m \in Nat, NEW k \in 0 .. m - 1 PROVE k % m = k
        BY <3>4, SMT
      <3>5. SeqModulus \div 2 \in Nat
        BY <1>1
      <3>6. (s \div 2 + 1) % (SeqModulus \div 2) = s \div 2 + 1
        BY <3>3, <3>4, <3>5
      <3> QED BY <1>1, <1>2, <1>4, <2>1, <2>3, <3>1, <3>2, <3>6 DEF Sq!Numbers
    <2> QED BY <2>2, <2>3
  <1> QED BY <1>2, <1>3, <1>4

(* The number's version, and the one a write makes. *)
This == sequence \div 2
Made == (This + 1) % (SeqModulus \div 2)

SeqPCs == {"idle", "lock", "swap", "write1", "write2", "publish", "begin", "read1", "read2",
           "end", "valid"}

(* What the data is, by how far the writer that has the lock has got. *)
CellsFollow ==
    /\ Sq!Holding = {} => cells[1] = This /\ cells[2] = This
    /\ \A w \in Sq!Holding :
          /\ cells[1] = IF pc[w] = "write1" THEN This ELSE Made
          /\ cells[2] = IF pc[w] = "publish" THEN Made ELSE This

(* Nothing was written since r began to read: the number is still r's, or a*)
(* writer has made it odd and has not written.                             *)
Untouched(r) ==
    \/ sequence = token[r]
    \/ sequence = token[r] + 1 /\ \A w \in Sq!Holding : pc[w] = "write1"

(* What r has read is r's version, as long as nothing was written: the     *)
(* number cannot come back to r's once something was.                      *)
ReaderFollows(r) ==
    /\ token[r] % 2 = 0
    /\ Untouched(r) /\ pc[r] \in {"read2", "end"} => got[r][1] = token[r] \div 2
    /\ Untouched(r) /\ pc[r] = "end" => got[r][2] = token[r] \div 2
    /\ pc[r] = "valid" => got[r][1] = token[r] \div 2 /\ got[r][2] = token[r] \div 2

ReadersFollow == \A r \in Sq!Reading : ReaderFollows(r)

SeqIInv ==
    /\ pc \in [Writers \cup Readers -> SeqPCs]
    /\ Sq!SeqTypeOK
    /\ Sq!OneWrites
    /\ \A w \in Writers : pc[w] = "swap" => token[w] % 2 = 0
    /\ CellsFollow
    /\ ReadersFollow

LEMMA SeqInitInv ==
    ASSUME Sq!SeqAssumption
    PROVE  Sq!SeqInit => SeqIInv
  <1> SUFFICES ASSUME Sq!SeqInit PROVE SeqIInv
    OBVIOUS
  <1> USE DEF Sq!SeqInit
  <1>1. 0 \in Sq!Numbers /\ 0 \in Sq!Versions /\ 0 % 2 = 0 /\ 0 \div 2 = 0
    BY DEF Sq!SeqAssumption, Sq!Numbers, Sq!Versions
  <1>2. Sq!Holding = {} /\ Sq!Reading = {}
    BY DEF Sq!Holding, Sq!Reading
  <1>3. Sq!SeqTypeOK
    BY <1>1 DEF Sq!SeqTypeOK
  <1>4. Sq!OneWrites
    BY <1>1, <1>2 DEF Sq!OneWrites, Sq!seqIsUpdating
  <1>5. CellsFollow /\ ReadersFollow
    BY <1>1, <1>2 DEF CellsFollow, ReadersFollow, This
  <1> QED BY <1>1, <1>3, <1>4, <1>5 DEF SeqIInv, SeqPCs

(* A step that leaves the number and the data alone and lets nobody into   *)
(* the lock or out of it: what it does to readers is left to show.         *)
LEMMA NobodyWrites ==
    ASSUME Sq!SeqAssumption, SeqIInv, UNCHANGED <<sequence, cells>>,
           NEW t \in Writers \cup Readers, NEW to \in SeqPCs,
           pc' = [pc EXCEPT ![t] = to],
           t \in Writers => /\ pc[t] \in {"idle", "lock", "swap"}
                            /\ to \in {"idle", "lock", "swap"},
           t \in Readers => to \in {"idle", "begin", "read1", "read2", "end", "valid"},
           token' \in [Writers \cup Readers -> Sq!Numbers],
           \A w \in Writers : pc'[w] = "swap" => token'[w] % 2 = 0,
           got' \in [Readers -> [1..2 -> Sq!Versions]],
           \A r \in Readers \ {t} : token'[r] = token[r] /\ got'[r] = got[r],
           t \in Readers /\ to \in {"read1", "read2", "end", "valid"} => ReaderFollows(t)'
    PROVE  SeqIInv'
  <1> USE DEF SeqIInv
  <1>1. Sq!Holding' = Sq!Holding /\ \A w \in Sq!Holding : pc'[w] = pc[w]
    BY DEF Sq!Holding, Sq!SeqTypeOK, Sq!SeqAssumption
  <1>2. pc' \in [Writers \cup Readers -> SeqPCs] /\ Sq!SeqTypeOK'
    BY DEF Sq!SeqTypeOK, Sq!SeqAssumption, Sq!Numbers, Sq!Versions
  <1>3. Sq!OneWrites' /\ CellsFollow'
    BY <1>1 DEF Sq!OneWrites, Sq!seqIsUpdating, CellsFollow, This, Made
  <1>4. \A r \in Readers \ {t} : Untouched(r)' <=> Untouched(r)
    BY <1>1 DEF Untouched
  <1>5. ReadersFollow'
    <2> SUFFICES ASSUME NEW r \in Sq!Reading' PROVE ReaderFollows(r)'
      BY DEF ReadersFollow
    <2>1. r \in Readers /\ pc'[r] \in {"read1", "read2", "end", "valid"}
      BY DEF Sq!Reading
    <2>2. CASE r = t
      BY <2>1, <2>2
    <2>3. CASE r # t
      <3>1. pc'[r] = pc[r] /\ r \in Sq!Reading
        BY <2>1, <2>3 DEF Sq!Reading
      <3> QED BY <1>4, <2>1, <2>3, <3>1 DEF ReadersFollow, ReaderFollows
    <2> QED BY <2>2, <2>3
  <1> QED BY <1>2, <1>3, <1>5

(* A step of a writer: readers stay where they are, and no number that one *)
(* of them has left behind comes back.                                     *)
LEMMA ReadersWatch ==
    ASSUME Sq!SeqAssumption, SeqIInv, NEW w \in Writers, NEW to, pc' = [pc EXCEPT ![w] = to],
           got' = got, \A r \in Readers : token'[r] = token[r],
           \A r \in Sq!Reading : token[r] % 2 = 0 => (Untouched(r)' => Untouched(r))
    PROVE  ReadersFollow'
  <1> SUFFICES ASSUME NEW r \in Sq!Reading' PROVE ReaderFollows(r)'
    BY DEF ReadersFollow
  <1>1. r \in Readers /\ r # w /\ pc'[r] = pc[r] /\ r \in Sq!Reading
    BY DEF Sq!Reading, SeqIInv, Sq!SeqAssumption
  <1> QED BY <1>1 DEF ReadersFollow, ReaderFollows, SeqIInv

(* The swap: the number becomes odd, and the writer has the lock. *)
LEMMA SwapInv ==
    ASSUME Sq!SeqAssumption, SeqIInv, NEW w \in Writers, Sq!SwapOdd(w)
    PROVE  SeqIInv'
  <1> USE DEF SeqIInv
  <1>1. 0 \in Sq!Numbers /\ sequence \in Sq!Numbers /\ token[w] \in Sq!Numbers
        /\ sequence \in Int
    BY DEF Sq!SeqTypeOK, Sq!Numbers, Sq!SeqAssumption
  <1>2. /\ token' \in [Writers \cup Readers -> Sq!Numbers]
        /\ \A r \in Readers : token'[r] = token[r]
        /\ \A x \in Writers \ {w} : token'[x] = token[x]
        /\ cells' = cells /\ got' = got
    BY <1>1 DEF Sq!SwapOdd, Sq!SeqTypeOK, Sq!SeqAssumption
  <1>3. CASE sequence # token[w]
    <2>1. pc' = [pc EXCEPT ![w] = "lock"] /\ pc[w] = "swap" /\ sequence' = sequence
      BY <1>3 DEF Sq!SwapOdd, Sq!Goto
    <2>2. \A x \in Writers : pc'[x] = "swap" => token'[x] % 2 = 0
      BY <1>2, <2>1
    <2>3. w \notin Readers
      BY DEF Sq!SeqAssumption
    <2> QED BY <1>2, <2>1, <2>2, <2>3, NobodyWrites DEF Sq!SeqTypeOK, SeqPCs
  <1>4. CASE sequence = token[w]
    <2>1. /\ pc' = [pc EXCEPT ![w] = "write1"] /\ pc[w] = "swap"
          /\ sequence' = (sequence + 1) % SeqModulus /\ sequence % 2 = 0
      BY <1>4 DEF Sq!SwapOdd, Sq!Goto
    <2>2. sequence' = sequence + 1 /\ sequence' \in Sq!Numbers /\ sequence' % 2 = 1
          /\ This' = This
      BY <1>1, <2>1, VersionOf DEF This
    <2>3. Made' = Made
      BY <2>2 DEF Made
    <2>4. Sq!Holding = {}
      BY <2>1 DEF Sq!OneWrites, Sq!seqIsUpdating
    <2>5. Sq!Holding' = {w} /\ pc'[w] = "write1"
      BY <2>1, <2>4 DEF Sq!Holding
    <2>6. Sq!OneWrites' /\ CellsFollow'
      BY <1>2, <2>1, <2>2, <2>3, <2>4, <2>5 DEF Sq!OneWrites, Sq!seqIsUpdating, CellsFollow
    <2>7. ASSUME NEW r \in Sq!Reading, token[r] % 2 = 0, Untouched(r)' PROVE Untouched(r)
      <3>1. r \in Readers /\ token[r] \in Int /\ token'[r] = token[r]
        BY <1>2 DEF Sq!Reading, Sq!SeqTypeOK, Sq!Numbers
      <3>2. sequence' # token[r]
        BY <2>2, <2>7
      <3> QED BY <1>1, <2>2, <2>7, <3>1, <3>2 DEF Untouched
    <2>8. ReadersFollow'
      BY <1>2, <2>1, <2>7, ReadersWatch
    <2>9. Sq!SeqTypeOK' /\ pc' \in [Writers \cup Readers -> SeqPCs]
      BY <1>2, <2>1, <2>2 DEF Sq!SeqTypeOK, SeqPCs, Sq!SeqAssumption, Sq!Versions
    <2> QED BY <1>2, <2>1, <2>6, <2>8, <2>9
  <1> QED BY <1>3, <1>4

(* The writer that has the lock is alone in it. *)
LEMMA AloneWriting ==
    ASSUME SeqIInv, NEW w \in Writers, pc[w] \in {"write1", "write2", "publish"}
    PROVE  Sq!Holding = {w} /\ sequence % 2 = 1
  <1>1. w \in Sq!Holding
    BY DEF Sq!Holding
  <1> QED BY <1>1 DEF SeqIInv, Sq!OneWrites, Sq!seqIsUpdating

LEMMA AbandonInv ==
    ASSUME Sq!SeqAssumption, SeqIInv, NEW w \in Writers, Sq!AbandonWrite(w)
    PROVE  SeqIInv'
  <1> USE DEF SeqIInv
  <1>1. /\ pc' = [pc EXCEPT ![w] = "idle"] /\ pc[w] = "write1"
        /\ sequence' = (sequence - 1) % SeqModulus /\ UNCHANGED <<cells, token, got>>
    BY DEF Sq!AbandonWrite, Sq!Goto
  <1>2. Sq!Holding = {w} /\ sequence % 2 = 1 /\ sequence \in Sq!Numbers /\ sequence \in Int
    BY <1>1, AloneWriting DEF Sq!SeqTypeOK, Sq!Numbers, Sq!SeqAssumption
  <1>3. sequence' = sequence - 1 /\ sequence' \in Sq!Numbers /\ sequence' % 2 = 0
        /\ This' = This
    BY <1>1, <1>2, VersionOf DEF This
  <1>4. Sq!Holding' = {}
    BY <1>1, <1>2 DEF Sq!Holding
  <1>5. Sq!OneWrites' /\ CellsFollow'
    BY <1>1, <1>2, <1>3, <1>4 DEF Sq!OneWrites, Sq!seqIsUpdating, CellsFollow
  <1>6. ASSUME NEW r \in Sq!Reading, token[r] % 2 = 0, Untouched(r)' PROVE Untouched(r)
    <2>1. r \in Readers /\ token[r] \in Int
      BY DEF Sq!Reading, Sq!SeqTypeOK, Sq!Numbers
    <2>2. sequence' = token[r]
      BY <1>1, <1>3, <1>6, <2>1 DEF Untouched
    <2> QED BY <1>1, <1>2, <1>3, <2>1, <2>2 DEF Untouched
  <1>7. ReadersFollow'
    BY <1>1, <1>6, ReadersWatch
  <1>8. Sq!SeqTypeOK' /\ pc' \in [Writers \cup Readers -> SeqPCs]
    BY <1>1, <1>3 DEF Sq!SeqTypeOK, SeqPCs, Sq!SeqAssumption, Sq!Versions
  <1> QED BY <1>1, <1>5, <1>7, <1>8

LEMMA WriteInv ==
    ASSUME Sq!SeqAssumption, SeqIInv, NEW w \in Writers, NEW i \in 1..2, Sq!WriteCell(w, i)
    PROVE  SeqIInv'
  <1> USE DEF SeqIInv
  <1>1. PICK to \in {"write2", "publish"} :
            /\ pc' = [pc EXCEPT ![w] = to]
            /\ \/ pc[w] = "write1" /\ i = 1 /\ to = "write2"
               \/ pc[w] = "write2" /\ i = 2 /\ to = "publish"
    BY DEF Sq!WriteCell, Sq!Goto
  <1>2. cells' = [cells EXCEPT ![i] = (cells[i] + 1) % (SeqModulus \div 2)]
        /\ UNCHANGED <<sequence, token, got>>
    BY DEF Sq!WriteCell
  <1>3. Sq!Holding = {w} /\ sequence % 2 = 1 /\ sequence \in Sq!Numbers /\ sequence \in Int
    BY <1>1, AloneWriting DEF Sq!SeqTypeOK, Sq!Numbers, Sq!SeqAssumption
  <1>4. Sq!Holding' = {w} /\ pc'[w] = to
    BY <1>1, <1>3 DEF Sq!Holding
  <1>5. cells[i] = This /\ cells \in [1..2 -> Sq!Versions] /\ w \in Sq!Holding
    BY <1>1, <1>3 DEF CellsFollow, Sq!SeqTypeOK
  <1>6. cells'[i] = Made /\ Made \in Sq!Versions /\ \A j \in 1..2 \ {i} : cells'[j] = cells[j]
    <2>1. Made \in Sq!Versions
      <3>1. (sequence + 1) % SeqModulus \in Sq!Numbers
            /\ Made = ((sequence + 1) % SeqModulus) \div 2
        BY <1>3, VersionOf DEF Made, This
      <3> QED BY <3>1, VersionOf
    <2> QED BY <1>2, <1>5, <2>1 DEF Made
  <1>7. This' = This /\ Made' = Made
    BY <1>2 DEF This, Made
  <1>8. Sq!OneWrites' /\ CellsFollow'
    BY <1>1, <1>2, <1>3, <1>4, <1>5, <1>6, <1>7 DEF Sq!OneWrites, Sq!seqIsUpdating, CellsFollow
  <1>9. ASSUME NEW r \in Sq!Reading, token[r] % 2 = 0, Untouched(r)' PROVE Untouched(r)
    BY <1>1, <1>2, <1>4, <1>9 DEF Untouched
  <1>10. ReadersFollow'
    BY <1>1, <1>2, <1>9, ReadersWatch
  <1>11. Sq!SeqTypeOK' /\ pc' \in [Writers \cup Readers -> SeqPCs]
    BY <1>1, <1>2, <1>5, <1>6 DEF Sq!SeqTypeOK, SeqPCs, Sq!SeqAssumption, Sq!Versions
  <1> QED BY <1>1, <1>2, <1>8, <1>10, <1>11

LEMMA PublishInv ==
    ASSUME Sq!SeqAssumption, SeqIInv, NEW w \in Writers, Sq!UnlockWrite(w)
    PROVE  SeqIInv'
  <1> USE DEF SeqIInv
  <1>1. /\ pc' = [pc EXCEPT ![w] = "idle"] /\ pc[w] = "publish"
        /\ sequence' = (sequence + 1) % SeqModulus /\ UNCHANGED <<cells, token, got>>
        /\ \A r \in Sq!Reading : sequence' # token[r]
    BY DEF Sq!UnlockWrite, Sq!Goto
  <1>2. Sq!Holding = {w} /\ sequence % 2 = 1 /\ sequence \in Sq!Numbers /\ sequence \in Int
    BY <1>1, AloneWriting DEF Sq!SeqTypeOK, Sq!Numbers, Sq!SeqAssumption
  <1>3. sequence' \in Sq!Numbers /\ sequence' % 2 = 0 /\ This' = Made
    BY <1>1, <1>2, VersionOf DEF This, Made
  <1>4. Sq!Holding' = {}
    BY <1>1, <1>2 DEF Sq!Holding
  <1>5. cells[1] = Made /\ cells[2] = Made
    BY <1>1, <1>2 DEF CellsFollow
  <1>6. Sq!OneWrites' /\ CellsFollow'
    BY <1>1, <1>3, <1>4, <1>5 DEF Sq!OneWrites, Sq!seqIsUpdating, CellsFollow
  <1>7. ASSUME NEW r \in Sq!Reading, token[r] % 2 = 0, Untouched(r)' PROVE Untouched(r)
    <2>1. r \in Readers /\ token[r] \in Int /\ sequence' \in Int
      BY <1>3 DEF Sq!Reading, Sq!SeqTypeOK, Sq!Numbers, Sq!SeqAssumption
    <2> QED BY <1>1, <1>3, <1>7, <2>1 DEF Untouched
  <1>8. ReadersFollow'
    BY <1>1, <1>7, ReadersWatch
  <1>9. Sq!SeqTypeOK' /\ pc' \in [Writers \cup Readers -> SeqPCs]
    BY <1>1, <1>3 DEF Sq!SeqTypeOK, SeqPCs, Sq!SeqAssumption, Sq!Versions
  <1> QED BY <1>1, <1>6, <1>8, <1>9

(* What a reader finds as long as nothing was written since it began. *)
LEMMA FindsItsVersion ==
    ASSUME Sq!SeqAssumption, SeqIInv, NEW r \in Sq!Reading, Untouched(r)
    PROVE  cells[1] = token[r] \div 2 /\ cells[2] = token[r] \div 2
  <1>1. r \in Readers /\ token[r] \in Sq!Numbers /\ sequence \in Sq!Numbers /\ token[r] % 2 = 0
    BY DEF SeqIInv, ReadersFollow, ReaderFollows, Sq!Reading, Sq!SeqTypeOK
  <1>2. CASE sequence = token[r]
    <2>1. Sq!Holding = {}
      BY <1>1, <1>2 DEF SeqIInv, Sq!OneWrites, Sq!seqIsUpdating
    <2> QED BY <1>2, <2>1 DEF SeqIInv, CellsFollow, This
  <1>3. CASE sequence = token[r] + 1 /\ \A w \in Sq!Holding : pc[w] = "write1"
    <2>1. sequence % 2 = 1 /\ This = token[r] \div 2
      BY <1>1, <1>3, VersionOf DEF This
    <2>2. PICK w \in Sq!Holding : pc[w] = "write1"
      BY <1>3, <2>1 DEF SeqIInv, Sq!OneWrites, Sq!seqIsUpdating
    <2> QED BY <2>1, <2>2 DEF SeqIInv, CellsFollow
  <1> QED BY <1>2, <1>3 DEF Untouched

(* The steps that read or only load the number. *)
LEMMA ReadersInv ==
    ASSUME Sq!SeqAssumption, SeqIInv,
           \/ \E t \in Writers \cup Readers : Sq!Call(t) \/ Sq!LoadEven(t)
           \/ \E r \in Readers : Sq!EndRead(r) \/ Sq!DropRead(r) \/ \E i \in 1..2 : Sq!ReadCell(r, i)
    PROVE  SeqIInv'
  <1> USE DEF Sq!Goto, SeqPCs
  <1>0. /\ pc \in [Writers \cup Readers -> SeqPCs]
        /\ token \in [Writers \cup Readers -> Sq!Numbers]
        /\ got \in [Readers -> [1..2 -> Sq!Versions]]
        /\ sequence \in Sq!Numbers
        /\ \A w \in Writers : pc[w] = "swap" => token[w] % 2 = 0
    BY DEF SeqIInv, Sq!SeqTypeOK
  <1>1. Writers \cap Readers = {} /\ 0 \in Sq!Numbers /\ 0 \in Sq!Versions
    BY DEF Sq!SeqAssumption, Sq!Numbers, Sq!Versions
  <1>2. ASSUME NEW t \in Writers \cup Readers, Sq!Call(t) PROVE SeqIInv'
    <2>1. UNCHANGED <<sequence, cells, token, got>> /\ pc[t] = "idle"
      BY <1>2 DEF Sq!Call
    <2>2. CASE t \in Writers
      <3>1. pc' = [pc EXCEPT ![t] = "lock"] /\ t \notin Readers
        BY <1>1, <1>2, <2>2 DEF Sq!Call
      <3>2. \A w \in Writers : pc'[w] = "swap" => token'[w] % 2 = 0
        BY <1>0, <2>1, <3>1
      <3> QED BY <1>0, <2>1, <3>1, <3>2, NobodyWrites
    <2>3. CASE t \notin Writers
      <3>1. pc' = [pc EXCEPT ![t] = "begin"]
        BY <1>2, <2>3 DEF Sq!Call
      <3>2. \A w \in Writers : pc'[w] = "swap" => token'[w] % 2 = 0
        BY <1>0, <2>1, <3>1
      <3> QED BY <1>0, <2>1, <2>3, <3>1, <3>2, NobodyWrites
    <2> QED BY <2>2, <2>3
  <1>3. ASSUME NEW t \in Writers \cup Readers, Sq!LoadEven(t) PROVE SeqIInv'
    <2>1. PICK to \in {"swap", "read1"} :
              /\ pc' = [pc EXCEPT ![t] = to] /\ pc[t] \in {"lock", "begin"}
              /\ t \in Writers <=> to = "swap"
              /\ t \in Writers <=> pc[t] = "lock"
      BY <1>3 DEF Sq!LoadEven
    <2>2. /\ UNCHANGED <<sequence, cells, got>> /\ token' = [token EXCEPT ![t] = sequence]
          /\ sequence % 2 = 0
      <3>1. sequence % 2 \in {0, 1}
        BY <1>0, VersionOf
      <3> QED BY <1>3, <3>1 DEF Sq!LoadEven, Sq!seqIsUpdating
    <2>3. \A w \in Writers : pc'[w] = "swap" => token'[w] % 2 = 0
      BY <1>0, <2>1, <2>2
    <2>4. token'[t] % 2 = 0 /\ token' \in [Writers \cup Readers -> Sq!Numbers]
      BY <1>0, <2>2
    <2>5. ASSUME t \in Readers PROVE ReaderFollows(t)'
      <3>1. pc'[t] = "read1"
        BY <1>0, <1>1, <2>1, <2>5
      <3> QED BY <2>4, <3>1 DEF ReaderFollows
    <2> QED BY <1>0, <1>1, <2>1, <2>2, <2>3, <2>4, <2>5, NobodyWrites
  <1>4. ASSUME NEW r \in Readers, NEW i \in 1..2, Sq!ReadCell(r, i) PROVE SeqIInv'
    <2>1. PICK to \in {"read2", "end"} :
              /\ pc' = [pc EXCEPT ![r] = to]
              /\ \/ pc[r] = "read1" /\ i = 1 /\ to = "read2"
                 \/ pc[r] = "read2" /\ i = 2 /\ to = "end"
      BY <1>4 DEF Sq!ReadCell
    <2>2. UNCHANGED <<sequence, cells, token>> /\ got' = [got EXCEPT ![r][i] = cells[i]]
      BY <1>4 DEF Sq!ReadCell
    <2>3. r \in Sq!Reading
      BY <2>1 DEF Sq!Reading
    <2>4. Untouched(r)' => Untouched(r)
      <3>1. Sq!Holding' = Sq!Holding /\ \A w \in Sq!Holding : pc'[w] = pc[w]
        BY <1>0, <1>1, <2>1 DEF Sq!Holding
      <3> QED BY <2>2, <3>1 DEF Untouched
    <2>5. cells \in [1..2 -> Sq!Versions] /\ cells[i] \in Sq!Versions
      BY DEF SeqIInv, Sq!SeqTypeOK
    <2>6. /\ got' \in [Readers -> [1..2 -> Sq!Versions]]
          /\ \A q \in Readers \ {r} : got'[q] = got[q]
          /\ got'[r][i] = cells[i] /\ \A j \in 1..2 \ {i} : got'[r][j] = got[r][j]
      BY <1>0, <2>2, <2>5
    <2>7. token[r] % 2 = 0 /\ (Untouched(r) /\ to = "end" => got[r][1] = token[r] \div 2)
      BY <2>1, <2>3 DEF SeqIInv, ReadersFollow, ReaderFollows
    <2>8. Untouched(r)' => /\ got'[r][1] = token[r] \div 2
                           /\ to = "end" => got'[r][2] = token[r] \div 2
      BY <2>1, <2>3, <2>4, <2>6, <2>7, FindsItsVersion
    <2>9. \A w \in Writers : pc'[w] = "swap" => token'[w] % 2 = 0
      BY <1>0, <2>1, <2>2
    <2>10. pc'[r] = to
      BY <1>0, <2>1
    <2>11. ReaderFollows(r)'
      BY <2>1, <2>2, <2>7, <2>8, <2>10 DEF ReaderFollows
    <2>12. r \notin Writers
      BY <1>1
    <2> QED BY <2>1, <2>2, <1>0, <2>6, <2>9, <2>11, <2>12, NobodyWrites
  <1>5. ASSUME NEW r \in Readers, Sq!EndRead(r) PROVE SeqIInv'
    <2>1. /\ pc[r] = "end" /\ UNCHANGED <<sequence, cells, token, got>> /\ r \in Sq!Reading
          /\ pc' = [pc EXCEPT ![r] = IF sequence = token[r] THEN "valid" ELSE "begin"]
      BY <1>5 DEF Sq!EndRead, Sq!Reading
    <2>2. token[r] % 2 = 0
          /\ (sequence = token[r] => got[r][1] = token[r] \div 2 /\ got[r][2] = token[r] \div 2)
      BY <2>1 DEF SeqIInv, ReadersFollow, ReaderFollows, Untouched
    <2>3. PICK to \in {"valid", "begin"} :
              /\ pc' = [pc EXCEPT ![r] = to]
              /\ to = "valid" => sequence = token[r]
      BY <2>1
    <2>5. ASSUME to = "valid" PROVE ReaderFollows(r)'
      BY <1>0, <2>1, <2>2, <2>3, <2>5 DEF ReaderFollows
    <2>4. \A w \in Writers : pc'[w] = "swap" => token'[w] % 2 = 0
      BY <1>0, <2>1
    <2>6. token' \in [Writers \cup Readers -> Sq!Numbers]
          /\ got' \in [Readers -> [1..2 -> Sq!Versions]]
          /\ r \notin Writers /\ UNCHANGED <<sequence, cells>>
          /\ \A q \in Readers \ {r} : token'[q] = token[q] /\ got'[q] = got[q]
      BY <1>0, <1>1, <2>1
    <2>7. to \in SeqPCs /\ (to \in {"read1", "read2", "end", "valid"} => to = "valid")
      BY <2>3
    <2> QED BY <2>3, <2>4, <2>5, <2>6, <2>7, NobodyWrites
  <1>6. ASSUME NEW r \in Readers, Sq!DropRead(r) PROVE SeqIInv'
    <2>1. /\ pc' = [pc EXCEPT ![r] = "idle"] /\ UNCHANGED <<sequence, cells>>
          /\ token' = [token EXCEPT ![r] = 0]
          /\ got' = [got EXCEPT ![r] = [i \in 1..2 |-> 0]]
      BY <1>6 DEF Sq!DropRead
    <2>2. \A w \in Writers : pc'[w] = "swap" => token'[w] % 2 = 0
      BY <1>0, <1>1, <2>1
    <2> QED BY <1>0, <1>1, <2>1, <2>2, NobodyWrites
  <1> QED BY <1>2, <1>3, <1>4, <1>5, <1>6

LEMMA SeqNextInv ==
    ASSUME Sq!SeqAssumption
    PROVE  SeqIInv /\ [Sq!SeqNext]_(Sq!seqVars) => SeqIInv'
  <1> SUFFICES ASSUME SeqIInv, [Sq!SeqNext]_(Sq!seqVars) PROVE SeqIInv'
    OBVIOUS
  <1>1. CASE UNCHANGED Sq!seqVars
    BY <1>1 DEF Sq!seqVars, SeqIInv, Sq!SeqTypeOK, Sq!OneWrites, Sq!seqIsUpdating, Sq!Holding,
       Sq!Reading, CellsFollow, ReadersFollow, ReaderFollows, Untouched, This, Made
  <1>2. CASE Sq!SeqNext
    BY <1>2, SwapInv, AbandonInv, WriteInv, PublishInv, ReadersInv DEF Sq!SeqNext
  <1> QED BY <1>1, <1>2

(* The inductive invariant. *)
THEOREM SeqInvariance ==
    ASSUME Sq!SeqAssumption
    PROVE  Sq!SeqSpec => []SeqIInv
  <1>1. Sq!SeqInit => SeqIInv
    BY SeqInitInv
  <1>2. SeqIInv /\ [Sq!SeqNext]_(Sq!seqVars) => SeqIInv'
    BY SeqNextInv
  <1> QED BY <1>1, <1>2, PTL DEF Sq!SeqSpec

(* seqlock.go:8, 74: one writer at a time has the lock, and a read that    *)
(* EndRead lets pass is one published version, for any number of writers   *)
(* and readers, of any width, also when the number comes round.            *)
THEOREM SeqCorrect ==
    ASSUME Sq!SeqAssumption
    PROVE  Sq!SeqSpec => []Sq!SeqInv
  <1>1. SeqIInv => Sq!SeqInv
    <2> SUFFICES ASSUME SeqIInv PROVE Sq!SeqInv
      OBVIOUS
    <2>1. ASSUME NEW r \in Readers, pc[r] = "valid"
          PROVE  got[r] = [i \in 1..2 |-> token[r] \div 2]
      <3>1. r \in Sq!Reading
        BY <2>1 DEF Sq!Reading
      <3>2. got[r][1] = token[r] \div 2 /\ got[r][2] = token[r] \div 2 /\ got[r] \in [1..2 -> Sq!Versions]
        BY <2>1, <3>1 DEF SeqIInv, ReadersFollow, ReaderFollows, Sq!SeqTypeOK
      <3>3. got[r] = [i \in 1..2 |-> got[r][i]] /\ \A i \in 1..2 : i = 1 \/ i = 2
        BY <3>2
      <3> QED BY <3>2, <3>3
    <2> QED BY <2>1 DEF Sq!SeqInv, SeqIInv, Sq!ValidReadsAreWhole
  <1> QED BY <1>1, SeqInvariance, PTL

-----------------------------------------------------------------------------
(* What Event and RWMutex have in common: sleepers on one address, and     *)
(* goroutines that dequeue all of them and then signal them one by one.    *)

CONSTANT Addr

VARIABLE wakees

SleepPCs == {"blocked", "timedout", "claimed"}

Claimed(t) == unparking[t] /\ pc[t] \in SleepPCs

SleepTypes ==
    /\ QueuesOK
    /\ bucketMu \in [Buckets -> Threads \cup {Nobody}]
    /\ unparking \in [Threads -> BOOLEAN] /\ notify \in [Threads -> BOOLEAN]
    /\ DOMAIN pc = Threads
    /\ wakees \in [Threads -> Seq(Threads)]

(* Who sleeps is parked or claimed, a token is for somebody claimed, and   *)
(* so is each place on the lists of those still to be signalled.           *)
OnList(w, x) == \E i \in 1 .. Len(wakees[x]) : wakees[x][i] = w

SleepersOK ==
    /\ \A t \in Threads, c \in Addrs :
          t \in ParkedOn(c) <=> c = Addr /\ pc[t] \in SleepPCs /\ ~unparking[t]
    /\ \A t \in Threads : notify[t] => Claimed(t)
    /\ \A x, w \in Threads : OnList(w, x) => Claimed(w) /\ ~notify[w]
    /\ \A x, y \in Threads : \A i \in 1 .. Len(wakees[x]), j \in 1 .. Len(wakees[y]) :
          wakees[x][i] = wakees[y][j] => x = y /\ i = j

Sleep == SleepTypes /\ SleepersOK

LEMMA WakeesType ==
    ASSUME SleepTypes, NEW x \in Threads
    PROVE  /\ wakees[x] \in Seq(Threads)
           /\ \A i \in 1 .. Len(wakees[x]) : wakees[x][i] \in Threads
  <1>1. wakees[x] \in Seq(Threads)
    BY DEF SleepTypes
  <1> QED BY <1>1, ElementOfSeq

(* A goroutine that does not sleep goes elsewhere but to sleep, or one     *)
(* that does goes on sleeping.                                             *)
LEMMA SleepStays ==
    ASSUME Sleep, NEW t \in Threads, NEW to,
           UNCHANGED <<waitq, unparking, notify, wakees>>,
           bucketMu' \in [Buckets -> Threads \cup {Nobody}],
           pc' = [pc EXCEPT ![t] = to], (pc[t] \in SleepPCs) <=> (to \in SleepPCs)
    PROVE  Sleep' /\ \A c : ParkedOn(c)' = ParkedOn(c)
  <1> USE DEF Sleep
  <1>1. QueuesOK' /\ \A c : ParkedOn(c)' = ParkedOn(c)
    BY SameQueues DEF SleepTypes
  <1>2. SleepTypes'
    BY <1>1 DEF SleepTypes
  <1>3. \A u \in Threads : (pc'[u] \in SleepPCs) <=> (pc[u] \in SleepPCs)
    BY DEF SleepTypes
  <1>4. \A u \in Threads : Claimed(u)' <=> Claimed(u)
    BY <1>3 DEF Claimed
  <1>a. \A x, w : OnList(w, x)' <=> OnList(w, x)
    BY DEF OnList
  <1>5. SleepersOK'
    <2>1. \A u \in Threads, c \in Addrs :
            u \in ParkedOn(c)' <=> c = Addr /\ pc'[u] \in SleepPCs /\ ~unparking'[u]
      BY <1>1, <1>3 DEF SleepersOK
    <2>2. \A u \in Threads : notify'[u] => Claimed(u)'
      BY <1>4 DEF SleepersOK
    <2>3. \A x, w \in Threads : OnList(w, x)' => Claimed(w)' /\ ~notify'[w]
      BY <1>4, <1>a DEF SleepersOK
    <2>4. \A x, y \in Threads : \A i \in 1 .. Len(wakees'[x]), j \in 1 .. Len(wakees'[y]) :
             wakees'[x][i] = wakees'[y][j] => x = y /\ i = j
      BY DEF SleepersOK
    <2> QED BY <2>1, <2>2, <2>3, <2>4 DEF SleepersOK
  <1> QED BY <1>1, <1>2, <1>5

LEMMA SleepEnqueue ==
    ASSUME Sleep, Addr \in Addrs, NEW t \in Threads, Enqueue(t, Addr),
           UNCHANGED wakees, pc[t] \notin SleepPCs, pc' = [pc EXCEPT ![t] = "blocked"]
    PROVE  /\ Sleep'
           /\ \A c \in Addrs : ParkedOn(c)' = ParkedOn(c) \cup (IF c = Addr THEN {t} ELSE {})
  <1> USE DEF Sleep
  <1>1. \A c \in Addrs : t \notin ParkedOn(c)
    BY DEF SleepersOK
  <1>2. /\ QueuesOK'
        /\ \A c \in Addrs : ParkedOn(c)' = ParkedOn(c) \cup (IF c = Addr THEN {t} ELSE {})
    BY <1>1, EnqueueEffect DEF SleepTypes
  <1>3. /\ unparking' = [unparking EXCEPT ![t] = FALSE] /\ notify' = [notify EXCEPT ![t] = FALSE]
        /\ bucketMu' = [bucketMu EXCEPT ![BucketOf[Addr]] = Nobody]
    BY DEF Enqueue
  <1>4. SleepTypes'
    <2>1. DOMAIN pc' = Threads
      BY DEF SleepTypes
    <2>2. bucketMu' \in [Buckets -> Threads \cup {Nobody}]
      BY <1>3 DEF SleepTypes
    <2> QED BY <1>2, <1>3, <2>1, <2>2 DEF SleepTypes
  <1>5. \A u \in Threads : u # t => (Claimed(u)' <=> Claimed(u)) /\ notify'[u] = notify[u]
    BY <1>3 DEF SleepTypes, Claimed
  <1>6. \A x \in Threads : ~OnList(t, x)
    BY DEF SleepersOK, Claimed
  <1>7. \A u \in Threads, c \in Addrs :
            u \in ParkedOn(c)' <=> c = Addr /\ pc'[u] \in SleepPCs /\ ~unparking'[u]
    BY <1>2, <1>3 DEF SleepTypes, SleepersOK, SleepPCs
  <1>8. ~notify'[t]
    BY <1>3 DEF SleepTypes
  <1>a. \A x, w : OnList(w, x)' <=> OnList(w, x)
    BY DEF OnList
  <1>9. SleepersOK'
    BY <1>5, <1>6, <1>7, <1>8, <1>a DEF SleepersOK
  <1> QED BY <1>2, <1>4, <1>9

LEMMA SleepWoken ==
    ASSUME Sleep, NEW t \in Threads, NEW to, to \notin SleepPCs, Wake(t),
           UNCHANGED wakees, pc' = [pc EXCEPT ![t] = to]
    PROVE  Sleep' /\ \A c : ParkedOn(c)' = ParkedOn(c)
  <1> USE DEF Sleep
  <1>1. /\ QueuesOK' /\ \A c : ParkedOn(c)' = ParkedOn(c)
        /\ notify[t] /\ notify' = [notify EXCEPT ![t] = FALSE]
        /\ UNCHANGED <<bucketMu, unparking>>
    BY SameQueues DEF SleepTypes, Wake
  <1>2. SleepTypes'
    BY <1>1 DEF SleepTypes
  <1>3. Claimed(t) /\ unparking[t]
    BY <1>1 DEF SleepersOK, Claimed
  <1>4. \A x \in Threads : ~OnList(t, x)
    BY <1>1 DEF SleepersOK
  <1>5. \A u \in Threads : u # t => (Claimed(u)' <=> Claimed(u)) /\ notify'[u] = notify[u]
    BY <1>1 DEF SleepTypes, Claimed
  <1>6. \A u \in Threads, c \in Addrs :
            u \in ParkedOn(c)' <=> c = Addr /\ pc'[u] \in SleepPCs /\ ~unparking'[u]
    BY <1>1, <1>3 DEF SleepTypes, SleepersOK
  <1>7. ~notify'[t]
    BY <1>1 DEF SleepTypes
  <1>a. \A x, w : OnList(w, x)' <=> OnList(w, x)
    BY DEF OnList
  <1>8. SleepersOK'
    <2>1. \A u \in Threads, c \in Addrs :
            u \in ParkedOn(c)' <=> c = Addr /\ pc'[u] \in SleepPCs /\ ~unparking'[u]
      BY <1>6 DEF SleepersOK
    <2>2. \A u \in Threads : notify'[u] => Claimed(u)'
      BY <1>5, <1>7 DEF SleepersOK
    <2>3. \A x, w \in Threads : OnList(w, x)' => Claimed(w)' /\ ~notify'[w]
      BY <1>4, <1>5, <1>a DEF SleepersOK
    <2>4. \A x, y \in Threads : \A i \in 1 .. Len(wakees'[x]), j \in 1 .. Len(wakees'[y]) :
             wakees'[x][i] = wakees'[y][j] => x = y /\ i = j
      BY DEF SleepersOK
    <2> QED BY <2>1, <2>2, <2>3, <2>4 DEF SleepersOK
  <1> QED BY <1>1, <1>2, <1>8

LEMMA SleepTimedOut ==
    ASSUME Sleep, Addr \in Addrs, NEW t \in Threads, NEW to, to \notin SleepPCs,
           RemoveTimedOut(t, Addr), UNCHANGED wakees, pc' = [pc EXCEPT ![t] = to]
    PROVE  Sleep' /\ \A c \in Addrs : ParkedOn(c)' \subseteq ParkedOn(c)
  <1> USE DEF Sleep
  <1>1. /\ QueuesOK' /\ ~unparking[t] /\ UNCHANGED <<bucketMu, unparking, notify>>
        /\ \A c \in Addrs : ParkedOn(c)' = ParkedOn(c) \ (IF c = Addr THEN {t} ELSE {})
    BY RemoveTimedOutEffect DEF SleepTypes, RemoveTimedOut
  <1>2. SleepTypes'
    BY <1>1 DEF SleepTypes
  <1>3. \A x \in Threads : ~OnList(t, x)
    BY <1>1 DEF SleepersOK, Claimed
  <1>4. \A u \in Threads : u # t => (Claimed(u)' <=> Claimed(u))
    BY <1>1 DEF SleepTypes, Claimed
  <1>5. \A u \in Threads, c \in Addrs :
            u \in ParkedOn(c)' <=> c = Addr /\ pc'[u] \in SleepPCs /\ ~unparking'[u]
    <2> TAKE u \in Threads, c \in Addrs
    <2>1. CASE u = t
      BY <1>1, <2>1 DEF SleepTypes, SleepersOK
    <2>2. CASE u # t
      BY <1>1, <2>2 DEF SleepTypes, SleepersOK
    <2> QED BY <2>1, <2>2
  <1>6. ~notify[t]
    BY <1>1 DEF SleepersOK, Claimed
  <1>a. \A x, w : OnList(w, x)' <=> OnList(w, x)
    BY DEF OnList
  <1>7. SleepersOK'
    <2>1. \A u \in Threads, c \in Addrs :
            u \in ParkedOn(c)' <=> c = Addr /\ pc'[u] \in SleepPCs /\ ~unparking'[u]
      BY <1>5 DEF SleepersOK
    <2>2. \A u \in Threads : notify'[u] => Claimed(u)'
      BY <1>1, <1>4, <1>6 DEF SleepersOK
    <2>3. \A x, w \in Threads : OnList(w, x)' => Claimed(w)' /\ ~notify'[w]
      BY <1>1, <1>3, <1>4, <1>a DEF SleepersOK
    <2>4. \A x, y \in Threads : \A i \in 1 .. Len(wakees'[x]), j \in 1 .. Len(wakees'[y]) :
             wakees'[x][i] = wakees'[y][j] => x = y /\ i = j
      BY DEF SleepersOK
    <2> QED BY <2>1, <2>2, <2>3, <2>4 DEF SleepersOK
  <1> QED BY <1>1, <1>2, <1>7

LEMMA SleepUnparked ==
    ASSUME Sleep, Addr \in Addrs, NEW t \in Threads, NEW to,
           (pc[t] \in SleepPCs) <=> (to \in SleepPCs), pc' = [pc EXCEPT ![t] = to],
           DequeueAll(Addr), NEW ws \in Picked(Queue(Addr), WaitersOn(Addr)),
           wakees' = [wakees EXCEPT ![t] = [i \in DOMAIN ws |-> ws[i].thr]]
    PROVE  /\ Sleep'
           /\ \A c \in Addrs : ParkedOn(c)' = {}
           /\ (ws = << >>) <=> (wakees'[t] = << >>)
  <1> USE DEF Sleep
  <1>0. PICK gone : gone = [i \in DOMAIN ws |-> ws[i].thr]
    OBVIOUS
  <1>1. /\ UNCHANGED <<bucketMu, notify>>
        /\ unparking' = [u \in Threads |-> u \in ParkedOn(Addr) \/ unparking[u]]
    BY DEF DequeueAll
  <1>2. /\ QueuesOK'
        /\ \A c \in Addrs : ParkedOn(c)' = IF c = Addr THEN {} ELSE ParkedOn(c)
    BY DequeueAllEffect DEF SleepTypes
  <1>3. \A c \in Addrs : ParkedOn(c)' = {}
    BY <1>2 DEF SleepersOK, ParkedOn
  <1>4. /\ gone \in Seq(Threads) /\ ((ws = << >>) <=> gone = << >>)
        /\ \A i \in 1 .. Len(gone) : gone[i] \in ParkedOn(Addr) /\ gone[i] \in Threads
        /\ \A i, j \in 1 .. Len(gone) : i # j => gone[i] # gone[j]
    <2>1. /\ gone \in Seq(Threads) /\ Len(gone) = Len(ws)
          /\ ((ws = << >>) <=> Len(gone) = 0)
          /\ \A i \in 1 .. Len(gone) : gone[i] \in ParkedOn(Addr)
          /\ \A i, j \in 1 .. Len(gone) : i # j => gone[i] # gone[j]
      <3>1. QueuesOK
        BY DEF SleepTypes
      <3> QED BY <1>0, <3>1, DequeuedThreads
    <2>2. (Len(gone) = 0) <=> gone = << >>
      BY <2>1, EmptySeq
    <2>3. \A i \in 1 .. Len(gone) : gone[i] \in Threads
      BY <2>1, ElementOfSeq
    <2> QED BY <2>1, <2>2, <2>3
  <1>5. wakees' = [wakees EXCEPT ![t] = gone]
    BY <1>0
  <1>6. SleepTypes' /\ wakees'[t] = gone /\ \A x \in Threads : x # t => wakees'[x] = wakees[x]
    <2>1. /\ wakees' \in [Threads -> Seq(Threads)] /\ wakees'[t] = gone
          /\ \A x \in Threads : x # t => wakees'[x] = wakees[x]
      <3>1. gone \in Seq(Threads) /\ wakees \in [Threads -> Seq(Threads)]
        BY <1>4 DEF SleepTypes
      <3> QED BY <1>5, <3>1
    <2>2. unparking' \in [Threads -> BOOLEAN] /\ DOMAIN pc' = Threads
      BY <1>1 DEF SleepTypes
    <2> QED BY <1>1, <1>2, <2>1, <2>2 DEF SleepTypes
  <1>7. \A u \in Threads : /\ (pc'[u] \in SleepPCs) <=> (pc[u] \in SleepPCs)
                           /\ unparking'[u] <=> u \in ParkedOn(Addr) \/ unparking[u]
    BY <1>1 DEF SleepTypes
  <1>8. /\ \A u \in Threads : Claimed(u) => Claimed(u)'
        /\ \A u \in ParkedOn(Addr) : u \in Threads => Claimed(u)' /\ ~Claimed(u)
    BY <1>7 DEF Claimed, SleepersOK
  <1>9. \A u \in Threads, c \in Addrs :
            u \in ParkedOn(c)' <=> c = Addr /\ pc'[u] \in SleepPCs /\ ~unparking'[u]
    BY <1>3, <1>7 DEF SleepersOK
  <1>10. \A u \in Threads : notify'[u] => Claimed(u)'
    BY <1>1, <1>8 DEF SleepersOK
  <1>11. ASSUME NEW x \in Threads, NEW w \in Threads, OnList(w, x)'
         PROVE  Claimed(w)' /\ ~notify'[w]
    <2>1. PICK i \in 1 .. Len(wakees'[x]) : wakees'[x][i] = w
      BY <1>11 DEF OnList
    <2>2. CASE x = t
      BY <1>1, <1>4, <1>6, <1>8, <2>1, <2>2 DEF SleepersOK
    <2>3. CASE x # t
      <3>1. OnList(w, x)
        BY <1>6, <2>1, <2>3 DEF OnList
      <3> QED BY <1>1, <1>8, <3>1 DEF SleepersOK
    <2> QED BY <2>2, <2>3
  <1>d. \A x \in Threads : \A i \in 1 .. Len(wakees[x]) : Claimed(wakees[x][i])
    BY WakeesType DEF SleepersOK, OnList
  <1>12. ASSUME NEW x \in Threads, NEW y \in Threads,
                NEW i \in 1 .. Len(wakees'[x]), NEW j \in 1 .. Len(wakees'[y]),
                wakees'[x][i] = wakees'[y][j]
         PROVE  x = y /\ i = j
    <2>1. CASE x = t /\ y = t
      BY <1>4, <1>6, <1>12, <2>1
    <2>2. CASE x = t /\ y # t
      <3>1. wakees'[x][i] \in ParkedOn(Addr) /\ wakees'[x][i] \in Threads
        BY <1>4, <1>6, <2>2
      <3>2. wakees'[y] = wakees[y]
        BY <1>6, <2>2
      <3> QED BY <1>8, <1>12, <1>d, <3>1, <3>2
    <2>3. CASE x # t /\ y = t
      <3>1. wakees'[y][j] \in ParkedOn(Addr) /\ wakees'[y][j] \in Threads
        BY <1>4, <1>6, <2>3
      <3>2. wakees'[x] = wakees[x]
        BY <1>6, <2>3
      <3> QED BY <1>8, <1>12, <1>d, <3>1, <3>2
    <2>4. CASE x # t /\ y # t
      BY <1>6, <1>12, <2>4 DEF SleepersOK
    <2> QED BY <2>1, <2>2, <2>3, <2>4
  <1>13. SleepersOK'
    BY <1>9, <1>10, <1>11, <1>12 DEF SleepersOK
  <1> QED BY <1>3, <1>4, <1>6, <1>13

LEMMA SleepSignalled ==
    ASSUME Sleep, NEW t \in Threads, NEW to, wakees[t] # << >>,
           (pc[t] \in SleepPCs) <=> (to \in SleepPCs), pc' = [pc EXCEPT ![t] = to],
           Signal(Head(wakees[t])), wakees' = [wakees EXCEPT ![t] = Tail(@)]
    PROVE  /\ Sleep'
           /\ \A c : ParkedOn(c)' = ParkedOn(c)
           /\ Len(wakees[t]) # 1 => wakees'[t] # << >>
  <1> USE DEF Sleep
  <1> DEFINE h == Head(wakees[t])
  <1>1. /\ QueuesOK' /\ \A c : ParkedOn(c)' = ParkedOn(c)
        /\ UNCHANGED <<bucketMu, unparking>> /\ notify' = [notify EXCEPT ![h] = TRUE]
    BY SameQueues DEF SleepTypes, Signal
  <1>2. wakees[t] \in Seq(Threads)
    BY DEF SleepTypes
  <1>3. /\ h \in Threads /\ h = wakees[t][1] /\ 1 \in 1 .. Len(wakees[t])
        /\ Tail(wakees[t]) \in Seq(Threads) /\ Len(Tail(wakees[t])) = Len(wakees[t]) - 1
        /\ \A i \in 1 .. Len(Tail(wakees[t])) : /\ i + 1 \in 1 .. Len(wakees[t])
                                              /\ Tail(wakees[t])[i] = wakees[t][i + 1]
    BY <1>2
  <1> HIDE DEF h
  <1>4. /\ SleepTypes' /\ wakees'[t] = Tail(wakees[t])
        /\ \A x \in Threads : x # t => wakees'[x] = wakees[x]
    BY <1>1, <1>3 DEF SleepTypes
  <1>5. \A u \in Threads : /\ Claimed(u)' <=> Claimed(u)
                           /\ (pc'[u] \in SleepPCs) <=> (pc[u] \in SleepPCs)
                           /\ notify'[u] <=> notify[u] \/ u = h
    BY <1>1 DEF SleepTypes, Claimed
  <1>6. \A x \in Threads : \A i \in 1 .. Len(wakees'[x]) : \E j \in 1 .. Len(wakees[x]) :
            /\ wakees'[x][i] = wakees[x][j]
            /\ IF x = t THEN j = i + 1 ELSE j = i
    BY <1>3, <1>4
  <1>7. Claimed(h)
    BY <1>3 DEF SleepersOK, OnList
  <1>8. ASSUME NEW x \in Threads, NEW w \in Threads, OnList(w, x)'
        PROVE  Claimed(w)' /\ ~notify'[w]
    <2>a. PICK i \in 1 .. Len(wakees'[x]) : wakees'[x][i] = w
      BY <1>8 DEF OnList
    <2>1. PICK j \in 1 .. Len(wakees[x]) : w = wakees[x][j] /\ IF x = t THEN j = i + 1 ELSE j = i
      BY <1>6, <2>a
    <2>2. Claimed(w) /\ ~notify[w]
      BY <2>1 DEF SleepersOK, OnList
    <2>3. w # h
      <3>1. ASSUME w = h PROVE x = t /\ j = 1
        BY <1>3, <2>1, <3>1 DEF SleepersOK
      <3> QED BY <2>1, <3>1
    <2> QED BY <1>5, <2>2, <2>3
  <1>9. ASSUME NEW x \in Threads, NEW y \in Threads,
               NEW i \in 1 .. Len(wakees'[x]), NEW j \in 1 .. Len(wakees'[y]),
               wakees'[x][i] = wakees'[y][j]
        PROVE  x = y /\ i = j
    <2>1. PICK k \in 1 .. Len(wakees[x]) :
              wakees'[x][i] = wakees[x][k] /\ IF x = t THEN k = i + 1 ELSE k = i
      BY <1>6
    <2>2. PICK l \in 1 .. Len(wakees[y]) :
              wakees'[y][j] = wakees[y][l] /\ IF y = t THEN l = j + 1 ELSE l = j
      BY <1>6
    <2>3. x = y /\ k = l
      BY <1>9, <2>1, <2>2 DEF SleepersOK
    <2> QED BY <2>1, <2>2, <2>3
  <1>10. SleepersOK'
    <2>1. \A u \in Threads, c \in Addrs :
            u \in ParkedOn(c)' <=> c = Addr /\ pc'[u] \in SleepPCs /\ ~unparking'[u]
      BY <1>1, <1>5 DEF SleepersOK
    <2>2. \A u \in Threads : notify'[u] => Claimed(u)'
      BY <1>5, <1>7 DEF SleepersOK
    <2> QED BY <1>8, <1>9, <2>1, <2>2 DEF SleepersOK
  <1>11. Len(wakees[t]) # 1 => wakees'[t] # << >>
    <2>1. Len(wakees[t]) \in Nat
      BY <1>2, LenProperties
    <2> SUFFICES ASSUME Len(wakees[t]) # 1, Tail(wakees[t]) = << >> PROVE FALSE
      BY <1>4
    <2>2. Len(wakees[t]) - 1 = 0
      BY <1>3
    <2> QED BY <2>1, <2>2
  <1> QED BY <1>1, <1>4, <1>10, <1>11

LEMMA InitSleep ==
    ASSUME waitq = [b \in Buckets |-> << >>], bucketMu = [b \in Buckets |-> Nobody],
           unparking = [t \in Threads |-> FALSE], notify = [t \in Threads |-> FALSE],
           pc = [t \in Threads |-> "idle"], wakees = [t \in Threads |-> << >>]
    PROVE  Sleep
  <1>1. QueuesOK
    <2>1. \A b \in Buckets : waitq[b] = << >>
      OBVIOUS
    <2>2. waitq \in [Buckets -> Seq(Waiter)]
      OBVIOUS
    <2> QED BY <2>1, <2>2 DEF QueuesOK
  <1>2. \A c \in Addrs : ParkedOn(c) = {}
    BY LotAssumption DEF ParkedOn, IsQueuedAt, Queue
  <1>3. SleepTypes
    BY <1>1 DEF SleepTypes
  <1>4. \A x \in Threads : wakees[x] = << >>
    OBVIOUS
  <1>5. SleepersOK
    BY <1>2, <1>4 DEF SleepersOK, OnList, Claimed, SleepPCs
  <1> QED BY <1>3, <1>5 DEF Sleep

-----------------------------------------------------------------------------
(* Event, on the same lot.                                                 *)

CONSTANTS Waiters, Bounded

Ev == INSTANCE Event

EvPlace(t) ==
    /\ pc[t] = "mark" => seen[t] = "Unset"
    /\ pc[t] = "park" => word # "Unset"
    /\ pc[t] = "enqueue" => bucketMu[BucketOf[Addr]] = t /\ word # "Unset"
    /\ pc[t] \in {"timedout", "claimed", "false"} => t \in Bounded
    /\ pc[t] = "answer" => word = "Set" \/ t \in Bounded
    /\ pc[t] \in {"unpark", "signal"} => word = "Set"
    /\ unparking[t] => word = "Set"
    /\ pc[t] = "signal" => wakees[t] # << >>

(* Where goroutines are, and what they know: the word leaves Unset for good*)
(* and is Set for good, whoever is claimed owes it to Set, and only a wait *)
(* with a deadline leaves the lot by itself.                               *)
EvPlaces == \A t \in Threads : EvPlace(t)

(* Nobody who is parked, or will be, is forgotten. *)
EvPromise ==
    (\E t \in Threads : t \in ParkedOn(Addr) \/ pc[t] = "enqueue") =>
        word # "Unset" /\ (word = "Set" => \E t \in Threads : pc[t] = "unpark")

EvTypes ==
    /\ word \in Ev!Words
    /\ pc \in [Threads -> Ev!PCs]
    /\ seen \in [Threads -> Ev!Words]

EvIInv == Sleep /\ EvTypes /\ EvPlaces /\ EvPromise

(* The lot that Event extends is this one. *)
LEMMA EvLot ==
    /\ Ev!QueuesOK <=> QueuesOK
    /\ \A a : Ev!ParkedOn(a) = ParkedOn(a)
    /\ \A a : Ev!WaitersOn(a) = WaitersOn(a)
    /\ \A a : Ev!Queue(a) = Queue(a)
    /\ \A q, S : Ev!Picked(q, S) = Picked(q, S)
  <1>1. Ev!QueuesOK <=> QueuesOK
    BY Zenon DEF Ev!QueuesOK, QueuesOK, Ev!Waiter, Waiter
  <1>2. \A a : Ev!ParkedOn(a) = ParkedOn(a)
    BY Zenon DEF Ev!ParkedOn, ParkedOn, Ev!IsQueuedAt, IsQueuedAt, Ev!Queue, Queue
  <1>3. \A a : Ev!WaitersOn(a) = WaitersOn(a)
    BY Zenon DEF Ev!WaitersOn, WaitersOn, Ev!Queue, Queue
  <1>4. \A a : Ev!Queue(a) = Queue(a)
    BY Zenon DEF Ev!Queue, Queue
  <1>5. \A q, S : Ev!Picked(q, S) = Picked(q, S)
    BY Zenon DEF Ev!Picked, Picked, Ev!Cardinality, Cardinality, Ev!IsFiniteSet, IsFiniteSet
  <1> QED BY <1>1, <1>2, <1>3, <1>4, <1>5

LEMMA EvLotSteps ==
    ASSUME NEW t, NEW a
    PROVE  /\ Ev!Signal(t) <=> Signal(t)
           /\ Ev!Wake(t) <=> Wake(t)
           /\ Ev!Enqueue(t, a) <=> Enqueue(t, a)
           /\ Ev!RemoveTimedOut(t, a) <=> RemoveTimedOut(t, a)
           /\ Ev!DequeueAll(a) <=> DequeueAll(a)
  <1>1. Ev!Enqueue(t, a) <=> Enqueue(t, a)
    BY Zenon DEF Ev!Enqueue, Enqueue
  <1>2. Ev!RemoveTimedOut(t, a) <=> RemoveTimedOut(t, a)
    BY Zenon DEF Ev!RemoveTimedOut, RemoveTimedOut, Ev!MuFree, MuFree, Ev!Queue, Queue,
       Ev!IsQueuedAt, IsQueuedAt, Ev!RemoveAt, RemoveAt
  <1>3. Ev!DequeueAll(a) <=> DequeueAll(a)
    BY Zenon, EvLot DEF Ev!DequeueAll, DequeueAll, Ev!MuFree, MuFree
  <1>4. (Ev!Signal(t) <=> Signal(t)) /\ (Ev!Wake(t) <=> Wake(t))
    BY Zenon DEF Ev!Signal, Signal, Ev!Wake, Wake
  <1> QED BY <1>1, <1>2, <1>3, <1>4

LEMMA EvInitInv ==
    ASSUME Ev!EventAssumption
    PROVE  Ev!Init => EvIInv
  <1> SUFFICES ASSUME Ev!Init PROVE EvIInv
    OBVIOUS
  <1>1. Sleep
    BY InitSleep DEF Ev!Init, Ev!LotInit
  <1>2. \A c \in Addrs : ParkedOn(c) = {}
    BY DEF Ev!Init, Ev!LotInit, ParkedOn, IsQueuedAt, Queue
  <1>3. Addr \in Addrs
    BY DEF Ev!EventAssumption
  <1>4. EvTypes
    BY DEF Ev!Init, EvTypes, Ev!Words, Ev!PCs, Ev!WaitPCs
  <1>5. EvPlaces /\ EvPromise
    BY <1>2, <1>3 DEF Ev!Init, Ev!LotInit, EvPlaces, EvPlace, EvPromise
  <1> QED BY <1>1, <1>4, <1>5 DEF EvIInv

(* Steps that leave the lot alone. *)
LEMMA EvQuiet ==
    ASSUME Ev!EventAssumption, EvIInv, NEW t \in Threads,
           \/ Ev!Load(t) \/ Ev!MarkParked(t) \/ Ev!TimerFires(t) \/ Ev!Answer(t)
           \/ Ev!LoadToNotify(t) \/ Ev!SetWord(t)
    PROVE  EvIInv'
  <1> USE DEF EvIInv, Ev!Goto
  <1>a. Addr \in Addrs /\ pc \in [Threads -> Ev!PCs] /\ DOMAIN pc = Threads
    BY DEF Ev!EventAssumption, EvTypes
  <1>0. UNCHANGED <<waitq, bucketMu, unparking, notify, wakees>>
    BY DEF Ev!Load, Ev!MarkParked, Ev!TimerFires, Ev!Answer, Ev!LoadToNotify, Ev!SetWord,
       Ev!lotVars
  <1>1. EvTypes'
    BY DEF EvTypes, Ev!Load, Ev!MarkParked, Ev!TimerFires, Ev!Answer, Ev!LoadToNotify,
       Ev!SetWord, Ev!Words, Ev!PCs, Ev!WaitPCs
  <1>2. \E to : pc' = [pc EXCEPT ![t] = to] /\ ((pc[t] \in SleepPCs) <=> (to \in SleepPCs))
    BY DEF EvTypes, Ev!Load, Ev!MarkParked, Ev!TimerFires, Ev!Answer, Ev!LoadToNotify,
       Ev!SetWord, Ev!Words, SleepPCs
  <1>3. bucketMu' \in [Buckets -> Threads \cup {Nobody}]
    BY <1>0 DEF Sleep, SleepTypes
  <1>4. Sleep' /\ \A c : ParkedOn(c)' = ParkedOn(c)
    BY <1>0, <1>2, <1>3, SleepStays
  <1>c. ParkedOn(Addr)' = ParkedOn(Addr)
    BY <1>4
  <1>5. CASE Ev!Load(t)
    <2>1. EvPlaces'
      BY <1>a, <1>0, <1>5 DEF EvTypes, EvPlaces, EvPlace, Ev!Load, Ev!Words
    <2>2. EvPromise'
      BY <1>a, <1>0, <1>c, <1>5 DEF EvTypes, EvPlaces, EvPlace, EvPromise, Ev!Load, Ev!Words
    <2> QED BY <1>1, <1>4, <2>1, <2>2
  <1>6. CASE Ev!MarkParked(t)
    <2>1. EvPlaces'
      BY <1>a, <1>0, <1>6 DEF EvTypes, EvPlaces, EvPlace, Ev!MarkParked, Ev!Words
    <2>2. EvPromise'
      BY <1>a, <1>0, <1>c, <1>6 DEF EvTypes, EvPlaces, EvPlace, EvPromise, Ev!MarkParked, Ev!Words
    <2> QED BY <1>1, <1>4, <2>1, <2>2
  <1>7. CASE Ev!TimerFires(t)
    <2>1. EvPlaces'
      BY <1>a, <1>0, <1>7 DEF EvTypes, EvPlaces, EvPlace, Ev!TimerFires, Ev!Words
    <2>2. EvPromise'
      BY <1>a, <1>0, <1>c, <1>7 DEF EvTypes, EvPlaces, EvPlace, EvPromise, Ev!TimerFires, Ev!Words
    <2> QED BY <1>1, <1>4, <2>1, <2>2
  <1>8. CASE Ev!Answer(t)
    <2>1. EvPlaces'
      BY <1>a, <1>0, <1>8 DEF EvTypes, EvPlaces, EvPlace, Ev!Answer, Ev!Words
    <2>2. EvPromise'
      BY <1>a, <1>0, <1>c, <1>8 DEF EvTypes, EvPlaces, EvPlace, EvPromise, Ev!Answer, Ev!Words
    <2> QED BY <1>1, <1>4, <2>1, <2>2
  <1>9. CASE Ev!LoadToNotify(t)
    <2>1. EvPlaces'
      BY <1>a, <1>0, <1>9 DEF EvTypes, EvPlaces, EvPlace, Ev!LoadToNotify, Ev!Words
    <2>2. EvPromise'
      BY <1>a, <1>0, <1>c, <1>9 DEF EvTypes, EvPlaces, EvPlace, EvPromise, Ev!LoadToNotify, Ev!Words
    <2> QED BY <1>1, <1>4, <2>1, <2>2
  <1>10. CASE Ev!SetWord(t)
    <2>1. EvPlaces'
      BY <1>a, <1>0, <1>10 DEF EvTypes, EvPlaces, EvPlace, Ev!SetWord, Ev!Words
    <2>2. EvPromise'
      BY <1>a, <1>0, <1>c, <1>10 DEF EvTypes, EvPlaces, EvPlace, EvPromise, Ev!SetWord, Ev!Words
    <2> QED BY <1>1, <1>4, <2>1, <2>2
  <1> QED BY <1>5, <1>6, <1>7, <1>8, <1>9, <1>10

(* Steps in the lot. *)
LEMMA EvInLot ==
    ASSUME Ev!EventAssumption, EvIInv, NEW t \in Threads,
           \/ Ev!CheckPark(t) \/ Ev!EnqueueSelf(t) \/ Ev!Woken(t) \/ Ev!GiveUp(t)
           \/ Ev!UnparkEverybody(t) \/ Ev!SignalNext(t)
    PROVE  EvIInv'
  <1> USE DEF EvIInv, Ev!Goto
  <1>a. Addr \in Addrs /\ BucketOf[Addr] \in Buckets
    BY DEF Ev!EventAssumption
  <1>b. /\ pc \in [Threads -> Ev!PCs] /\ DOMAIN pc = Threads
        /\ bucketMu \in [Buckets -> Threads \cup {Nobody}]
        /\ unparking \in [Threads -> BOOLEAN] /\ wakees \in [Threads -> Seq(Threads)]
    BY DEF EvTypes, Sleep, SleepTypes
  <1>1. CASE Ev!CheckPark(t)
    <2>1. UNCHANGED <<waitq, unparking, notify, word, seen, wakees>> /\ pc[t] = "park"
      BY <1>1 DEF Ev!CheckPark, Ev!BeginPark, Ev!ParkAgain, Ev!lotVars
    <2>2. PICK to \in {"enqueue", "answer"} :
              /\ pc' = [pc EXCEPT ![t] = to]
              /\ IF to = "enqueue" THEN bucketMu' = [bucketMu EXCEPT ![BucketOf[Addr]] = t]
                                   ELSE UNCHANGED bucketMu
              /\ word = "Parked" <=> to = "enqueue"
      BY <1>1 DEF Ev!CheckPark, Ev!BeginPark, Ev!ParkAgain, Ev!lotVars
    <2>3. bucketMu' \in [Buckets -> Threads \cup {Nobody}]
      BY <1>b, <2>2
    <2>4. Sleep' /\ \A c : ParkedOn(c)' = ParkedOn(c)
      BY <1>b, <2>1, <2>2, <2>3, SleepStays DEF SleepPCs
    <2>5. EvTypes'
      BY <2>1, <2>2 DEF EvTypes, Ev!PCs, Ev!WaitPCs
    <2>6. \A u \in Threads : pc[u] # "enqueue"
      BY <1>1 DEF EvPlaces, EvPlace, Ev!CheckPark, Ev!BeginPark, Ev!ParkAgain, Ev!MuFree
    <2>7. EvPlaces'
      BY <1>a, <1>b, <2>1, <2>2, <2>6 DEF EvTypes, EvPlaces, EvPlace, Ev!Words
    <2>c. ParkedOn(Addr)' = ParkedOn(Addr)
      BY <2>4
    <2>8. EvPromise'
      BY <1>b, <2>1, <2>2, <2>c DEF EvPromise
    <2> QED BY <2>4, <2>5, <2>7, <2>8
  <1>2. CASE Ev!EnqueueSelf(t)
    <2>1. /\ pc[t] = "enqueue" /\ pc' = [pc EXCEPT ![t] = "blocked"]
          /\ UNCHANGED <<word, seen, wakees>> /\ Enqueue(t, Addr)
      BY <1>2, EvLotSteps DEF Ev!EnqueueSelf
    <2>2. /\ Sleep'
          /\ \A c \in Addrs : ParkedOn(c)' = ParkedOn(c) \cup (IF c = Addr THEN {t} ELSE {})
      BY <1>a, <2>1, SleepEnqueue DEF SleepPCs
    <2>3. EvTypes'
      BY <2>1 DEF EvTypes, Ev!PCs, Ev!WaitPCs
    <2>4. \A u \in Threads : u # t => pc[u] # "enqueue"
      BY <2>1 DEF EvPlaces, EvPlace
    <2>5. EvPlaces'
      BY <1>b, <2>1, <2>4 DEF EvPlaces, EvPlace, Enqueue
    <2>c. ParkedOn(Addr)' = ParkedOn(Addr) \cup {t}
      BY <1>a, <2>2
    <2>6. EvPromise'
      BY <1>b, <2>1, <2>c, <2>4 DEF EvPromise
    <2> QED BY <2>2, <2>3, <2>5, <2>6
  <1>3. CASE Ev!Woken(t)
    <2>1. /\ pc[t] \in {"blocked", "claimed"} /\ pc' = [pc EXCEPT ![t] = "answer"]
          /\ UNCHANGED <<word, seen, wakees>> /\ Wake(t)
      BY <1>3, EvLotSteps DEF Ev!Woken
    <2>2. Sleep' /\ \A c : ParkedOn(c)' = ParkedOn(c)
      BY <2>1, SleepWoken DEF SleepPCs
    <2>3. EvTypes'
      BY <2>1 DEF EvTypes, Ev!PCs, Ev!WaitPCs
    <2>4. word = "Set"
      BY <2>1 DEF Wake, Sleep, SleepersOK, Claimed, EvPlaces, EvPlace
    <2>5. EvPlaces'
      BY <1>b, <2>1, <2>4 DEF EvPlaces, EvPlace, Wake
    <2>c. ParkedOn(Addr)' = ParkedOn(Addr)
      BY <2>2
    <2>6. EvPromise'
      BY <1>b, <2>1, <2>c DEF EvPromise
    <2> QED BY <2>2, <2>3, <2>5, <2>6
  <1>4. CASE Ev!GiveUp(t)
    <2>1. /\ UNCHANGED <<bucketMu, unparking, notify, word, seen, wakees>> /\ pc[t] = "timedout"
          /\ t \in Bounded
      BY <1>4 DEF Ev!GiveUp, Ev!RemoveTimedOut, Ev!TimedOutButClaimed, Ev!lotVars, EvPlaces, EvPlace
    <2>2. PICK to \in {"answer", "claimed"} :
              /\ pc' = [pc EXCEPT ![t] = to]
              /\ \/ to = "answer" /\ RemoveTimedOut(t, Addr)
                 \/ to = "claimed" /\ UNCHANGED waitq
      BY <1>4, EvLotSteps DEF Ev!GiveUp, Ev!TimedOutButClaimed, Ev!lotVars
    <2>3. Sleep' /\ \A c \in Addrs : ParkedOn(c)' \subseteq ParkedOn(c)
      <3>1. CASE to = "answer"
        BY <1>a, <2>1, <2>2, <3>1, SleepTimedOut DEF SleepPCs
      <3>2. CASE to = "claimed"
        BY <1>b, <2>1, <2>2, <3>2, SleepStays DEF SleepPCs
      <3> QED BY <3>1, <3>2
    <2>4. EvTypes'
      BY <2>1, <2>2 DEF EvTypes, Ev!PCs, Ev!WaitPCs
    <2>5. EvPlaces'
      BY <1>b, <2>1, <2>2 DEF EvPlaces, EvPlace
    <2>c. ParkedOn(Addr)' \subseteq ParkedOn(Addr)
      BY <1>a, <2>3
    <2>6. EvPromise'
      BY <1>b, <2>1, <2>2, <2>c DEF EvPromise
    <2> QED BY <2>3, <2>4, <2>5, <2>6
  <1>5. CASE Ev!UnparkEverybody(t)
    <2>1. /\ DequeueAll(Addr) /\ UNCHANGED <<bucketMu, word, seen>> /\ pc[t] = "unpark"
          /\ MuFree(Addr)
      BY <1>5, EvLotSteps DEF Ev!UnparkEverybody, DequeueAll
    <2>2. PICK ws \in Picked(Queue(Addr), WaitersOn(Addr)) :
              /\ wakees' = [wakees EXCEPT ![t] = [i \in DOMAIN ws |-> ws[i].thr]]
              /\ pc' = [pc EXCEPT ![t] = IF ws = << >> THEN "done" ELSE "signal"]
      BY <1>5, EvLot DEF Ev!UnparkEverybody
    <2>3. PICK to \in {"done", "signal"} :
              pc' = [pc EXCEPT ![t] = to] /\ (to = "done" <=> ws = << >>)
      BY <2>2
    <2>4. /\ Sleep' /\ ((ws = << >>) <=> (wakees'[t] = << >>))
          /\ \A c \in Addrs : ParkedOn(c)' = {}
      BY <1>a, <2>1, <2>2, <2>3, SleepUnparked DEF SleepPCs
    <2>5. EvTypes'
      BY <2>1, <2>3 DEF EvTypes, Ev!PCs, Ev!WaitPCs
    <2>6. \A u \in Threads : pc[u] # "enqueue"
      BY <2>1, LotAssumption DEF EvPlaces, EvPlace, MuFree
    <2>7. word = "Set"
      BY <2>1 DEF EvPlaces, EvPlace
    <2>8. \A u \in Threads : u # t => wakees'[u] = wakees[u]
      BY <1>b, <2>2
    <2>9. EvPlaces'
      BY <1>b, <2>1, <2>3, <2>4, <2>6, <2>7, <2>8 DEF EvPlaces, EvPlace
    <2>c. ParkedOn(Addr)' = {}
      BY <1>a, <2>4
    <2>10. EvPromise'
      BY <1>b, <2>1, <2>3, <2>c, <2>6 DEF EvPromise
    <2> QED BY <2>4, <2>5, <2>9, <2>10
  <1>6. CASE Ev!SignalNext(t)
    <2>1. /\ UNCHANGED <<word, seen>> /\ pc[t] = "signal" /\ Signal(Head(wakees[t]))
          /\ wakees' = [wakees EXCEPT ![t] = Tail(@)]
      BY <1>6, EvLotSteps DEF Ev!SignalNext
    <2>2. PICK to \in {"done", "signal"} :
              pc' = [pc EXCEPT ![t] = to] /\ (to = "done" <=> Len(wakees[t]) = 1)
      BY <1>6 DEF Ev!SignalNext
    <2>3. wakees[t] # << >>
      BY <2>1 DEF EvPlaces, EvPlace
    <2>4. /\ Sleep' /\ \A c : ParkedOn(c)' = ParkedOn(c)
          /\ Len(wakees[t]) # 1 => wakees'[t] # << >>
      BY <2>1, <2>2, <2>3, SleepSignalled DEF SleepPCs
    <2>5. EvTypes'
      BY <2>1, <2>2 DEF EvTypes, Ev!PCs, Ev!WaitPCs
    <2>6. UNCHANGED <<bucketMu, unparking>> /\ \A u \in Threads : u # t => wakees'[u] = wakees[u]
      BY <1>b, <2>1 DEF Signal
    <2>7. EvPlaces'
      BY <1>b, <2>1, <2>2, <2>4, <2>6 DEF EvPlaces, EvPlace
    <2>c. ParkedOn(Addr)' = ParkedOn(Addr)
      BY <2>4
    <2>8. EvPromise'
      BY <1>b, <2>1, <2>2, <2>c DEF EvPromise
    <2> QED BY <2>4, <2>5, <2>7, <2>8
  <1> QED BY <1>1, <1>2, <1>3, <1>4, <1>5, <1>6

LEMMA EvNextInv ==
    ASSUME Ev!EventAssumption
    PROVE  EvIInv /\ [Ev!Next]_(Ev!vars) => EvIInv'
  <1> SUFFICES ASSUME EvIInv, [Ev!Next]_(Ev!vars) PROVE EvIInv'
    OBVIOUS
  <1>1. CASE Ev!Next
    <2>1. PICK t \in Threads : Ev!Call(t) \/ Ev!Run(t) \/ Ev!TimerFires(t)
      BY <1>1 DEF Ev!Next
    <2> QED BY <2>1, EvQuiet, EvInLot DEF Ev!Call, Ev!Run
  <1>2. CASE UNCHANGED Ev!vars
    <2>1. UNCHANGED <<waitq, bucketMu, unparking, notify, word, pc, seen, wakees>>
      BY <1>2 DEF Ev!vars, Ev!lotVars
    <2>2. (QueuesOK => QueuesOK') /\ \A c : ParkedOn(c)' = ParkedOn(c)
      BY <2>1, SameQueues
    <2>3. Sleep'
      BY <2>1, <2>2 DEF EvIInv, Sleep, SleepTypes, SleepersOK, OnList, Claimed
    <2>4. ParkedOn(Addr)' = ParkedOn(Addr)
      BY <2>2
    <2> QED BY <2>1, <2>3, <2>4 DEF EvIInv, EvTypes, EvPlaces, EvPlace, EvPromise
  <1> QED BY <1>1, <1>2

THEOREM EvInvariance ==
    ASSUME Ev!EventAssumption
    PROVE  Ev!Spec => []EvIInv
  <1>1. Ev!Init => EvIInv
    BY EvInitInv
  <1>2. EvIInv /\ [Ev!Next]_(Ev!vars) => EvIInv'
    BY EvNextInv
  <1> QED BY <1>1, <1>2, PTL DEF Ev!Spec

(* event.go:13, 75-100: whoever is parked on an event has it say so, is    *)
(* looked for once it is set, and without a deadline is woken by nothing   *)
(* but the event.                                                          *)
THEOREM EventCorrect ==
    ASSUME Ev!EventAssumption
    PROVE  Ev!Spec => []Ev!EventInv
  <1>1. EvIInv => Ev!EventInv
    <2> SUFFICES ASSUME EvIInv PROVE Ev!EventInv
      OBVIOUS
    <2>1. Ev!TypeOK
      BY EvLot DEF EvIInv, EvTypes, Sleep, SleepTypes, Ev!TypeOK, Ev!LotTypeOK
    <2>2. Ev!NoLostWakeup
      <3>1. Ev!ParkedOn(Addr) \subseteq Threads /\ Ev!ParkedOn(Addr) = ParkedOn(Addr)
        BY EvLot DEF ParkedOn
      <3> QED BY <3>1 DEF EvIInv, EvPromise, Ev!NoLostWakeup
    <2>3. Ev!UnboundedWaitIsTrue
      BY DEF EvIInv, EvPlaces, EvPlace, Ev!UnboundedWaitIsTrue, Ev!EventAssumption
    <2> QED BY <2>1, <2>2, <2>3 DEF Ev!EventInv
  <1> QED BY <1>1, EvInvariance, PTL

-----------------------------------------------------------------------------
(* RWMutex, on the same lot.                                               *)

VARIABLE writing

RW == INSTANCE RWMutex

ReadersIn == RW!Holding \ writing
WritersIn == RW!Holding \cap writing

RWTypes ==
    /\ bits \in RW!Words
    /\ writing \subseteq Threads
    /\ pc \in [Threads -> RW!PCs]
    /\ seen \in [Threads -> RW!Words]

(* What a goroutine knows of the word it has seen.                         *)
RWPlace(t) ==
    /\ pc[t] # "panic"
    /\ pc[t] = "take" => ~RW!MustWait(t, seen[t])
    /\ pc[t] = "mark" => RW!MustWait(t, seen[t]) /\ ~seen[t].parked
    /\ pc[t] \in {"park", "enqueue"} => RW!MustWait(t, seen[t]) /\ seen[t].parked
    /\ pc[t] = "enqueue" => bucketMu[BucketOf[Addr]] = t
    /\ pc[t] = "signal" => wakees[t] # << >>

RWPlaces == \A t \in Threads : RWPlace(t)

(* The word counts who is inside. *)
RWCounts ==
    /\ bits.readers = Cardinality(ReadersIn)
    /\ bits.writer <=> WritersIn # {}
    /\ \A t, u \in WritersIn : t = u
    /\ bits.writer => bits.readers = 0

Unparks == \E t \in Threads : pc[t] = "unpark"
Parks(t) == t \in ParkedOn(Addr) \/ pc[t] = "enqueue"

(* HasParked without a writer inside was set for a writer, who still wants *)
(* the lock.  Whoever parks has it set, and a writer parks on account of   *)
(* somebody inside, until an unparker is on its way.                       *)
RWPromise ==
    /\ bits.parked /\ ~bits.writer => \E w \in writing : pc[w] \in RW!Waiting
    /\ (\E t \in Threads : Parks(t)) => bits.parked \/ Unparks
    /\ (\E t \in writing : Parks(t)) => bits.writer \/ bits.readers # 0 \/ Unparks

RWIInv == Sleep /\ RWTypes /\ RWPlaces /\ RWCounts /\ RWPromise

(* The lot that RWMutex extends is this one. *)
LEMMA RWLot ==
    /\ RW!QueuesOK <=> QueuesOK
    /\ \A a : RW!ParkedOn(a) = ParkedOn(a)
    /\ \A a : RW!WaitersOn(a) = WaitersOn(a)
    /\ \A a : RW!Queue(a) = Queue(a)
    /\ \A q, S : RW!Picked(q, S) = Picked(q, S)
  <1>1. RW!QueuesOK <=> QueuesOK
    BY Zenon DEF RW!QueuesOK, QueuesOK, RW!Waiter, Waiter
  <1>2. \A a : RW!ParkedOn(a) = ParkedOn(a)
    BY Zenon DEF RW!ParkedOn, ParkedOn, RW!IsQueuedAt, IsQueuedAt, RW!Queue, Queue
  <1>3. \A a : RW!WaitersOn(a) = WaitersOn(a)
    BY Zenon DEF RW!WaitersOn, WaitersOn, RW!Queue, Queue
  <1>4. \A a : RW!Queue(a) = Queue(a)
    BY Zenon DEF RW!Queue, Queue
  <1>5. \A q, S : RW!Picked(q, S) = Picked(q, S)
    BY Zenon DEF RW!Picked, Picked, RW!Cardinality, Cardinality, RW!IsFiniteSet, IsFiniteSet
  <1> QED BY <1>1, <1>2, <1>3, <1>4, <1>5

LEMMA RWLotSteps ==
    ASSUME NEW t, NEW a
    PROVE  /\ RW!Signal(t) <=> Signal(t)
           /\ RW!Wake(t) <=> Wake(t)
           /\ RW!Enqueue(t, a) <=> Enqueue(t, a)
           /\ RW!DequeueAll(a) <=> DequeueAll(a)
  <1>1. RW!Enqueue(t, a) <=> Enqueue(t, a)
    BY Zenon DEF RW!Enqueue, Enqueue
  <1>3. RW!DequeueAll(a) <=> DequeueAll(a)
    BY Zenon, RWLot DEF RW!DequeueAll, DequeueAll, RW!MuFree, MuFree
  <1>4. (RW!Signal(t) <=> Signal(t)) /\ (RW!Wake(t) <=> Wake(t))
    BY Zenon DEF RW!Signal, Signal, RW!Wake, Wake
  <1> QED BY <1>1, <1>3, <1>4

LEMMA RWCardinality ==
    \A S : RW!Cardinality(S) = Cardinality(S) /\ (RW!IsFiniteSet(S) <=> IsFiniteSet(S))
  BY Zenon DEF RW!Cardinality, Cardinality, RW!IsFiniteSet, IsFiniteSet

LEMMA RWInitInv ==
    ASSUME RW!RWAssumption
    PROVE  RW!Init => RWIInv
  <1> SUFFICES ASSUME RW!Init PROVE RWIInv
    OBVIOUS
  <1>1. Sleep
    BY InitSleep DEF RW!Init, RW!LotInit
  <1>2. ParkedOn(Addr) = {}
    BY LotAssumption DEF RW!Init, RW!LotInit, ParkedOn, IsQueuedAt, Queue, RW!RWAssumption
  <1>3. RWTypes /\ ~bits.parked /\ ~bits.writer /\ bits.readers = 0
    BY DEF RW!Init, RWTypes, RW!Words, RW!PCs, RW!Waiting, RW!Unlocked
  <1>4. RWPlaces
    BY DEF RW!Init, RWPlaces, RWPlace
  <1>5. ReadersIn = {} /\ WritersIn = {}
    BY DEF RW!Init, ReadersIn, WritersIn, RW!Holding
  <1>6. RWCounts
    BY <1>3, <1>5, FS_EmptySet DEF RWCounts
  <1>7. RWPromise
    BY <1>2, <1>3 DEF RW!Init, RWPromise, Parks
  <1> QED BY <1>1, <1>3, <1>4, <1>6, <1>7 DEF RWIInv

(* Who does not come or go leaves the counts right. *)
LEMMA CountsStay ==
    ASSUME RWTypes, RWCounts, NEW t \in Threads, NEW to,
           pc' = [pc EXCEPT ![t] = to], pc[t] # "held", to # "held",
           \A u \in Threads : u # t => (u \in writing' <=> u \in writing),
           bits'.readers = bits.readers, bits'.writer = bits.writer
    PROVE  RWCounts'
  <1>1. ReadersIn' = ReadersIn /\ WritersIn' = WritersIn
    BY DEF RWTypes, ReadersIn, WritersIn, RW!Holding
  <1> QED BY <1>1 DEF RWCounts

(* A goroutine goes elsewhere, and the word stays. *)
LEMMA PromiseStays ==
    ASSUME RWTypes, RWPromise, NEW t \in Threads, NEW to, UNCHANGED <<bits, writing>>,
           pc' = [pc EXCEPT ![t] = to], pc[t] # "unpark",
           pc[t] \in RW!Waiting => to \in RW!Waiting,
           to = "enqueue" => bits.parked /\ (t \in writing => bits.writer \/ bits.readers # 0),
           \A u \in Threads : u \in ParkedOn(Addr)' =>
              u \in ParkedOn(Addr) \/ (u = t /\ pc[t] = "enqueue")
    PROVE  RWPromise'
  <1>1. \A u \in Threads : u # t => pc'[u] = pc[u]
    BY DEF RWTypes
  <1>2. pc'[t] = to
    BY DEF RWTypes
  <1>3. Unparks => Unparks'
    BY <1>1 DEF Unparks
  <1>4. \A u \in Threads : Parks(u)' => Parks(u) \/ (u = t /\ to = "enqueue")
    BY <1>1, <1>2 DEF Parks
  <1>5. writing \subseteq Threads
    BY DEF RWTypes
  <1> QED BY <1>1, <1>2, <1>3, <1>4, <1>5 DEF RWPromise

(* Steps that leave the lot alone and change nothing of the word but       *)
(* HasParked.                                                              *)
LEMMA RWQuiet ==
    ASSUME RW!RWAssumption, RWIInv, NEW t \in Threads,
           \/ RW!Call(t)
           \/ RW!Load(t) /\ UNCHANGED writing
           \/ RW!MarkParked(t) /\ UNCHANGED writing
           \/ RW!Take(t) /\ pc'[t] = "load" /\ UNCHANGED writing
    PROVE  RWIInv'
  <1> USE DEF RWIInv, RW!Goto
  <1>a. Addr \in Addrs /\ pc \in [Threads -> RW!PCs] /\ DOMAIN pc = Threads
        /\ bits \in RW!Words /\ seen \in [Threads -> RW!Words] /\ writing \subseteq Threads
    BY DEF RW!RWAssumption, RWTypes
  <1>0. UNCHANGED <<waitq, bucketMu, unparking, notify, wakees>>
    BY DEF RW!Call, RW!Load, RW!MarkParked, RW!Take, RW!lotVars
  <1>1. PICK to \in RW!Waiting \ {"enqueue", "blocked"} :
            pc' = [pc EXCEPT ![t] = to] /\ pc[t] \in {"idle", "load", "mark", "take"}
    BY <1>a DEF RW!Call, RW!Load, RW!MarkParked, RW!Take, RW!Waiting
  <1>2. bucketMu' \in [Buckets -> Threads \cup {Nobody}]
    BY <1>0 DEF Sleep, SleepTypes
  <1>3. Sleep' /\ \A c : ParkedOn(c)' = ParkedOn(c)
    BY <1>0, <1>1, <1>2, SleepStays DEF SleepPCs, RW!Waiting
  <1>b. ParkedOn(Addr)' = ParkedOn(Addr)
    BY <1>3
  <1>4. /\ bits' \in RW!Words /\ bits'.writer = bits.writer /\ bits'.readers = bits.readers
        /\ bits' # bits => bits' = [bits EXCEPT !.parked = TRUE]
    BY <1>a DEF RW!Call, RW!Load, RW!MarkParked, RW!Take, RW!Swap, RW!SwapFails, RW!Words
  <1>5. seen' \in [Threads -> RW!Words]
    <2>1. CASE RW!MarkParked(t) /\ seen' = [seen EXCEPT ![t].parked = TRUE]
      <3>1. [seen[t] EXCEPT !.parked = TRUE] \in RW!Words
        BY <1>a DEF RW!Words
      <3> QED BY <1>a, <2>1, <3>1
    <2>2. CASE seen' = [seen EXCEPT ![t] = bits] \/ UNCHANGED seen
      BY <1>a, <2>2
    <2> QED BY <2>1, <2>2 DEF RW!Call, RW!Load, RW!MarkParked, RW!Take
  <1>6. /\ writing' \subseteq Threads
        /\ \A u \in Threads : u # t => (u \in writing' <=> u \in writing)
    BY <1>a DEF RW!Call, RW!RWAssumption
  <1>7. RWTypes'
    BY <1>a, <1>1, <1>4, <1>5, <1>6 DEF RWTypes, RW!PCs
  <1>8. RWCounts'
    BY <1>1, <1>4, <1>6, CountsStay DEF RW!Waiting
  <1>9. ASSUME NEW u \in Threads, u # t PROVE RWPlace(u)'
    <2>1. pc'[u] = pc[u] /\ seen'[u] = seen[u] /\ (u \in writing' <=> u \in writing)
      BY <1>a, <1>1, <1>6, <1>9 DEF RW!Call, RW!Load, RW!MarkParked, RW!Take
    <2> QED BY <1>0, <2>1 DEF RWPlaces, RWPlace, RW!MustWait
  <1>10. RWPlace(t)'
    <2>1. CASE RW!Call(t)
      BY <1>a, <2>1 DEF RWPlace, RW!Call
    <2>2. CASE RW!Load(t) /\ UNCHANGED writing
      BY <1>a, <2>2 DEF RWPlace, RW!Load, RW!MustWait
    <2>3. CASE RW!MarkParked(t) /\ UNCHANGED writing
      <3>1. RW!MustWait(t, seen[t]) /\ (t \in writing' <=> t \in writing)
        BY <2>3 DEF RWPlaces, RWPlace, RW!MarkParked
      <3>2. CASE pc' = [pc EXCEPT ![t] = "load"]
        BY <1>a, <3>2 DEF RWPlace
      <3>3. CASE pc' = [pc EXCEPT ![t] = "park"] /\ seen' = [seen EXCEPT ![t].parked = TRUE]
        <4>1. pc'[t] = "park" /\ seen'[t] = [seen[t] EXCEPT !.parked = TRUE]
          BY <1>a, <3>3
        <4>2. seen'[t].parked /\ seen'[t].writer = seen[t].writer
              /\ seen'[t].readers = seen[t].readers
          BY <1>a, <4>1 DEF RW!Words
        <4> QED BY <3>1, <4>1, <4>2 DEF RWPlace, RW!MustWait
      <3> QED BY <2>3, <3>2, <3>3 DEF RW!MarkParked
    <2>4. CASE RW!Take(t) /\ pc'[t] = "load" /\ UNCHANGED writing
      BY <2>4 DEF RWPlace
    <2> QED BY <2>1, <2>2, <2>3, <2>4
  <1>11. RWPlaces'
    BY <1>9, <1>10 DEF RWPlaces
  <1>12. RWPromise'
    <2>1. \A u \in Threads : u # t => pc'[u] = pc[u]
      BY <1>a, <1>1
    <2>2. pc'[t] = to /\ to \in RW!Waiting /\ pc'[t] \notin {"enqueue", "unpark"} /\ pc[t] # "unpark"
      BY <1>a, <1>1 DEF RW!Waiting
    <2>3. Unparks' <=> Unparks
      BY <2>1, <2>2 DEF Unparks
    <2>4. \A u \in Threads : Parks(u)' => Parks(u) /\ (u = t => t \in ParkedOn(Addr))
      BY <1>b, <2>1, <2>2 DEF Parks
    <2>5. t \notin ParkedOn(Addr)
      BY <1>a, <1>1 DEF Sleep, SleepersOK, SleepPCs
    <2>6. (\E u \in Threads : Parks(u)') => bits'.parked \/ Unparks'
      <3>1. bits.parked => bits'.parked
        BY <1>a, <1>4 DEF RW!Words
      <3> QED BY <2>3, <2>4, <3>1 DEF RWPromise
    <2>7. (\E u \in writing' : Parks(u)') => bits'.writer \/ bits'.readers # 0 \/ Unparks'
      BY <1>4, <1>6, <2>3, <2>4, <2>5 DEF RWPromise
    <2>8. bits'.parked /\ ~bits'.writer => \E w \in writing' : pc'[w] \in RW!Waiting
      <3> SUFFICES ASSUME bits'.parked, ~bits'.writer PROVE \E w \in writing' : pc'[w] \in RW!Waiting
        OBVIOUS
      <3>1. CASE bits' = bits
        <4>1. PICK w \in writing : pc[w] \in RW!Waiting
          BY <1>4, <3>1 DEF RWPromise
        <4>2. w \in writing'
          BY <1>a, <1>6, <4>1 DEF RW!Call, RW!Waiting
        <4> QED BY <1>a, <2>1, <2>2, <4>1, <4>2
      <3>2. CASE bits' # bits
        <4>1. RW!MarkParked(t) /\ UNCHANGED writing /\ pc[t] = "mark" /\ bits = seen[t]
          <5>1. RW!Take(t) /\ pc'[t] = "load" => UNCHANGED bits
            BY <1>a DEF RW!Take, RW!SwapFails
          <5> QED BY <3>2, <5>1 DEF RW!Call, RW!Load, RW!MarkParked, RW!Swap, RW!SwapFails
        <4>2. t \in writing
          BY <1>4, <4>1 DEF RWPlaces, RWPlace, RW!MustWait
        <4> QED BY <2>2, <4>1, <4>2
      <3> QED BY <3>1, <3>2
    <2> QED BY <2>6, <2>7, <2>8 DEF RWPromise
  <1> QED BY <1>3, <1>7, <1>8, <1>11, <1>12

(* What of the lot and of the lists a step leaves alone, it leaves alone:  *)
(* t goes from one place in the code to another.                           *)
LEMMA RWMoves ==
    ASSUME RWTypes, NEW t \in Threads, NEW to, pc' = [pc EXCEPT ![t] = to]
    PROVE  pc'[t] = to /\ \A u \in Threads : u # t => pc'[u] = pc[u]
  BY DEF RWTypes

(* The swap that takes the lock. *)
LEMMA RWTaken ==
    ASSUME RW!RWAssumption, RWIInv, NEW t \in Threads, RW!Take(t), pc'[t] # "load",
           UNCHANGED writing
    PROVE  RWIInv'
  <1> USE DEF RWIInv
  <1>a. Addr \in Addrs /\ pc \in [Threads -> RW!PCs] /\ bits \in RW!Words /\ writing \subseteq Threads
    BY DEF RW!RWAssumption, RWTypes
  <1>1. /\ UNCHANGED <<waitq, bucketMu, unparking, notify, seen, wakees>>
        /\ pc[t] = "take" /\ pc' = [pc EXCEPT ![t] = "held"]
        /\ bits = seen[t] /\ bits' = RW!Taken(t, bits)
    BY <1>a DEF RW!Take, RW!lotVars, RW!Swap, RW!Goto
  <1>2. pc'[t] = "held" /\ \A u \in Threads : u # t => pc'[u] = pc[u]
    BY <1>1, RWMoves
  <1>3. bucketMu' \in [Buckets -> Threads \cup {Nobody}]
    BY <1>1 DEF Sleep, SleepTypes
  <1>4. Sleep' /\ \A c : ParkedOn(c)' = ParkedOn(c)
    BY <1>1, <1>3, SleepStays DEF SleepPCs
  <1>b. ParkedOn(Addr)' = ParkedOn(Addr)
    BY <1>4
  <1>5. ~RW!MustWait(t, bits)
    BY <1>1 DEF RWPlaces, RWPlace
  <1>6. RWTypes'
    <2>1. bits' \in RW!Words
      <3>1. CASE t \in writing
        BY <1>a, <1>1, <3>1 DEF RW!Taken, RW!Words
      <3>2. CASE t \notin writing
        <4>1. bits.readers + 1 \in Nat
          BY <1>a DEF RW!Words
        <4> QED BY <1>a, <1>1, <3>2, <4>1 DEF RW!Taken, RW!Words
      <3> QED BY <3>1, <3>2
    <2> QED BY <1>1, <2>1 DEF RWTypes, RW!PCs
  <1>7. RWPlaces'
    BY <1>1, <1>2 DEF RWPlaces, RWPlace, RW!MustWait
  <1>8. t \notin RW!Holding /\ RW!Holding' = RW!Holding \cup {t}
    BY <1>1, <1>2 DEF RW!Holding
  <1>9. ~bits.writer /\ WritersIn = {}
    BY <1>5 DEF RW!MustWait, RWCounts
  <1>10. ReadersIn \subseteq Threads /\ IsFiniteSet(ReadersIn)
    <2>1. ReadersIn \subseteq Threads /\ IsFiniteSet(Threads)
      BY RWCardinality DEF ReadersIn, RW!Holding, RW!RWAssumption
    <2> QED BY <2>1, FS_Subset
  <1>11. CASE t \in writing
    <2>1. bits' = [bits EXCEPT !.writer = TRUE] /\ bits.readers = 0
      BY <1>1, <1>5, <1>11 DEF RW!Taken, RW!MustWait
    <2>2. bits'.writer /\ bits'.readers = bits.readers /\ bits'.parked = bits.parked
      BY <1>a, <2>1 DEF RW!Words
    <2>3. ReadersIn' = ReadersIn /\ WritersIn' = {t}
      BY <1>1, <1>8, <1>9, <1>11 DEF ReadersIn, WritersIn
    <2>4. RWCounts'
      BY <2>1, <2>2, <2>3 DEF RWCounts
    <2>5. RWPromise'
      <3>1. \A u \in Threads : Parks(u)' => Parks(u)
        BY <1>b, <1>2 DEF Parks
      <3>2. Unparks => Unparks'
        BY <1>1, <1>2 DEF Unparks
      <3> QED BY <2>2, <3>1, <3>2 DEF RWPromise
    <2> QED BY <1>4, <1>6, <1>7, <2>4, <2>5
  <1>12. CASE t \notin writing
    <2>1. bits' = [bits EXCEPT !.readers = @ + 1] /\ ~bits.parked
      BY <1>1, <1>5, <1>12 DEF RW!Taken, RW!MustWait
    <2>2. ~bits'.writer /\ bits'.readers = bits.readers + 1 /\ ~bits'.parked /\ bits.readers \in Nat
      BY <1>a, <1>9, <2>1 DEF RW!Words
    <2>3. ReadersIn' = ReadersIn \cup {t} /\ WritersIn' = {} /\ t \notin ReadersIn
      BY <1>1, <1>8, <1>9, <1>12 DEF ReadersIn, WritersIn
    <2>4. Cardinality(ReadersIn') = Cardinality(ReadersIn) + 1
      BY <1>10, <2>3, FS_AddElement
    <2>5. RWCounts'
      BY <2>2, <2>3, <2>4 DEF RWCounts
    <2>6. RWPromise'
      <3>1. \A u \in Threads : Parks(u)' => Parks(u)
        BY <1>b, <1>2 DEF Parks
      <3>2. Unparks => Unparks'
        BY <1>1, <1>2 DEF Unparks
      <3> QED BY <2>1, <2>2, <3>1, <3>2 DEF RWPromise
    <2> QED BY <1>4, <1>6, <1>7, <2>5, <2>6
  <1> QED BY <1>11, <1>12

(* A holder leaves. *)
LEMMA RWLeaves ==
    ASSUME RW!RWAssumption, RWIInv, NEW t \in Threads, RW!RUnlock(t) \/ RW!Unlock(t),
           UNCHANGED writing
    PROVE  RWIInv'
  <1> USE DEF RWIInv
  <1>a. Addr \in Addrs /\ pc \in [Threads -> RW!PCs] /\ bits \in RW!Words /\ writing \subseteq Threads
    BY DEF RW!RWAssumption, RWTypes
  <1>0. UNCHANGED <<waitq, bucketMu, unparking, notify, seen, wakees>> /\ pc[t] = "held"
    BY DEF RW!RUnlock, RW!Unlock, RW!lotVars, RW!Goto
  <1>1. t \in RW!Holding
    BY <1>0 DEF RW!Holding
  <1>2. ReadersIn \subseteq Threads /\ IsFiniteSet(ReadersIn)
    <2>1. ReadersIn \subseteq Threads /\ IsFiniteSet(Threads)
      BY RWCardinality DEF ReadersIn, RW!Holding, RW!RWAssumption
    <2> QED BY <2>1, FS_Subset
  <1>3. ReadersIn \ {t} \subseteq ReadersIn /\ Cardinality(ReadersIn \ {t}) \in Nat
        /\ (t \in ReadersIn => Cardinality(ReadersIn \ {t}) = bits.readers - 1 /\ bits.readers # 0)
    <2>1. IsFiniteSet(ReadersIn \ {t}) /\ Cardinality(ReadersIn \ {t}) \in Nat
      BY <1>2, FS_Subset, FS_CardinalityType
    <2>2. t \in ReadersIn => Cardinality(ReadersIn \ {t}) = Cardinality(ReadersIn) - 1
      BY <1>2, FS_RemoveElement
    <2>3. t \in ReadersIn => Cardinality(ReadersIn) # 0
      BY <1>2, FS_EmptySet
    <2> QED BY <2>1, <2>2, <2>3 DEF RWCounts
  <1>4. PICK to \in {"idle", "unpark"} :
            /\ pc' = [pc EXCEPT ![t] = to]
            /\ bits' \in RW!Words /\ ~bits'.writer
            /\ bits'.readers = Cardinality(ReadersIn \ {t})
            /\ to = "unpark" => bits.parked
            /\ to = "idle" => bits'.readers # 0 \/ ~bits.parked
            /\ bits'.parked <=> bits.parked /\ t \notin writing
            /\ IF t \in writing THEN bits'.readers = 0 ELSE ~bits.writer
    <2>1. CASE RW!RUnlock(t)
      <3>1. t \notin writing /\ t \in ReadersIn
        BY <1>1, <2>1 DEF RW!RUnlock, ReadersIn
      <3>2. bits.readers # 0 /\ ~bits.writer /\ bits.readers \in Nat
        BY <1>3, <1>a, <3>1 DEF RWCounts, RW!Words
      <3>3. /\ bits' = [bits EXCEPT !.readers = @ - 1]
            /\ pc' = [pc EXCEPT ![t] = IF bits.readers = 1 /\ bits.parked THEN "unpark" ELSE "idle"]
        BY <2>1, <3>2 DEF RW!RUnlock, RW!Goto
      <3>4. bits' \in RW!Words /\ ~bits'.writer /\ bits'.readers = bits.readers - 1
            /\ bits'.parked = bits.parked
        BY <1>a, <3>2, <3>3 DEF RW!Words
      <3>5. CASE bits.readers = 1 /\ bits.parked
        BY <1>3, <3>1, <3>2, <3>3, <3>4, <3>5
      <3>6. CASE ~(bits.readers = 1 /\ bits.parked)
        <4>1. bits'.readers # 0 \/ ~bits.parked
          BY <3>2, <3>4, <3>6
        <4>2. pc' = [pc EXCEPT ![t] = "idle"]
          BY <3>3, <3>6
        <4>3. bits'.readers = Cardinality(ReadersIn \ {t})
          BY <1>3, <3>1, <3>4
        <4> QED BY <3>1, <3>2, <3>4, <4>1, <4>2, <4>3
      <3> QED BY <3>5, <3>6
    <2>2. CASE RW!Unlock(t)
      <3>1. t \in writing /\ t \in WritersIn
        BY <1>1, <2>2 DEF RW!Unlock, WritersIn
      <3>2. bits.writer /\ bits.readers = 0
        BY <3>1 DEF RWCounts
      <3>3. /\ bits' = RW!Unlocked
            /\ pc' = [pc EXCEPT ![t] = IF bits.parked THEN "unpark" ELSE "idle"]
        BY <2>2, <3>2 DEF RW!Unlock, RW!Goto
      <3>4. bits' \in RW!Words /\ ~bits'.writer /\ bits'.readers = 0 /\ ~bits'.parked
        BY <3>3 DEF RW!Words, RW!Unlocked
      <3>5. ReadersIn \ {t} = ReadersIn
        BY <3>1 DEF ReadersIn
      <3>6. CASE bits.parked
        BY <3>1, <3>2, <3>3, <3>4, <3>5, <3>6 DEF RWCounts
      <3>7. CASE ~bits.parked
        BY <3>1, <3>2, <3>3, <3>4, <3>5, <3>7 DEF RWCounts
      <3> QED BY <3>6, <3>7
    <2> QED BY <2>1, <2>2
  <1>5. pc'[t] = to /\ \A u \in Threads : u # t => pc'[u] = pc[u]
    BY <1>4, RWMoves
  <1>6. bucketMu' \in [Buckets -> Threads \cup {Nobody}]
    BY <1>0 DEF Sleep, SleepTypes
  <1>7. Sleep' /\ \A c : ParkedOn(c)' = ParkedOn(c)
    BY <1>0, <1>4, <1>6, SleepStays DEF SleepPCs
  <1>b. ParkedOn(Addr)' = ParkedOn(Addr)
    BY <1>7
  <1>8. RWTypes'
    BY <1>0, <1>4 DEF RWTypes, RW!PCs
  <1>9. RWPlaces'
    BY <1>0, <1>4, <1>5 DEF RWPlaces, RWPlace, RW!MustWait
  <1>10. RW!Holding' = RW!Holding \ {t}
    BY <1>4, <1>5 DEF RW!Holding
  <1>11. ReadersIn' = ReadersIn \ {t} /\ WritersIn' = {}
    <2>1. WritersIn' = WritersIn \ {t} /\ ReadersIn' = ReadersIn \ {t}
      BY <1>10 DEF WritersIn, ReadersIn
    <2>2. CASE t \in writing
      BY <1>1, <2>1, <2>2 DEF RWCounts, WritersIn
    <2>3. CASE t \notin writing
      BY <1>4, <2>1, <2>3 DEF RWCounts
    <2> QED BY <2>1, <2>2, <2>3
  <1>12. RWCounts'
    BY <1>4, <1>11 DEF RWCounts
  <1>13. RWPromise'
    <2>1. \A u \in Threads : Parks(u)' => Parks(u)
      BY <1>b, <1>4, <1>5 DEF Parks
    <2>2. Unparks => Unparks'
      BY <1>0, <1>5 DEF Unparks
    <2>3. to = "unpark" => Unparks'
      BY <1>5 DEF Unparks
    <2>4. (\E u \in Threads : Parks(u)') => bits'.parked \/ Unparks'
      <3>1. (\E u \in Threads : Parks(u)') => bits.parked \/ Unparks
        BY <2>1 DEF RWPromise
      <3> QED BY <1>4, <2>2, <2>3, <3>1
    <2>5. (\E u \in writing : Parks(u)') => bits'.writer \/ bits'.readers # 0 \/ Unparks'
      <3>1. (\E u \in writing : Parks(u)') => bits.parked \/ Unparks
        BY <1>a, <2>1 DEF RWPromise
      <3> QED BY <1>4, <2>2, <2>3, <3>1
    <2>6. bits'.parked /\ ~bits'.writer => \E w \in writing : pc'[w] \in RW!Waiting
      <3> SUFFICES ASSUME bits'.parked PROVE \E w \in writing : pc'[w] \in RW!Waiting
        OBVIOUS
      <3>1. PICK w \in writing : pc[w] \in RW!Waiting
        BY <1>4 DEF RWPromise
      <3>2. w # t
        BY <1>0, <3>1 DEF RW!Waiting
      <3> QED BY <1>5, <1>a, <3>1, <3>2
    <2> QED BY <2>4, <2>5, <2>6 DEF RWPromise
  <1> QED BY <1>7, <1>8, <1>9, <1>12, <1>13

(* Steps in the lot. *)
LEMMA RWInLot ==
    ASSUME RW!RWAssumption, RWIInv, NEW t \in Threads, UNCHANGED writing,
           \/ RW!CheckPark(t) \/ RW!EnqueueSelf(t) \/ RW!Woken(t)
           \/ RW!UnparkEverybody(t) \/ RW!SignalNext(t)
    PROVE  RWIInv'
  <1> USE DEF RWIInv, RW!Goto
  <1>a. Addr \in Addrs /\ BucketOf[Addr] \in Buckets
    BY LotAssumption DEF RW!RWAssumption
  <1>b. /\ pc \in [Threads -> RW!PCs]
        /\ bucketMu \in [Buckets -> Threads \cup {Nobody}]
        /\ wakees \in [Threads -> Seq(Threads)]
    BY DEF RWTypes, Sleep, SleepTypes
  <1>c. UNCHANGED <<bits, seen>>
    BY DEF RW!CheckPark, RW!EnqueueSelf, RW!Woken, RW!UnparkEverybody, RW!SignalNext
  <1>1. CASE RW!CheckPark(t)
    <2>1. UNCHANGED <<waitq, unparking, notify, wakees>> /\ pc[t] = "park"
      BY <1>1 DEF RW!CheckPark, RW!BeginPark, RW!ParkAgain, RW!lotVars
    <2>2. PICK to \in {"enqueue", "load"} :
              /\ pc' = [pc EXCEPT ![t] = to]
              /\ IF to = "enqueue" THEN bucketMu' = [bucketMu EXCEPT ![BucketOf[Addr]] = t]
                                   ELSE UNCHANGED bucketMu
              /\ to = "enqueue" => bits = seen[t]
      BY <1>1 DEF RW!CheckPark, RW!BeginPark, RW!ParkAgain, RW!lotVars
    <2>3. bucketMu' \in [Buckets -> Threads \cup {Nobody}]
      BY <1>b, <2>2
    <2>4. Sleep' /\ \A c : ParkedOn(c)' = ParkedOn(c)
      BY <2>1, <2>2, <2>3, SleepStays DEF SleepPCs
    <2>5. RWTypes'
      BY <1>c, <2>2 DEF RWTypes, RW!PCs, RW!Waiting
    <2>6. \A u \in Threads : pc[u] # "enqueue"
      BY <1>1 DEF RWPlaces, RWPlace, RW!CheckPark, RW!BeginPark, RW!ParkAgain, RW!MuFree
    <2>7. RWPlaces'
      BY <1>a, <1>b, <1>c, <2>1, <2>2, <2>6 DEF RWPlaces, RWPlace, RW!MustWait
    <2>8. RWCounts'
      BY <1>c, <2>1, <2>2, CountsStay
    <2>c. ParkedOn(Addr)' = ParkedOn(Addr)
      BY <2>4
    <2>9. to = "enqueue" => bits.parked /\ (t \in writing => bits.writer \/ bits.readers # 0)
      BY <2>1, <2>2 DEF RWPlaces, RWPlace, RW!MustWait
    <2>10. RWPromise'
      BY <1>c, <2>1, <2>2, <2>c, <2>9, PromiseStays DEF RW!Waiting
    <2> QED BY <2>4, <2>5, <2>7, <2>8, <2>10
  <1>2. CASE RW!EnqueueSelf(t)
    <2>1. /\ pc[t] = "enqueue" /\ pc' = [pc EXCEPT ![t] = "blocked"]
          /\ UNCHANGED wakees /\ Enqueue(t, Addr)
      BY <1>2, RWLotSteps DEF RW!EnqueueSelf
    <2>2. /\ Sleep'
          /\ \A c \in Addrs : ParkedOn(c)' = ParkedOn(c) \cup (IF c = Addr THEN {t} ELSE {})
      BY <1>a, <2>1, SleepEnqueue DEF SleepPCs
    <2>3. RWTypes'
      BY <1>c, <2>1 DEF RWTypes, RW!PCs, RW!Waiting
    <2>4. \A u \in Threads : u # t => pc[u] # "enqueue"
      BY <2>1 DEF RWPlaces, RWPlace
    <2>5. RWPlaces'
      BY <1>b, <1>c, <2>1, <2>4 DEF RWPlaces, RWPlace, RW!MustWait
    <2>6. RWCounts'
      BY <1>c, <2>1, CountsStay
    <2>c. ParkedOn(Addr)' = ParkedOn(Addr) \cup {t}
      BY <1>a, <2>2
    <2>7. RWPromise'
      BY <1>c, <2>1, <2>c, PromiseStays DEF RW!Waiting
    <2> QED BY <2>2, <2>3, <2>5, <2>6, <2>7
  <1>3. CASE RW!Woken(t)
    <2>1. /\ pc[t] = "blocked" /\ pc' = [pc EXCEPT ![t] = "load"]
          /\ UNCHANGED wakees /\ Wake(t)
      BY <1>3, RWLotSteps DEF RW!Woken
    <2>2. Sleep' /\ \A c : ParkedOn(c)' = ParkedOn(c)
      BY <2>1, SleepWoken DEF SleepPCs
    <2>3. RWTypes'
      BY <1>c, <2>1 DEF RWTypes, RW!PCs, RW!Waiting
    <2>4. RWPlaces'
      BY <1>b, <1>c, <2>1 DEF RWPlaces, RWPlace, Wake, RW!MustWait
    <2>5. RWCounts'
      BY <1>c, <2>1, CountsStay
    <2>c. ParkedOn(Addr)' = ParkedOn(Addr)
      BY <2>2
    <2>6. RWPromise'
      BY <1>c, <2>1, <2>c, PromiseStays DEF RW!Waiting
    <2> QED BY <2>2, <2>3, <2>4, <2>5, <2>6
  <1>4. CASE RW!UnparkEverybody(t)
    <2>1. /\ DequeueAll(Addr) /\ UNCHANGED bucketMu /\ pc[t] = "unpark" /\ MuFree(Addr)
      BY <1>4, RWLotSteps DEF RW!UnparkEverybody, DequeueAll
    <2>2. PICK ws \in Picked(Queue(Addr), WaitersOn(Addr)) :
              /\ wakees' = [wakees EXCEPT ![t] = [i \in DOMAIN ws |-> ws[i].thr]]
              /\ pc' = [pc EXCEPT ![t] = IF ws = << >> THEN "idle" ELSE "signal"]
      BY <1>4, RWLot DEF RW!UnparkEverybody
    <2>3. PICK to \in {"idle", "signal"} :
              pc' = [pc EXCEPT ![t] = to] /\ (to = "idle" <=> ws = << >>)
      BY <2>2
    <2>4. /\ Sleep' /\ ((ws = << >>) <=> (wakees'[t] = << >>))
          /\ \A c \in Addrs : ParkedOn(c)' = {}
      BY <1>a, <2>1, <2>2, <2>3, SleepUnparked DEF SleepPCs
    <2>5. RWTypes'
      BY <1>c, <2>3 DEF RWTypes, RW!PCs
    <2>6. \A u \in Threads : pc[u] # "enqueue"
      BY <2>1, LotAssumption DEF RWPlaces, RWPlace, MuFree
    <2>7. \A u \in Threads : u # t => wakees'[u] = wakees[u]
      BY <1>b, <2>2
    <2>8. pc'[t] = to /\ \A u \in Threads : u # t => pc'[u] = pc[u]
      BY <2>3, RWMoves
    <2>9. RWPlaces'
      BY <1>c, <2>1, <2>3, <2>4, <2>6, <2>7, <2>8 DEF RWPlaces, RWPlace, RW!MustWait
    <2>10. RWCounts'
      BY <1>c, <2>1, <2>3, CountsStay
    <2>c. ParkedOn(Addr)' = {}
      BY <1>a, <2>4
    <2>11. \A u \in Threads : ~Parks(u)'
      BY <2>c, <2>6, <2>8 DEF Parks
    <2>12. RWPromise'
      <3>1. writing \subseteq Threads
        BY DEF RWTypes
      <3> QED BY <1>c, <2>1, <2>8, <2>11, <3>1 DEF RWPromise, RW!Waiting
    <2> QED BY <2>4, <2>5, <2>9, <2>10, <2>12
  <1>5. CASE RW!SignalNext(t)
    <2>1. /\ pc[t] = "signal" /\ Signal(Head(wakees[t]))
          /\ wakees' = [wakees EXCEPT ![t] = Tail(@)]
      BY <1>5, RWLotSteps DEF RW!SignalNext
    <2>2. PICK to \in {"idle", "signal"} :
              pc' = [pc EXCEPT ![t] = to] /\ (to = "idle" <=> Len(wakees[t]) = 1)
      BY <1>5 DEF RW!SignalNext
    <2>3. wakees[t] # << >>
      BY <2>1 DEF RWPlaces, RWPlace
    <2>4. /\ Sleep' /\ \A c : ParkedOn(c)' = ParkedOn(c)
          /\ Len(wakees[t]) # 1 => wakees'[t] # << >>
      BY <2>1, <2>2, <2>3, SleepSignalled DEF SleepPCs
    <2>5. RWTypes'
      BY <1>c, <2>2 DEF RWTypes, RW!PCs
    <2>6. UNCHANGED bucketMu /\ \A u \in Threads : u # t => wakees'[u] = wakees[u]
      BY <1>b, <2>1 DEF Signal
    <2>7. RWPlaces'
      BY <1>b, <1>c, <2>1, <2>2, <2>4, <2>6 DEF RWPlaces, RWPlace, RW!MustWait
    <2>8. RWCounts'
      BY <1>c, <2>1, <2>2, CountsStay
    <2>c. ParkedOn(Addr)' = ParkedOn(Addr)
      BY <2>4
    <2>9. RWPromise'
      BY <1>c, <2>1, <2>2, <2>c, PromiseStays DEF RW!Waiting
    <2> QED BY <2>4, <2>5, <2>7, <2>8, <2>9
  <1> QED BY <1>1, <1>2, <1>3, <1>4, <1>5

LEMMA RWNextInv ==
    ASSUME RW!RWAssumption
    PROVE  RWIInv /\ [RW!Next]_(RW!vars) => RWIInv'
  <1> SUFFICES ASSUME RWIInv, [RW!Next]_(RW!vars) PROVE RWIInv'
    OBVIOUS
  <1>1. CASE RW!Next
    <2>1. PICK t \in Threads : RW!Call(t) \/ RW!Run(t)
      BY <1>1 DEF RW!Next
    <2> QED BY <2>1, RWQuiet, RWTaken, RWLeaves, RWInLot DEF RW!Run
  <1>2. CASE UNCHANGED RW!vars
    <2>1. UNCHANGED <<waitq, bucketMu, unparking, notify, bits, writing, pc, seen, wakees>>
      BY <1>2 DEF RW!vars, RW!lotVars
    <2>2. (QueuesOK => QueuesOK') /\ \A c : ParkedOn(c)' = ParkedOn(c)
      BY <2>1, SameQueues
    <2>3. Sleep'
      BY <2>1, <2>2 DEF RWIInv, Sleep, SleepTypes, SleepersOK, OnList, Claimed
    <2>4. ParkedOn(Addr)' = ParkedOn(Addr)
      BY <2>2
    <2>5. RWTypes' /\ RWPlaces'
      BY <2>1 DEF RWIInv, RWTypes, RWPlaces, RWPlace, RW!MustWait
    <2>6. RWCounts' /\ RWPromise'
      BY <2>1, <2>4 DEF RWIInv, RWCounts, ReadersIn, WritersIn, RW!Holding, RWPromise, Parks, Unparks
    <2> QED BY <2>3, <2>5, <2>6 DEF RWIInv
  <1> QED BY <1>1, <1>2

THEOREM RWInvariance ==
    ASSUME RW!RWAssumption
    PROVE  RW!Spec => []RWIInv
  <1>1. RW!Init => RWIInv
    BY RWInitInv
  <1>2. RWIInv /\ [RW!Next]_(RW!vars) => RWIInv'
    BY RWNextInv
  <1> QED BY <1>1, <1>2, PTL DEF RW!Spec

(* rwmutex.go:22, 60-86: the word and the goroutines inside agree at every *)
(* step, no unlock by who is inside panics, and nobody is parked whom      *)
(* nobody is going to unpark.                                              *)
THEOREM RWCorrect ==
    ASSUME RW!RWAssumption
    PROVE  RW!Spec => [](RW!RWInv /\ RW!NoLostWakeup)
  <1>1. RWIInv => RW!RWInv
    <2> SUFFICES ASSUME RWIInv PROVE RW!RWInv
      OBVIOUS
    <2>1. RW!TypeOK
      BY RWLot DEF RWIInv, RWTypes, Sleep, SleepTypes, RW!TypeOK, RW!LotTypeOK
    <2>2. RW!WordCountsHolders
      <3>1. RW!Cardinality(WritersIn) = IF bits.writer THEN 1 ELSE 0
        <4>1. CASE bits.writer
          <5>a. /\ WritersIn # {}
                /\ \A t, u \in WritersIn : t = u
            BY <4>1 DEF RWIInv, RWCounts
          <5>b. PICK t \in WritersIn : TRUE
            BY <5>a
          <5>1. WritersIn = {t}
            BY <5>a, <5>b
          <5> QED BY <4>1, <5>1, RWCardinality, FS_Singleton
        <4>2. CASE ~bits.writer
          <5>1. WritersIn = {}
            BY <4>2 DEF RWIInv, RWCounts
          <5> QED BY <4>2, <5>1, RWCardinality, FS_EmptySet
        <4> QED BY <4>1, <4>2
      <3>2. bits.readers = RW!Cardinality(ReadersIn) /\ (bits.writer => bits.readers = 0)
        BY RWCardinality DEF RWIInv, RWCounts
      <3> QED BY <3>1, <3>2 DEF RW!WordCountsHolders, ReadersIn, WritersIn
    <2>3. RW!UnlockNeverPanics
      BY DEF RWIInv, RWPlaces, RWPlace, RW!UnlockNeverPanics
    <2> QED BY <2>1, <2>2, <2>3 DEF RW!RWInv
  <1>2. ASSUME RWIInv PROVE RW!NoLostWakeup
    <2> SUFFICES ASSUME ParkedOn(Addr) # {}, ~Unparks, ~(bits.parked /\ RW!Holding # {})
                 PROVE  \E w \in Threads : RW!WriterAwake(w)
      BY RWLot DEF RW!NoLostWakeup, Unparks
    <2>1. bits.parked
      BY <1>2 DEF RWIInv, RWPromise, Parks, ParkedOn
    <2>2. ReadersIn = {} /\ WritersIn = {}
      BY <2>1 DEF ReadersIn, WritersIn
    <2>3. ~bits.writer /\ bits.readers = 0
      BY <1>2, <2>2, FS_EmptySet DEF RWIInv, RWCounts
    <2>4. PICK w \in writing : pc[w] \in RW!Waiting
      BY <1>2, <2>1, <2>3 DEF RWIInv, RWPromise
    <2>5. w \in Threads /\ ~Parks(w)
      BY <1>2, <2>3, <2>4 DEF RWIInv, RWPromise, RWTypes
    <2>6. pc[w] = "blocked" => unparking[w]
      BY <1>2, <2>5 DEF RWIInv, Sleep, SleepersOK, SleepPCs, Parks, RW!RWAssumption
    <2> QED BY <2>4, <2>5, <2>6 DEF RW!WriterAwake, RW!Waiting, Parks
  <1> QED BY <1>1, <1>2, RWInvariance, PTL
=============================================================================
