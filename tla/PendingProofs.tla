--------------------------- MODULE PendingProofs ---------------------------
(***************************************************************************)
(* Proofs about PendingCalls, for any threads, capacities and numbers of   *)
(* signals and finalizers.                                                 *)
(*                                                                         *)
(* That work stays announced, and that finalizers are in one place each,   *)
(* is inductive with the types.  The order of handlers is not: it has to   *)
(* be followed from the channel through the bridge's hands into the queue  *)
(* (InOrder).                                                              *)
(***************************************************************************)
EXTENDS PendingCalls, SequenceTheorems, FiniteSetTheorems, TLAPS

(* The bridge has a signal in its hands and has not queued it. *)
InHand == loop.at \in {"deliver", "add"}

LoopOK == loop.at \in {"deliver", "add", "set"} => loop.sig \in Signals

Increasing(s) == \A i, j \in 1 .. Len(s) : i < j => s[i] < s[j]

AllBefore(r, s) == \A i \in 1 .. Len(r) : \A j \in 1 .. Len(s) : r[i] < s[j]

Below(s, x) == \A i \in 1 .. Len(s) : s[i] < x
Above(x, s) == \A i \in 1 .. Len(s) : x < s[i]

(* Signals keep their order along the whole way: those that were handled,  *)
(* the queue, the one in the bridge's hands, the channel.                  *)
InOrder ==
    /\ Increasing(called) /\ Increasing(pending) /\ Increasing(ch)
    /\ AllBefore(called, pending) /\ AllBefore(called, ch) /\ AllBefore(pending, ch)
    /\ Below(called, sent + 1) /\ Below(pending, sent + 1) /\ Below(ch, sent + 1)
    /\ InHand => /\ Below(called, loop.sig) /\ Below(pending, loop.sig)
                 /\ Above(loop.sig, ch) /\ loop.sig < sent + 1

TypeInv == PendingTypeOK /\ LoopOK

-----------------------------------------------------------------------------

(* What Head, Tail and Append do to the elements of a list.                *)
LEMMA ListProps ==
    ASSUME NEW S, NEW s \in Seq(S)
    PROVE  /\ Len(s) \in Nat
           /\ \A i \in 1 .. Len(s) : s[i] \in S
           /\ s # << >> =>
                 /\ Len(s) >= 1 /\ Head(s) = s[1] /\ Head(s) \in S
                 /\ Tail(s) \in Seq(S) /\ Len(Tail(s)) = Len(s) - 1
                 /\ \A i \in 1 .. Len(Tail(s)) : Tail(s)[i] = s[i + 1]
           /\ \A x \in S :
                 /\ Append(s, x) \in Seq(S) /\ Len(Append(s, x)) = Len(s) + 1
                 /\ Append(s, x)[Len(s) + 1] = x
                 /\ \A i \in 1 .. Len(s) : Append(s, x)[i] = s[i]
  OBVIOUS

LEMMA AppendNotEmpty ==
    ASSUME NEW S, NEW s \in Seq(S), NEW x \in S
    PROVE  Append(s, x) # << >>
  <1>1. Len(Append(s, x)) = Len(s) + 1 /\ Len(s) \in Nat
    BY ListProps
  <1>2. Len(<< >>) = 0
    OBVIOUS
  <1>3. Len(Append(s, x)) # 0
    BY <1>1
  <1> QED BY <1>2, <1>3, Zenon

(* What the constants are, one by one.                                     *)
LEMMA Bounds ==
    /\ QueueSize \in Nat /\ ChanSize \in Nat /\ QueueSize >= 1 /\ ChanSize >= 1
    /\ MaxSignals \in Nat /\ MaxFinalizers \in Nat
    /\ MainThread \in Threads
  BY PendingAssumption

LEMMA TypeInit == PendingInit => TypeInv
  <1> SUFFICES ASSUME PendingInit PROVE TypeInv
    OBVIOUS
  <1>1. /\ pending \in Seq(Signals) /\ deferred \in Seq(Finalizers) /\ ch \in Seq(Signals)
        /\ called \in Seq(Signals) /\ finalized \in Seq(Finalizers)
        /\ Len(pending) = 0 /\ Len(ch) = 0
    BY DEF PendingInit
  <1>2. batch \in [Threads -> Seq(Finalizers)]
    BY DEF PendingInit
  <1>3. loop \in [at : {"select", "deliver", "add", "set", "gone"}, sig : 0 .. MaxSignals]
    BY Bounds DEF PendingInit
  <1>4. /\ callsPending \in [Threads -> BOOLEAN]
        /\ pc \in [Threads -> {"run", "finalize", "drain"}]
        /\ {handled, stopped} \subseteq BOOLEAN
        /\ armLeft \subseteq Threads /\ dropped \subseteq Signals
    BY DEF PendingInit
  <1>5. /\ sent \in 0 .. MaxSignals /\ queued \in 0 .. MaxFinalizers
        /\ Len(pending) <= QueueSize /\ Len(ch) <= ChanSize
    BY <1>1, Bounds DEF PendingInit
  <1>6. LoopOK
    BY DEF PendingInit, LoopOK
  <1> QED BY <1>1, <1>2, <1>3, <1>4, <1>5, <1>6 DEF TypeInv, PendingTypeOK

(* Every action keeps the types, and a bridge that is busy has a signal.   *)
LEMMA TypeInductive ==
    ASSUME TypeInv, [PendingNext]_vars
    PROVE  TypeInv'
  <1> USE PendingAssumption DEF TypeInv, PendingTypeOK, LoopOK, Signals, Finalizers
  <1>1. CASE Arrive
    <2>1. sent + 1 \in Signals
      BY <1>1 DEF Arrive
    <2>2. /\ Append(ch, sent + 1) \in Seq(Signals)
          /\ Len(Append(ch, sent + 1)) = Len(ch) + 1
      BY <2>1, ListProps DEF Signals
    <2>3. ch' \in Seq(Signals) /\ Len(ch') <= ChanSize
      <3>1. Len(ch) \in Nat
        BY ListProps
      <3>2. CASE Len(ch) < ChanSize
        BY <1>1, <2>2, <3>1, <3>2, Bounds DEF Arrive
      <3>3. CASE ~(Len(ch) < ChanSize)
        BY <1>1, <3>3 DEF Arrive
      <3> QED BY <3>2, <3>3
    <2> QED BY <1>1, <2>1, <2>3 DEF Arrive, evalVars
  <1>2. CASE SetHandler
    BY <1>2 DEF SetHandler, evalVars
  <1>3. CASE Stop
    BY <1>3 DEF Stop, evalVars
  <1>4. CASE Select
    <2>1. CASE UNCHANGED ch /\ loop' = [loop EXCEPT !.at = "gone"]
      BY <1>4, <2>1 DEF Select, evalVars
    <2>2. CASE ch # << >> /\ loop' = [at |-> "deliver", sig |-> Head(ch)] /\ ch' = Tail(ch)
      <3>1. Head(ch) \in Signals /\ ch' \in Seq(Signals) /\ Len(ch') <= ChanSize
        BY <2>2, ListProps, SMTT(30)
      <3>2. /\ loop' \in [at : {"select", "deliver", "add", "set", "gone"}, sig : 0 .. MaxSignals]
            /\ loop'.sig \in Signals
        BY <2>2, <3>1
      <3>3. UNCHANGED <<callsPending, pending, deferred, armLeft, queued,
                        handled, stopped, sent, dropped, pc, batch, called, finalized>>
        BY <1>4 DEF Select, evalVars
      <3> QED BY <3>1, <3>2, <3>3
    <2> QED BY <1>4, <2>1, <2>2 DEF Select
  <1>5. CASE Deliver
    BY <1>5 DEF Deliver, evalVars
  <1>6. CASE Add
    <2>1. CASE Len(pending) < QueueSize /\ pending' = Append(pending, loop.sig)
               /\ loop' = [loop EXCEPT !.at = "set"]
      <3>1. pending' \in Seq(Signals) /\ Len(pending') <= QueueSize
        BY <1>6, <2>1, ListProps DEF Add
      <3> QED BY <1>6, <2>1, <3>1 DEF Add, evalVars
    <2>2. CASE UNCHANGED pending /\ loop' = [loop EXCEPT !.at = "select"]
      BY <1>6, <2>2 DEF Add, evalVars
    <2> QED BY <1>6, <2>1, <2>2 DEF Add
  <1>7. CASE SetPending
    BY <1>7 DEF SetPending, evalVars
  <1>8. CASE Defer
    <2>1. queued + 1 \in Finalizers
      BY <1>8 DEF Defer
    <2>2. deferred' \in Seq(Finalizers)
      BY <1>8, <2>1, ListProps DEF Defer
    <2> QED BY <1>8, <2>1, <2>2 DEF Defer, bridgeVars, evalVars
  <1>9. CASE Arm
    BY <1>9 DEF Arm, bridgeVars, evalVars
  <1>10. ASSUME NEW t \in Threads, EvalStep(t) PROVE TypeInv'
    <2>1. CASE HandleBreaker(t)
      BY <2>1 DEF HandleBreaker, Becomes, bridgeVars
    <2>2. CASE TakeBatch(t)
      BY <2>2 DEF TakeBatch, bridgeVars
    <2>3. CASE Finalize(t)
      <3>1. batch[t] \in Seq(Finalizers) /\ batch[t] # << >>
        BY <2>3 DEF Finalize
      <3>2. Head(batch[t]) \in Finalizers /\ Tail(batch[t]) \in Seq(Finalizers)
        BY <3>1, ListProps
      <3>3. finalized' \in Seq(Finalizers)
        BY <2>3, <3>2, ListProps DEF Finalize
      <3>4. batch' \in [Threads -> Seq(Finalizers)]
        BY <2>3, <3>2 DEF Finalize
      <3> QED BY <2>3, <3>3, <3>4 DEF Finalize, bridgeVars
    <2>4. CASE Finalized(t)
      BY <2>4 DEF Finalized, Becomes, bridgeVars
    <2>5. CASE Call(t)
      <3>1. pending \in Seq(Signals) /\ pending # << >>
        BY <2>5 DEF Call
      <3>2. /\ Head(pending) \in Signals /\ Tail(pending) \in Seq(Signals)
            /\ Len(Tail(pending)) <= QueueSize
        BY <3>1, ListProps, SMTT(30)
      <3>3. called' \in Seq(Signals)
        BY <2>5, <3>2, ListProps DEF Call
      <3> QED BY <2>5, <3>2, <3>3 DEF Call, Becomes, bridgeVars
    <2>6. CASE Drained(t)
      BY <2>6 DEF Drained, Becomes, bridgeVars
    <2> QED BY <1>10, <2>1, <2>2, <2>3, <2>4, <2>5, <2>6 DEF EvalStep
  <1>11. CASE UNCHANGED vars
    BY <1>11 DEF vars, bridgeVars, evalVars
  <1> QED BY <1>1, <1>2, <1>3, <1>4, <1>5, <1>6, <1>7, <1>8, <1>9, <1>10, <1>11
          DEF PendingNext, LoopStep

(* Everything is of its type in every reachable state: the queue and the   *)
(* channel stay within their capacity.                                     *)
THEOREM TypeInvariance == PendingSpec => []TypeInv
  <1>1. TypeInv /\ [PendingNext]_vars => TypeInv'
    BY TypeInductive
  <1> QED BY <1>1, TypeInit, PTL DEF PendingSpec

-----------------------------------------------------------------------------

(* A thread is told, in FinalizersAnnounced's sense. *)
Told(t) == callsPending[t] \/ t \in armLeft \/ pc[t] = "finalize"

(* Nobody takes the announcement away without looking at the list until it *)
(* is empty: the thread that clears its bit goes on to finalize, and       *)
(* leaves that with nothing deferred.                                      *)
LEMMA AnnouncedInductive ==
    ASSUME TypeInv, FinalizersAnnounced, [PendingNext]_vars
    PROVE  FinalizersAnnounced'
  <1> SUFFICES ASSUME deferred' # << >>, NEW u \in Threads
               PROVE  Told(u)'
    BY DEF FinalizersAnnounced, Told
  <1>0. deferred # << >> => Told(u)
    BY DEF FinalizersAnnounced, Told
  <1> USE DEF Told, TypeInv, PendingTypeOK
  <1>1. CASE Arrive \/ SetHandler \/ Stop \/ Select \/ Deliver \/ Add
    BY <1>0, <1>1 DEF Arrive, SetHandler, Stop, Select, Deliver, Add, evalVars
  <1>2. CASE SetPending
    BY <1>0, <1>2 DEF SetPending, evalVars
  <1>3. CASE Defer
    BY <1>3 DEF Defer, evalVars
  <1>4. CASE Arm
    BY <1>0, <1>4 DEF Arm, evalVars
  <1>5. ASSUME NEW t \in Threads, EvalStep(t) PROVE Told(u)'
    <2>1. CASE HandleBreaker(t)
      BY <1>0, <2>1 DEF HandleBreaker, Becomes
    <2>2. CASE TakeBatch(t)
      BY <2>2 DEF TakeBatch
    <2>3. CASE Finalize(t)
      BY <1>0, <2>3 DEF Finalize
    <2>4. CASE Finalized(t)
      BY <2>4 DEF Finalized
    <2>5. CASE Call(t)
      BY <1>0, <2>5 DEF Call, Becomes
    <2>6. CASE Drained(t)
      BY <1>0, <2>6 DEF Drained, Becomes
    <2> QED BY <1>5, <2>1, <2>2, <2>3, <2>4, <2>5, <2>6 DEF EvalStep
  <1>6. CASE UNCHANGED vars
    BY <1>0, <1>6 DEF vars, evalVars
  <1> QED BY <1>1, <1>2, <1>3, <1>4, <1>5, <1>6 DEF PendingNext, LoopStep

(* finalizer_defer.go:77, handleEvalBreaker: as long as finalizers are     *)
(* queued, every thread is told, whatever the polls of the others.         *)
THEOREM FinalizersStayAnnounced == PendingSpec => []FinalizersAnnounced
  <1>1. PendingInit => FinalizersAnnounced
    BY DEF PendingInit, FinalizersAnnounced
  <1>2. TypeInv /\ FinalizersAnnounced /\ [PendingNext]_vars => FinalizersAnnounced'
    BY AnnouncedInductive
  <1> QED BY <1>1, <1>2, TypeInvariance, PTL DEF PendingSpec

-----------------------------------------------------------------------------

(* The bit of the main thread covers its queue until a handler raises.     *)
LEMMA CallsInductive ==
    ASSUME TypeInv, CallsAnnounced, [PendingNext]_vars
    PROVE  CallsAnnounced'
  <1> USE PendingAssumption DEF TypeInv, PendingTypeOK, CallsAnnounced
  <1>1. CASE Arrive \/ SetHandler \/ Stop \/ Select \/ Deliver
    BY <1>1 DEF Arrive, SetHandler, Stop, Select, Deliver, evalVars, CutShort
  <1>2. CASE Add
    BY <1>2 DEF Add, evalVars, CutShort
  <1>3. CASE SetPending
    BY <1>3 DEF SetPending, evalVars, CutShort
  <1>4. CASE Defer \/ Arm
    BY <1>4 DEF Defer, Arm, evalVars, bridgeVars, CutShort
  <1>5. ASSUME NEW t \in Threads, EvalStep(t) PROVE CallsAnnounced'
    <2>1. CASE HandleBreaker(t)
      BY <2>1 DEF HandleBreaker, Becomes, bridgeVars, CutShort
    <2>2. CASE TakeBatch(t) \/ Finalize(t)
      BY <2>2 DEF TakeBatch, Finalize, bridgeVars, CutShort
    <2>3. CASE Finalized(t)
      BY <2>3 DEF Finalized, Becomes, bridgeVars, CutShort
    <2>4. CASE Call(t)
      <3>1. /\ called' = Append(called, Head(pending)) /\ Head(pending) \in Signals
            /\ pc' = [pc EXCEPT ![MainThread] = IF Head(pending) \in Failing
                                                 THEN "run" ELSE "drain"]
        BY <2>4, ListProps DEF Call, Becomes
      <3>2. Len(called') = Len(called) + 1 /\ called'[Len(called')] = Head(pending)
        BY <3>1, ListProps
      <3>3. called' # << >>
        BY <3>1, AppendNotEmpty
      <3>4. CASE Head(pending) \in Failing
        BY <3>2, <3>3, <3>4 DEF CutShort
      <3>5. CASE Head(pending) \notin Failing
        BY <3>1, <3>5
      <3> QED BY <3>4, <3>5
    <2>5. CASE Drained(t)
      BY <2>5 DEF Drained, Becomes, bridgeVars, CutShort
    <2> QED BY <1>5, <2>1, <2>2, <2>3, <2>4, <2>5 DEF EvalStep
  <1>6. CASE UNCHANGED vars
    BY <1>6 DEF vars, evalVars, bridgeVars, CutShort
  <1> QED BY <1>1, <1>2, <1>3, <1>4, <1>5, <1>6 DEF PendingNext, LoopStep

(* pending.go:3, 52: while the queue has callbacks the main thread is told *)
(* or at them, or the last of them raised.                                 *)
THEOREM CallsStayAnnounced == PendingSpec => []CallsAnnounced
  <1>1. PendingInit => CallsAnnounced
    BY DEF PendingInit, CallsAnnounced
  <1>2. TypeInv /\ CallsAnnounced /\ [PendingNext]_vars => CallsAnnounced'
    BY CallsInductive
  <1> QED BY <1>1, <1>2, TypeInvariance, PTL DEF PendingSpec

-----------------------------------------------------------------------------

(* What a list has after something was put at its end.                     *)
LEMMA AppendElements ==
    ASSUME NEW S, NEW s \in Seq(S), NEW x \in S
    PROVE  /\ Elements(Append(s, x)) = Elements(s) \cup {x}
           /\ Distinct(s) /\ x \notin Elements(s) => Distinct(Append(s, x))
  <1> DEFINE a == Append(s, x)
  <1>1. /\ Len(s) \in Nat /\ Len(a) = Len(s) + 1 /\ a[Len(s) + 1] = x
        /\ \A i \in 1 .. Len(s) : a[i] = s[i]
    BY ListProps
  <1> HIDE DEF a
  <1>2. \A i \in 1 .. Len(a) : i \in 1 .. Len(s) \/ i = Len(s) + 1
    BY <1>1
  <1>3. 1 .. Len(s) \subseteq 1 .. Len(a) /\ Len(s) + 1 \in 1 .. Len(a)
    BY <1>1
  <1>4. Elements(a) = Elements(s) \cup {x}
    BY <1>1, <1>2, <1>3 DEF Elements
  <1>5. Distinct(s) /\ x \notin Elements(s) => Distinct(a)
    BY <1>1, <1>2 DEF Distinct, Elements
  <1> QED BY <1>4, <1>5 DEF a

(* What a list with nothing twice has after its head was taken off.        *)
LEMMA TailElements ==
    ASSUME NEW S, NEW s \in Seq(S), s # << >>, Distinct(s)
    PROVE  /\ Elements(s) = Elements(Tail(s)) \cup {Head(s)}
           /\ Head(s) \notin Elements(Tail(s)) /\ Distinct(Tail(s))
  <1> DEFINE a == Tail(s)
  <1>1. /\ Len(s) \in Nat /\ Len(s) >= 1 /\ Len(a) = Len(s) - 1 /\ Head(s) = s[1]
        /\ \A i \in 1 .. Len(a) : a[i] = s[i + 1]
    BY ListProps
  <1> HIDE DEF a
  <1>2. \A i \in 1 .. Len(a) : i + 1 \in 1 .. Len(s) /\ i + 1 # 1 /\ i \in Nat
    BY <1>1
  <1>3. \A i \in 1 .. Len(s) : i = 1 \/ (i - 1 \in 1 .. Len(a) /\ (i - 1) + 1 = i)
    BY <1>1
  <1>4. 1 \in 1 .. Len(s)
    BY <1>1
  <1>5. Elements(s) = Elements(a) \cup {s[1]}
    <2>1. ASSUME NEW i \in 1 .. Len(s) PROVE s[i] \in Elements(a) \cup {s[1]}
      <3>1. CASE i = 1
        BY <3>1
      <3>2. CASE i # 1
        <4>1. i - 1 \in 1 .. Len(a) /\ a[i - 1] = s[(i - 1) + 1] /\ (i - 1) + 1 = i
          BY <1>1, <1>3, <3>2
        <4> QED BY <4>1 DEF Elements
      <3> QED BY <3>1, <3>2
    <2>2. \A i \in 1 .. Len(a) : a[i] \in Elements(s)
      BY <1>1, <1>2 DEF Elements
    <2>3. s[1] \in Elements(s)
      BY <1>4 DEF Elements
    <2> QED BY <2>1, <2>2, <2>3 DEF Elements
  <1>6. s[1] \notin Elements(a)
    BY <1>1, <1>2, <1>4 DEF Elements, Distinct
  <1>7. Distinct(a)
    <2> SUFFICES ASSUME NEW i \in 1 .. Len(a), NEW j \in 1 .. Len(a), a[i] = a[j]
                 PROVE  i = j
      BY DEF Distinct
    <2>1. i + 1 = j + 1
      BY <1>1, <1>2 DEF Distinct
    <2> QED BY <1>2, <2>1
  <1> QED BY <1>1, <1>5, <1>6, <1>7 DEF a

(* A finalizer goes from the list to a batch with all the others, and from *)
(* the batch by itself.                                                    *)
LEMMA KeptInductive ==
    ASSUME TypeInv, FinalizersKept, [PendingNext]_vars
    PROVE  FinalizersKept'
  <1>0. /\ deferred \in Seq(Finalizers) /\ finalized \in Seq(Finalizers)
        /\ batch \in [Threads -> Seq(Finalizers)] /\ queued \in Nat
    BY Bounds DEF TypeInv, PendingTypeOK
  <1>1. CASE Arrive \/ SetHandler \/ Stop \/ LoopStep \/ Arm
    <2>1. UNCHANGED <<deferred, finalized, batch, queued>>
      BY <1>1 DEF Arrive, SetHandler, Stop, LoopStep, Select, Deliver, Add, SetPending,
                  Arm, evalVars
    <2> QED BY <2>1 DEF FinalizersKept
  <1>2. CASE Defer
    <2>1. /\ UNCHANGED <<finalized, batch>> /\ queued' = queued + 1
          /\ deferred' = Append(deferred, queued + 1) /\ queued + 1 \in Finalizers
      BY <1>2, Bounds DEF Defer, evalVars, Finalizers, TypeInv, PendingTypeOK
    <2>2. 1 .. queued' = (1 .. queued) \cup {queued + 1} /\ queued + 1 \notin 1 .. queued
      BY <1>0, <2>1
    <2>3. /\ Elements(deferred) \subseteq 1 .. queued /\ Elements(finalized) \subseteq 1 .. queued
          /\ \A t \in Threads : Elements(batch[t]) \subseteq 1 .. queued
      BY DEF FinalizersKept
    <2>4. Elements(deferred') = Elements(deferred) \cup {queued + 1} /\ Distinct(deferred')
      BY <1>0, <2>1, <2>2, <2>3, AppendElements DEF FinalizersKept
    <2>5. 1 .. queued' = Elements(deferred') \cup Elements(finalized')
                           \cup UNION { Elements(batch'[t]) : t \in Threads }
      <3>1. 1 .. queued = Elements(deferred) \cup Elements(finalized)
                            \cup UNION { Elements(batch[t]) : t \in Threads }
        BY DEF FinalizersKept
      <3> QED BY <2>1, <2>2, <2>4, <3>1
    <2>6. /\ Elements(deferred') \cap Elements(finalized') = {}
          /\ \A t \in Threads :
                Elements(batch'[t]) \cap (Elements(deferred') \cup Elements(finalized')) = {}
      BY <2>1, <2>2, <2>3, <2>4 DEF FinalizersKept
    <2> QED BY <2>1, <2>4, <2>5, <2>6 DEF FinalizersKept
  <1>3. ASSUME NEW t \in Threads, EvalStep(t) PROVE FinalizersKept'
    <2>1. CASE HandleBreaker(t) \/ Finalized(t) \/ Call(t) \/ Drained(t)
      <3>1. UNCHANGED <<deferred, finalized, batch, queued>>
        BY <2>1 DEF HandleBreaker, Finalized, Call, Drained
      <3> QED BY <3>1 DEF FinalizersKept
    <2>2. CASE TakeBatch(t)
      <3>1. /\ UNCHANGED <<finalized, queued>> /\ deferred' = << >> /\ batch[t] = << >>
            /\ batch'[t] = deferred /\ \A u \in Threads : u # t => batch'[u] = batch[u]
        BY <1>0, <2>2 DEF TakeBatch
      <3>2. Elements(<< >>) = {} /\ Distinct(<< >>)
        BY DEF Elements, Distinct
      <3>3. Elements(batch[t]) = {} /\ Elements(deferred') = {} /\ Distinct(deferred')
        BY <3>1, <3>2
      <3>4. Elements(deferred') \cup UNION { Elements(batch'[u]) : u \in Threads }
              = Elements(deferred) \cup UNION { Elements(batch[u]) : u \in Threads }
        BY <3>1, <3>3
      <3> QED BY <3>1, <3>3, <3>4 DEF FinalizersKept
    <2>3. CASE Finalize(t)
      <3> DEFINE x == Head(batch[t])
      <3>1. /\ UNCHANGED <<deferred, queued>> /\ batch[t] # << >> /\ batch[t] \in Seq(Finalizers)
            /\ finalized' = Append(finalized, x)
            /\ batch'[t] = Tail(batch[t]) /\ \A u \in Threads : u # t => batch'[u] = batch[u]
        BY <1>0, <2>3 DEF Finalize
      <3>2. x \in Finalizers
        BY <3>1, ListProps
      <3>3. /\ Elements(batch[t]) = Elements(batch'[t]) \cup {x}
            /\ x \notin Elements(batch'[t]) /\ Distinct(batch'[t])
        BY <3>1, TailElements DEF FinalizersKept
      <3>4. x \notin Elements(finalized)
        BY <3>3 DEF FinalizersKept
      <3>5. Elements(finalized') = Elements(finalized) \cup {x} /\ Distinct(finalized')
        BY <1>0, <3>1, <3>2, <3>4, AppendElements DEF FinalizersKept
      <3> HIDE DEF x
      <3>6. Elements(finalized') \cup UNION { Elements(batch'[u]) : u \in Threads }
              = Elements(finalized) \cup UNION { Elements(batch[u]) : u \in Threads }
        BY <3>1, <3>3, <3>5
      <3>7. \A u \in Threads : Elements(batch'[u]) \subseteq Elements(batch[u])
        BY <3>1, <3>3
      <3>8. \A u \in Threads : x \notin Elements(batch'[u])
        BY <3>1, <3>3 DEF FinalizersKept
      <3>9. x \notin Elements(deferred)
        BY <3>3 DEF FinalizersKept
      <3>10. 1 .. queued' = Elements(deferred') \cup Elements(finalized')
                              \cup UNION { Elements(batch'[u]) : u \in Threads }
        BY <3>1, <3>6 DEF FinalizersKept
      <3>11. /\ Elements(deferred') \cap Elements(finalized') = {}
             /\ \A u \in Threads :
                   Elements(batch'[u]) \cap (Elements(deferred') \cup Elements(finalized')) = {}
        <4>1. /\ Elements(deferred) \cap Elements(finalized) = {}
              /\ \A u \in Threads :
                    Elements(batch[u]) \cap (Elements(deferred) \cup Elements(finalized)) = {}
          BY DEF FinalizersKept
        <4>2. deferred' = deferred
          BY <3>1
        <4> QED BY <3>5, <3>7, <3>8, <3>9, <4>1, <4>2
      <3>12. \A u, v \in Threads : u # v => Elements(batch'[u]) \cap Elements(batch'[v]) = {}
        BY <3>7 DEF FinalizersKept
      <3>13. /\ Distinct(deferred') /\ Distinct(finalized')
             /\ \A u \in Threads : Distinct(batch'[u])
        BY <3>1, <3>3, <3>5 DEF FinalizersKept
      <3> QED BY <3>10, <3>11, <3>12, <3>13 DEF FinalizersKept
    <2> QED BY <1>3, <2>1, <2>2, <2>3 DEF EvalStep
  <1>4. CASE UNCHANGED vars
    BY <1>4 DEF vars, evalVars, FinalizersKept
  <1> QED BY <1>1, <1>2, <1>3, <1>4 DEF PendingNext

(* finalizer_defer.go:26, 70-82: a finalizer that was queued is in one     *)
(* place from there on, however threads take batches: none is lost, and    *)
(* none is run twice.                                                      *)
THEOREM FinalizersStayKept == PendingSpec => []FinalizersKept
  <1>1. PendingInit => FinalizersKept
    BY DEF PendingInit, FinalizersKept, Elements, Distinct
  <1>2. TypeInv /\ FinalizersKept /\ [PendingNext]_vars => FinalizersKept'
    BY KeptInductive
  <1> QED BY <1>1, <1>2, TypeInvariance, PTL DEF PendingSpec

-----------------------------------------------------------------------------

(* An element goes to the end of a list that it is not below.              *)
LEMMA AppendKeepsOrder ==
    ASSUME NEW S \in SUBSET Nat, NEW r \in Seq(S), NEW s \in Seq(S),
           NEW x \in S, NEW y \in Nat
    PROVE  /\ Increasing(s) /\ Below(s, x) => Increasing(Append(s, x))
           /\ AllBefore(r, s) /\ Below(r, x) => AllBefore(r, Append(s, x))
           /\ AllBefore(s, r) /\ Above(x, r) => AllBefore(Append(s, x), r)
           /\ Below(s, y) /\ x < y => Below(Append(s, x), y)
           /\ Above(y, s) /\ y < x => Above(y, Append(s, x))
  <1>1. /\ Len(s) \in Nat /\ Len(r) \in Nat
        /\ \A i \in 1 .. Len(s) : s[i] \in Nat
        /\ \A i \in 1 .. Len(r) : r[i] \in Nat
        /\ x \in Nat
    BY ListProps
  <1> DEFINE a == Append(s, x)
  <1>2. /\ Len(a) = Len(s) + 1 /\ a[Len(s) + 1] = x
        /\ \A i \in 1 .. Len(s) : a[i] = s[i]
    BY ListProps
  <1> HIDE DEF a
  <1>3. Increasing(s) /\ Below(s, x) => Increasing(a)
    <2> SUFFICES ASSUME Increasing(s), Below(s, x),
                        NEW i \in 1 .. Len(a), NEW j \in 1 .. Len(a), i < j
                 PROVE  a[i] < a[j]
      BY DEF Increasing
    <2>1. i \in 1 .. Len(s) /\ a[i] = s[i]
      BY <1>1, <1>2
    <2>2. CASE j \in 1 .. Len(s)
      BY <1>2, <2>1, <2>2 DEF Increasing
    <2>3. CASE j = Len(s) + 1
      BY <1>2, <2>1, <2>3 DEF Below
    <2>4. j \in 1 .. Len(s) \/ j = Len(s) + 1
      <3>1. j \in 1 .. Len(s) + 1
        BY <1>2
      <3> QED BY <1>1, <3>1
    <2> QED BY <2>2, <2>3, <2>4
  <1>4. AllBefore(r, s) /\ Below(r, x) => AllBefore(r, a)
    BY <1>1, <1>2 DEF AllBefore, Below
  <1>5. AllBefore(s, r) /\ Above(x, r) => AllBefore(a, r)
    BY <1>1, <1>2 DEF AllBefore, Above
  <1>6. Below(s, y) /\ x < y => Below(a, y)
    BY <1>1, <1>2 DEF Below
  <1>7. Above(y, s) /\ y < x => Above(y, a)
    BY <1>1, <1>2 DEF Above
  <1> QED BY <1>3, <1>4, <1>5, <1>6, <1>7 DEF a

(* The oldest element is taken off a list.                                 *)
LEMMA TailKeepsOrder ==
    ASSUME NEW S \in SUBSET Nat, NEW r \in Seq(S), NEW s \in Seq(S), s # << >>, NEW y \in Nat
    PROVE  /\ Increasing(s) => Increasing(Tail(s)) /\ Above(Head(s), Tail(s))
           /\ AllBefore(r, s) => AllBefore(r, Tail(s)) /\ Below(r, Head(s))
           /\ AllBefore(s, r) => AllBefore(Tail(s), r) /\ Above(Head(s), r)
           /\ Below(s, y) => Below(Tail(s), y) /\ Head(s) < y
           /\ Above(y, s) => Above(y, Tail(s)) /\ y < Head(s)
  <1>1. /\ Len(s) \in Nat /\ Len(r) \in Nat /\ Len(s) >= 1
        /\ \A i \in 1 .. Len(s) : s[i] \in Nat
        /\ \A i \in 1 .. Len(r) : r[i] \in Nat
        /\ Head(s) = s[1]
    BY ListProps
  <1> DEFINE a == Tail(s)
  <1>2. /\ Len(a) = Len(s) - 1
        /\ \A i \in 1 .. Len(a) : a[i] = s[i + 1]
    BY ListProps
  <1> HIDE DEF a
  <1>3. Increasing(s) => Increasing(a) /\ Above(Head(s), a)
    <2> SUFFICES ASSUME Increasing(s) PROVE Increasing(a) /\ Above(s[1], a)
      BY <1>1
    <2>1. \A i \in 1 .. Len(a) : i + 1 \in 1 .. Len(s) /\ 1 < i + 1 /\ a[i] = s[i + 1]
      BY <1>1, <1>2
    <2>2. ASSUME NEW i \in 1 .. Len(a), NEW j \in 1 .. Len(a), i < j
          PROVE  a[i] < a[j]
      <3>1. i + 1 < j + 1
        BY <2>2, <1>1, <1>2
      <3> QED BY <2>1, <3>1 DEF Increasing
    <2>3. ASSUME NEW i \in 1 .. Len(a)
          PROVE  s[1] < a[i]
      BY <1>1, <2>1 DEF Increasing
    <2> QED BY <2>2, <2>3 DEF Increasing, Above
  <1>4. AllBefore(r, s) => AllBefore(r, a) /\ Below(r, s[1])
    <2>1. 1 \in 1 .. Len(s) /\ \A i \in 1 .. Len(a) : i + 1 \in 1 .. Len(s)
      BY <1>1, <1>2
    <2> QED BY <1>2, <2>1 DEF AllBefore, Below
  <1>5. AllBefore(s, r) => AllBefore(a, r) /\ Above(s[1], r)
    <2>1. 1 \in 1 .. Len(s) /\ \A i \in 1 .. Len(a) : i + 1 \in 1 .. Len(s)
      BY <1>1, <1>2
    <2> QED BY <1>2, <2>1 DEF AllBefore, Above
  <1>6. Below(s, y) => Below(a, y) /\ Head(s) < y
    BY <1>1, <1>2 DEF Below
  <1>7. Above(y, s) => Above(y, a) /\ y < Head(s)
    BY <1>1, <1>2 DEF Above
  <1> QED BY <1>1, <1>3, <1>4, <1>5, <1>6, <1>7 DEF a

(* A signal goes from one place to the next at the end that keeps the      *)
(* order.                                                                  *)
LEMMA OrderInductive ==
    ASSUME TypeInv, InOrder, [PendingNext]_vars
    PROVE  InOrder'
  <1>0. /\ called \in Seq(Signals) /\ pending \in Seq(Signals) /\ ch \in Seq(Signals)
        /\ sent \in Nat /\ Signals \in SUBSET Nat
        /\ InHand => loop.sig \in Signals /\ loop.sig \in Nat
    BY Bounds DEF TypeInv, PendingTypeOK, LoopOK, InHand, Signals
  <1>1. CASE Arrive
    <2>0. /\ sent' = sent + 1 /\ sent + 1 \in Signals
          /\ UNCHANGED <<called, pending, loop>>
      BY <1>1, Bounds DEF Arrive, evalVars, Signals, TypeInv, PendingTypeOK
    <2>1. \A s \in Seq(Signals) : Below(s, sent + 1) => Below(s, sent' + 1)
      <3> SUFFICES ASSUME NEW s \in Seq(Signals), Below(s, sent + 1)
                   PROVE  Below(s, sent' + 1)
        OBVIOUS
      <3>1. \A i \in 1 .. Len(s) : s[i] \in Nat
        BY <1>0, ListProps
      <3> QED BY <1>0, <2>0, <3>1 DEF Below
    <2>2. InHand => loop.sig < sent + 1 /\ loop.sig < sent' + 1
      BY <1>0, <2>0 DEF InOrder
    <2>3. CASE ch' = ch
      BY <1>0, <2>0, <2>1, <2>2, <2>3 DEF InOrder, InHand
    <2>4. CASE ch' = Append(ch, sent + 1)
      <3>1. /\ Increasing(ch') /\ AllBefore(called, ch') /\ AllBefore(pending, ch')
            /\ InHand => Above(loop.sig, ch')
        BY <1>0, <2>0, <2>2, <2>4, AppendKeepsOrder DEF InOrder
      <3>2. Below(ch', sent' + 1)
        <4>1. sent' + 1 \in Nat /\ sent + 1 < sent' + 1 /\ Below(ch, sent' + 1)
          BY <1>0, <2>0, <2>1 DEF InOrder
        <4> QED BY <1>0, <2>0, <2>4, <4>1, AppendKeepsOrder
      <3> QED BY <1>0, <2>0, <2>1, <2>2, <3>1, <3>2 DEF InOrder, InHand
    <2> QED BY <1>1, <2>3, <2>4 DEF Arrive
  <1>2. CASE SetHandler \/ Stop \/ SetPending \/ Defer \/ Arm
    <2>1. /\ UNCHANGED <<called, pending, ch, sent>>
          /\ loop' = loop \/ loop' = [loop EXCEPT !.at = "select"]
      BY <1>2 DEF SetHandler, Stop, SetPending, Defer, Arm, evalVars, bridgeVars
    <2>2. InHand' => InHand /\ loop' = loop
      BY <2>1 DEF InHand, TypeInv, PendingTypeOK
    <2> QED BY <2>1, <2>2 DEF InOrder
  <1>3. CASE Select
    <2>0. UNCHANGED <<called, pending, sent>>
      BY <1>3 DEF Select, evalVars
    <2>1. CASE UNCHANGED ch /\ loop' = [loop EXCEPT !.at = "gone"]
      <3>1. ~InHand'
        BY <2>1 DEF InHand, TypeInv, PendingTypeOK
      <3> QED BY <2>0, <2>1, <3>1 DEF InOrder
    <2>2. CASE ch # << >> /\ loop' = [at |-> "deliver", sig |-> Head(ch)] /\ ch' = Tail(ch)
      <3>1. loop'.sig = Head(ch)
        BY <2>2
      <3>2. sent + 1 \in Nat
        BY <1>0
      <3>3. /\ Increasing(ch') /\ AllBefore(called, ch') /\ AllBefore(pending, ch')
            /\ Below(ch', sent + 1) /\ Head(ch) < sent + 1
            /\ Below(called, Head(ch)) /\ Below(pending, Head(ch)) /\ Above(Head(ch), ch')
        BY <1>0, <2>2, <3>2, TailKeepsOrder DEF InOrder
      <3> QED BY <2>0, <3>1, <3>3 DEF InOrder
    <2> QED BY <1>3, <2>1, <2>2 DEF Select
  <1>4. CASE Deliver
    <2>1. UNCHANGED <<called, pending, ch, sent>> /\ InHand /\ loop'.sig = loop.sig
      BY <1>4 DEF Deliver, evalVars, InHand, TypeInv, PendingTypeOK
    <2> QED BY <2>1 DEF InOrder
  <1>5. CASE Add
    <2>0. UNCHANGED <<called, ch, sent>> /\ InHand /\ ~InHand'
      BY <1>5 DEF Add, evalVars, InHand, TypeInv, PendingTypeOK
    <2>1. CASE pending' = pending
      BY <2>0, <2>1 DEF InOrder
    <2>2. CASE pending' = Append(pending, loop.sig)
      <3>1. sent + 1 \in Nat
        BY <1>0
      <3>2. /\ Increasing(pending') /\ AllBefore(called, pending')
            /\ AllBefore(pending', ch) /\ Below(pending', sent + 1)
        BY <1>0, <2>0, <2>2, <3>1, AppendKeepsOrder DEF InOrder
      <3> QED BY <2>0, <3>2 DEF InOrder
    <2> QED BY <1>5, <2>1, <2>2 DEF Add
  <1>6. ASSUME NEW t \in Threads, EvalStep(t) PROVE InOrder'
    <2>1. CASE HandleBreaker(t) \/ TakeBatch(t) \/ Finalize(t) \/ Finalized(t) \/ Drained(t)
      <3>1. UNCHANGED <<called, pending, ch, sent, loop>>
        BY <2>1 DEF HandleBreaker, TakeBatch, Finalize, Finalized, Drained, bridgeVars
      <3> QED BY <3>1 DEF InOrder, InHand
    <2>2. CASE Call(t)
      <3>0. /\ UNCHANGED <<ch, sent, loop>> /\ pending # << >>
            /\ called' = Append(called, Head(pending)) /\ pending' = Tail(pending)
        BY <2>2 DEF Call, bridgeVars
      <3>1. /\ Head(pending) \in Signals /\ Tail(pending) \in Seq(Signals)
            /\ sent + 1 \in Nat
            /\ InHand => loop.sig \in Nat
        BY <1>0, <3>0, ListProps
      <3>2. /\ Increasing(pending') /\ Above(Head(pending), pending')
            /\ AllBefore(called, pending') /\ Below(called, Head(pending))
            /\ AllBefore(pending', ch) /\ Above(Head(pending), ch)
            /\ Below(pending', sent + 1) /\ Head(pending) < sent + 1
        BY <1>0, <3>0, <3>1, TailKeepsOrder DEF InOrder
      <3>3. InHand => Below(pending', loop.sig) /\ Head(pending) < loop.sig
        BY <1>0, <3>0, <3>1, TailKeepsOrder DEF InOrder
      <3>4. Increasing(called') /\ AllBefore(called', pending')
        <4>1. Increasing(called) /\ pending' \in Seq(Signals)
          BY <3>0, <3>1 DEF InOrder
        <4> QED BY <1>0, <3>0, <3>1, <3>2, <4>1, AppendKeepsOrder
      <3>6. AllBefore(called', ch) /\ Below(called', sent + 1)
        <4>1. AllBefore(called, ch) /\ Below(called, sent + 1)
          BY DEF InOrder
        <4>2. AllBefore(Append(called, Head(pending)), ch)
          BY <1>0, <3>1, <3>2, <4>1, AppendKeepsOrder
        <4>3. Below(Append(called, Head(pending)), sent + 1)
          BY <1>0, <3>1, <3>2, <4>1, AppendKeepsOrder
        <4> QED BY <3>0, <4>2, <4>3
      <3>5. InHand => Below(called', loop.sig)
        BY <1>0, <3>0, <3>1, <3>3, AppendKeepsOrder DEF InOrder
      <3>7. InHand' => InHand /\ loop'.sig = loop.sig
        BY <3>0 DEF InHand
      <3>8. InOrder
        OBVIOUS
      <3> QED BY <3>0, <3>2, <3>3, <3>4, <3>5, <3>6, <3>7, <3>8 DEF InOrder
    <2> QED BY <1>6, <2>1, <2>2 DEF EvalStep
  <1>7. CASE UNCHANGED vars
    BY <1>7 DEF vars, evalVars, bridgeVars, InOrder, InHand
  <1> QED BY <1>1, <1>2, <1>3, <1>4, <1>5, <1>6, <1>7 DEF PendingNext, LoopStep

(* Two lists, each in order and the first before the second, are in order  *)
(* end to end.                                                             *)
LEMMA OrderedEndToEnd ==
    ASSUME TypeInv, InOrder
    PROVE  CallsInOrder
  <1> DEFINE all == called \o pending
  <1>1. /\ called \in Seq(Signals) /\ pending \in Seq(Signals)
        /\ Len(called) \in Nat /\ Len(pending) \in Nat
    BY ListProps DEF TypeInv, PendingTypeOK
  <1>2. /\ Len(all) = Len(called) + Len(pending)
        /\ \A i \in 1 .. Len(all) :
              all[i] = IF i <= Len(called) THEN called[i] ELSE pending[i - Len(called)]
    BY <1>1
  <1> SUFFICES ASSUME NEW i \in 1 .. Len(all), NEW j \in 1 .. Len(all), i < j
               PROVE  all[i] < all[j]
    BY DEF CallsInOrder
  <1> HIDE DEF all
  <1> USE DEF InOrder, Increasing, AllBefore
  <1>3. CASE j <= Len(called)
    BY <1>1, <1>2, <1>3
  <1>4. CASE i <= Len(called) /\ j > Len(called)
    BY <1>1, <1>2, <1>4
  <1>5. CASE i > Len(called)
    <2>1. /\ all[i] = pending[i - Len(called)] /\ all[j] = pending[j - Len(called)]
          /\ i - Len(called) \in 1 .. Len(pending) /\ j - Len(called) \in 1 .. Len(pending)
          /\ i - Len(called) < j - Len(called)
      BY <1>1, <1>2, <1>5
    <2> QED BY <2>1
  <1> QED BY <1>1, <1>3, <1>4, <1>5, <1>2

(* signals.go:96, pending.go:69: handlers run in the order in which their  *)
(* signals arrived and none twice, also when one raises.                   *)
THEOREM HandlersInOrder == PendingSpec => []CallsInOrder
  <1>1. PendingInit => InOrder
    BY DEF PendingInit, InOrder, Increasing, AllBefore, Below, InHand
  <1>2. TypeInv /\ InOrder /\ [PendingNext]_vars => InOrder'
    BY OrderInductive
  <1>3. TypeInv /\ InOrder => CallsInOrder
    BY OrderedEndToEnd
  <1> QED BY <1>1, <1>2, <1>3, TypeInvariance, PTL DEF PendingSpec

-----------------------------------------------------------------------------

(* The invariant of the breaker's work: no finalizer is lost or run twice, *)
(* every thread is told of those that are queued and the main thread of    *)
(* its callbacks, the queue keeps within its slots, and signals are        *)
(* handled in their order.                                                 *)
THEOREM PendingCorrect == PendingSpec => []PendingInv
  <1>1. TypeInv /\ FinalizersKept /\ FinalizersAnnounced /\ CallsAnnounced /\ CallsInOrder
           => PendingInv
    BY DEF PendingInv, TypeInv
  <1> QED BY <1>1, TypeInvariance, FinalizersStayKept, FinalizersStayAnnounced,
             CallsStayAnnounced, HandlersInOrder, PTL
=============================================================================
