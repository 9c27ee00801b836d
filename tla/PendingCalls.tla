---------------------------- MODULE PendingCalls ----------------------------
(***************************************************************************)
(* Work that reaches the eval loop from outside: the handlers of signals   *)
(* (gil/signals.go, gil/pending.go) and the finalizers Go's runtime hands  *)
(* over (objects/finalizer_defer.go), announced by the calls-pending bit   *)
(* of a thread's breaker (gil/breaker.go) and run by handleEvalBreaker.    *)
(*                                                                         *)
(* A callback is Python code and may give up the GIL, so the handlers of   *)
(* several threads interleave freely.  Breaker polls inside a callback are *)
(* not modelled.  One bridge, started once, for the queue of MainThread;   *)
(* the queues of other threads stay empty.  The bit SIGNALS_PENDING, which *)
(* the bridge sets and no code reads, is left out; finalizers are deferred *)
(* (EnableFinalizerDeferral has been called).                              *)
(***************************************************************************)
EXTENDS Naturals, Sequences, FiniteSets

CONSTANTS
    Threads,
    MainThread,
    QueueSize,      \* PendingQueueSize
    ChanSize,       \* capacity of the bridge's channel
    MaxSignals,     \* bound on the signals that arrive
    MaxFinalizers,  \* bound on the finalizers Go runs
    Failing,        \* the signals whose handler raises
    Stoppable       \* whether Stop is called

ASSUME PendingAssumption ==
    /\ MainThread \in Threads
    /\ {QueueSize, ChanSize} \subseteq Nat \ {0}
    /\ {MaxSignals, MaxFinalizers} \subseteq Nat
    /\ Failing \subseteq 1 .. MaxSignals
    /\ Stoppable \in BOOLEAN

VARIABLES
    callsPending,   \* BreakerCallsPending of each thread
    pending,        \* the queue, oldest first
    deferred,       \* deferredFinalizers
    armLeft,        \* threads FinalizerArmHook has still to reach
    ch, handled, stopped,   \* the bridge: channel, handlers[sig], stopCh
    loop,           \* where the bridge's goroutine is, and with which signal
    pc,             \* where handleEvalBreaker is in each thread
    batch,          \* the finalizers each thread has taken off deferred
    sent, queued,   \* signals and finalizers so far, numbered from 1
    called, finalized, dropped  \* history: what was run, or had no handler

bridgeVars == <<ch, handled, stopped, loop, sent, dropped>>
evalVars == <<pc, batch, called, finalized>>
vars == <<callsPending, pending, deferred, armLeft, queued, bridgeVars, evalVars>>

Signals == 1 .. MaxSignals
Finalizers == 1 .. MaxFinalizers

PendingTypeOK ==
    /\ callsPending \in [Threads -> BOOLEAN]
    /\ pending \in Seq(Signals) /\ Len(pending) <= QueueSize
    /\ deferred \in Seq(Finalizers)
    /\ armLeft \subseteq Threads
    /\ ch \in Seq(Signals) /\ Len(ch) <= ChanSize
    /\ {handled, stopped} \subseteq BOOLEAN
    /\ loop \in [at : {"select", "deliver", "add", "set", "gone"}, sig : 0 .. MaxSignals]
    /\ pc \in [Threads -> {"run", "finalize", "drain"}]
    /\ batch \in [Threads -> Seq(Finalizers)]
    /\ sent \in 0 .. MaxSignals /\ queued \in 0 .. MaxFinalizers
    /\ called \in Seq(Signals) /\ finalized \in Seq(Finalizers)
    /\ dropped \subseteq Signals

PendingInit ==
    /\ callsPending = [t \in Threads |-> FALSE]
    /\ pending = << >> /\ deferred = << >> /\ armLeft = {}
    /\ ch = << >> /\ handled = TRUE /\ stopped = FALSE
    /\ loop = [at |-> "select", sig |-> 0]
    /\ pc = [t \in Threads |-> "run"]
    /\ batch = [t \in Threads |-> << >>]
    /\ sent = 0 /\ queued = 0
    /\ called = << >> /\ finalized = << >> /\ dropped = {}

-----------------------------------------------------------------------------

(* os/signal delivers to a channel with room, as long as it is asked to.   *)
Arrive ==
    /\ sent < MaxSignals
    /\ handled /\ ~stopped
    /\ sent' = sent + 1
    /\ ch' = IF Len(ch) < ChanSize THEN Append(ch, sent + 1) ELSE ch
    /\ dropped' = IF Len(ch) < ChanSize THEN dropped ELSE dropped \cup {sent + 1}
    /\ UNCHANGED <<callsPending, pending, deferred, armLeft, queued,
                   handled, stopped, loop, evalVars>>

(* Handle and Unhandle. *)
SetHandler ==
    /\ ~stopped
    /\ handled' = ~handled
    /\ UNCHANGED <<callsPending, pending, deferred, armLeft, queued,
                   ch, stopped, loop, sent, dropped, evalVars>>

Stop ==
    /\ Stoppable
    /\ ~stopped
    /\ stopped' = TRUE
    /\ UNCHANGED <<callsPending, pending, deferred, armLeft, queued,
                   ch, handled, loop, sent, dropped, evalVars>>

(* loop: select takes whichever is ready. *)
Select ==
    /\ loop.at = "select"
    /\ \/ /\ stopped
          /\ loop' = [loop EXCEPT !.at = "gone"]
          /\ UNCHANGED ch
       \/ /\ ch # << >>
          /\ loop' = [at |-> "deliver", sig |-> Head(ch)]
          /\ ch' = Tail(ch)
    /\ UNCHANGED <<callsPending, pending, deferred, armLeft, queued,
                   handled, stopped, sent, dropped, evalVars>>

(* deliver: look the handler up. *)
Deliver ==
    /\ loop.at = "deliver"
    /\ loop' = [loop EXCEPT !.at = IF handled THEN "add" ELSE "select"]
    /\ dropped' = IF handled THEN dropped ELSE dropped \cup {loop.sig}
    /\ UNCHANGED <<callsPending, pending, deferred, armLeft, queued,
                   ch, handled, stopped, sent, evalVars>>

(* deliver: Pending.Add; a queue that is full refuses the callback.        *)
Add ==
    /\ loop.at = "add"
    /\ \/ /\ Len(pending) < QueueSize
          /\ pending' = Append(pending, loop.sig)
          /\ loop' = [loop EXCEPT !.at = "set"]
       \/ /\ Len(pending) = QueueSize
          /\ loop' = [loop EXCEPT !.at = "select"]
          /\ UNCHANGED pending
    /\ UNCHANGED <<callsPending, deferred, armLeft, queued,
                   ch, handled, stopped, sent, dropped, evalVars>>

SetPending ==
    /\ loop.at = "set"
    /\ callsPending' = [callsPending EXCEPT ![MainThread] = TRUE]
    /\ loop' = [loop EXCEPT !.at = "select"]
    /\ UNCHANGED <<pending, deferred, armLeft, queued,
                   ch, handled, stopped, sent, dropped, evalVars>>

-----------------------------------------------------------------------------

(* deferFinalizer, on the runtime's finalizer goroutine. *)
Defer ==
    /\ armLeft = {}
    /\ queued < MaxFinalizers
    /\ queued' = queued + 1
    /\ deferred' = Append(deferred, queued + 1)
    /\ armLeft' = Threads
    /\ UNCHANGED <<callsPending, pending, bridgeVars, evalVars>>

(* FinalizerArmHook: one thread after the other. *)
Arm ==
    /\ \E t \in armLeft :
          /\ callsPending' = [callsPending EXCEPT ![t] = TRUE]
          /\ armLeft' = armLeft \ {t}
    /\ UNCHANGED <<pending, deferred, queued, bridgeVars, evalVars>>

-----------------------------------------------------------------------------

Becomes(t, at) == pc' = [pc EXCEPT ![t] = at]

(* handleEvalBreaker: the bit is cleared first. *)
HandleBreaker(t) ==
    /\ pc[t] = "run" /\ callsPending[t]
    /\ callsPending' = [callsPending EXCEPT ![t] = FALSE]
    /\ Becomes(t, "finalize")
    /\ UNCHANGED <<pending, deferred, armLeft, queued, bridgeVars,
                   batch, called, finalized>>

(* Mutant: the batch is left on the list. *)
CopyBatch(t) ==
    /\ pc[t] = "finalize" /\ batch[t] = << >> /\ deferred # << >>
    /\ batch' = [batch EXCEPT ![t] = deferred]
    /\ UNCHANGED <<callsPending, pending, deferred, armLeft, queued, bridgeVars,
                   pc, called, finalized>>

(* DrainDeferredFinalizers: the whole list at once, and one by one.        *)
TakeBatch(t) ==
    /\ pc[t] = "finalize" /\ batch[t] = << >> /\ deferred # << >>
    /\ batch' = [batch EXCEPT ![t] = deferred]
    /\ deferred' = << >>
    /\ UNCHANGED <<callsPending, pending, armLeft, queued, bridgeVars,
                   pc, called, finalized>>

Finalize(t) ==
    /\ pc[t] = "finalize" /\ batch[t] # << >>
    /\ finalized' = Append(finalized, Head(batch[t]))
    /\ batch' = [batch EXCEPT ![t] = Tail(@)]
    /\ UNCHANGED <<callsPending, pending, deferred, armLeft, queued, bridgeVars,
                   pc, called>>

Finalized(t) ==
    /\ pc[t] = "finalize" /\ batch[t] = << >> /\ deferred = << >>
    /\ Becomes(t, "drain")
    /\ UNCHANGED <<callsPending, pending, deferred, armLeft, queued, bridgeVars,
                   batch, called, finalized>>

(* Mutant: the newest callback is run first. *)
CallNewest(t) ==
    /\ pc[t] = "drain" /\ t = MainThread /\ pending # << >>
    /\ called' = Append(called, pending[Len(pending)])
    /\ pending' = SubSeq(pending, 1, Len(pending) - 1)
    /\ Becomes(t, IF pending[Len(pending)] \in Failing THEN "run" ELSE "drain")
    /\ UNCHANGED <<callsPending, deferred, armLeft, queued, bridgeVars, batch, finalized>>

(* Pending.Drain: the oldest callback is taken off and run; one that       *)
(* raises ends the handler.                                                *)
Call(t) ==
    /\ pc[t] = "drain" /\ t = MainThread /\ pending # << >>
    /\ called' = Append(called, Head(pending))
    /\ pending' = Tail(pending)
    /\ Becomes(t, IF Head(pending) \in Failing THEN "run" ELSE "drain")
    /\ UNCHANGED <<callsPending, deferred, armLeft, queued, bridgeVars, batch, finalized>>

(* Mutant: the handler is done when the finalizers are. *)
DrainedAtOnce(t) ==
    /\ pc[t] = "drain"
    /\ Becomes(t, "run")
    /\ UNCHANGED <<callsPending, pending, deferred, armLeft, queued, bridgeVars,
                   batch, called, finalized>>

Drained(t) ==
    /\ pc[t] = "drain" /\ (t = MainThread => pending = << >>)
    /\ Becomes(t, "run")
    /\ UNCHANGED <<callsPending, pending, deferred, armLeft, queued, bridgeVars,
                   batch, called, finalized>>

EvalStep(t) ==
    HandleBreaker(t) \/ TakeBatch(t) \/ Finalize(t) \/ Finalized(t) \/ Call(t) \/ Drained(t)

LoopStep == Select \/ Deliver \/ Add \/ SetPending

PendingNext ==
    \/ Arrive \/ SetHandler \/ Stop \/ LoopStep
    \/ Defer \/ Arm
    \/ \E t \in Threads : EvalStep(t)

PendingSpec == PendingInit /\ [][PendingNext]_vars

(* The bridge's goroutine and the finalizer goroutine go on; the main      *)
(* thread polls its breaker, and what it calls returns.                    *)
PendingFairSpec ==
    /\ PendingSpec
    /\ WF_vars(LoopStep) /\ WF_vars(Arm)
    /\ WF_vars(EvalStep(MainThread))

-----------------------------------------------------------------------------

Elements(s) == { s[i] : i \in 1 .. Len(s) }
Distinct(s) == \A i, j \in 1 .. Len(s) : s[i] = s[j] => i = j

(* Every thread will look at the finalizers that are queued: it is armed,  *)
(* about to be, or looking already.  No poll of another thread disarms it. *)
FinalizersAnnounced ==
    deferred # << >> =>
        \A t \in Threads : callsPending[t] \/ t \in armLeft \/ pc[t] = "finalize"

(* pending.go:52: the last callback raised, and ended the drain. *)
CutShort == called # << >> /\ called[Len(called)] \in Failing

(* pending.go:3: the eval loop drains the queue at the next poll: as long  *)
(* as there are callbacks the main thread is told, or about to be, or at   *)
(* them already, unless a callback that raised has cut it short.           *)
CallsAnnounced ==
    pending # << >> =>
        callsPending[MainThread] \/ loop.at = "set" \/ pc[MainThread] # "run" \/ CutShort

(* Every finalizer is in one place: queued, in one thread's batch, or run, *)
(* once.                                                                   *)
FinalizersKept ==
    /\ 1 .. queued = Elements(deferred) \cup Elements(finalized)
                        \cup UNION { Elements(batch[t]) : t \in Threads }
    /\ Elements(deferred) \cap Elements(finalized) = {}
    /\ \A t \in Threads : Elements(batch[t]) \cap (Elements(deferred) \cup Elements(finalized)) = {}
    /\ \A t, u \in Threads : t # u => Elements(batch[t]) \cap Elements(batch[u]) = {}
    /\ Distinct(deferred) /\ Distinct(finalized) /\ \A t \in Threads : Distinct(batch[t])

(* Handlers run in the order of their signals, and none twice.             *)
CallsInOrder ==
    LET all == called \o pending
    IN  \A i, j \in 1 .. Len(all) : i < j => all[i] < all[j]

(* finalizer_defer.go:26 and pending.go:27: no finalizer is lost or run    *)
(* twice, every thread is told of those that are queued, and the main      *)
(* thread of callbacks that are; the bridge's queue stays within its slots *)
(* and signals are handled in their order.                                 *)
PendingInv ==
    PendingTypeOK /\ FinalizersKept /\ FinalizersAnnounced /\ CallsAnnounced /\ CallsInOrder

(* What is queued gets run, by a main thread that polls. *)
FinalizersRun ==
    \A f \in Finalizers :
        f \in Elements(deferred) ~>
            f \in Elements(finalized) \/ \E t \in Threads \ {MainThread} : f \in Elements(batch[t])

(* pending.go:52: callbacks that are queued are run; those behind one that *)
(* raises when there is a next announcement.                               *)
CallsRun ==
    \A s \in Signals :
        s \in Elements(pending) ~>
            s \in Elements(called) \/ (CutShort /\ ~callsPending[MainThread])

(* finalizer_defer.go:26, pending.go:52: no finalizer and no callback that *)
(* is queued is left there.                                                *)
QueuedWorkRuns == FinalizersRun /\ CallsRun
=============================================================================
